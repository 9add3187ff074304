------------------------ MODULE MCActivationHistory ------------------------
(* The same for ActivationHistory.                                         *)
EXTENDS ActivationHistory

EveryScope == {"migration", "worker", "gateway"}
=============================================================================
