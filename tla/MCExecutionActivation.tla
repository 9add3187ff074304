----------------------- MODULE MCExecutionActivation -----------------------
(***************************************************************************)
(* Bounds for checking ExecutionActivation with TLC; the cfg files give    *)
(* the other constants.                                                    *)
(***************************************************************************)
EXTENDS ExecutionActivation

EveryScope == {"migration", "worker", "gateway"}
=============================================================================
