---------------------------- MODULE MCTurnQueue ----------------------------
EXTENDS TurnQueue

CONSTANTS a, b

\* Only is SelectSeq of the standard module.
ASSUME OnlyIsSelectSeq ==
  \A s \in UNION {[1 .. n -> {a, b, None}] : n \in 0 .. 5}, T \in SUBSET {a, b, None} :
    Only(s, T) = SelectSeq(s, LAMBDA m : m \in T)

=============================================================================
