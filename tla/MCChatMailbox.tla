---------------------------- MODULE MCChatMailbox ----------------------------
(* Instances of ChatMailbox for TLC: two chats that one route pair joins.     *)
EXTENDS ChatMailbox, TLC

CONSTANTS a, b, ab, r1, r2, r3, u1, u2

OnePair == [p \in {ab} |-> {a, b}]
FullAuthority == {Pairs}
AnyAuthority == SUBSET Pairs

NoDirect == {}
\* An envelope from b to a that b's agent had delivered at once.
OneDirect == {[src |-> b, tgt |-> a, pair |-> ab]}

NoLegacy == {}
\* Two runs of an older version used the same request key.
AmbiguousKey == {[id |-> <<b, r3, u>>, src |-> a, snapshot |-> 0, limit |-> 1] : u \in {u1, u2}}

\* Messages are alike, and so are claims.
MessageSymmetry == Permutations(Messages) \cup Permutations(Claims)
=============================================================================
