---------------------------- MODULE MCMemberFeed ----------------------------
(* Two local streams, and a feed that may be opened twice, for TLC.          *)
EXTENDS MemberFeed, TLC

CONSTANTS s1, s2, f1, f2

Heads == [mail |-> 2, bulletin |-> 0]

(* Local streams are alike. *)
StreamSymmetry == Permutations(Streams)

=============================================================================
