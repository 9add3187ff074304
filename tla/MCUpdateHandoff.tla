--------------------------- MODULE MCUpdateHandoff ---------------------------
(* Two updates, one after the other, with another client between them.     *)
EXTENDS UpdateHandoff

CONSTANTS u1, u2

MCUpdates == {u1, u2}
=============================================================================
