------------------------ MODULE MCNotificationHints ------------------------
(* One stream of the peer, and mail that comes twice, for TLC.              *)
EXTENDS NotificationHints

CONSTANT s1

Heads == [mail |-> 2, bulletin |-> 1]

=============================================================================
