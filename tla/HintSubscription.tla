-------------------------- MODULE HintSubscription --------------------------
(***************************************************************************)
(* One subscription of the notification broker                             *)
(* (agentsdock_team_hub/notification_hints.py, NotificationSubscription).  *)
(* It holds the newest sequence of each lane that anybody told it, and     *)
(* whether there is something its reader has not taken yet.  The methods   *)
(* run under the guard of the broker, so each is one operator here.        *)
(*                                                                         *)
(* A change is named by its sequence: two changes of one lane with the     *)
(* same sequence, which only a restored database can bring about, are left *)
(* out.                                                                    *)
(***************************************************************************)
EXTENDS Integers

CONSTANT Lanes      \* mail and bulletin, each with a sequence of its own

Unknown == -1       \* the lane of a subscription that nobody has told of yet

Cursor == [Lanes -> Nat]

\* every lane of c is at least as far as that of d
AtLeast(c, d) == \A l \in Lanes : c[l] >= d[l]

Later(m, n) == IF m < n THEN n ELSE m

Subscription ==
  [latest : [Lanes -> Nat \cup {Unknown}], seeded : BOOLEAN,
   pending : BOOLEAN, open : BOOLEAN]

NewSubscription ==
  [latest |-> [l \in Lanes |-> Unknown], seeded |-> FALSE,
   pending |-> FALSE, open |-> TRUE]

NoSubscription == [NewSubscription EXCEPT !.open = FALSE]

\* Mutant: an older hint takes the place of a newer one.
PublishedAlways(sub, lane, seq) ==
  IF ~sub.open THEN sub
  ELSE [sub EXCEPT !.latest[lane] = seq, !.pending = TRUE]

\* _publish: what the subscription has been told already, or is older, is dropped
Published(sub, lane, seq) ==
  IF ~sub.open \/ seq <= sub.latest[lane] THEN sub
  ELSE [sub EXCEPT !.latest[lane] = seq, !.pending = TRUE]

\* Mutant: the snapshot takes the place of what was published meanwhile.
SeededOver(sub, snapshot) ==
  [sub EXCEPT !.latest = snapshot, !.seeded = TRUE, !.pending = FALSE]

\* seed: the snapshot joins what was published while it was being read
Seeded(sub, snapshot) ==
  [sub EXCEPT
     !.latest = [l \in Lanes |-> Later(sub.latest[l], snapshot[l])],
     !.seeded = TRUE,
     !.pending = \E l \in Lanes : sub.latest[l] > snapshot[l]]

\* take, once it need not wait any longer
Taken(sub) == [sub EXCEPT !.pending = FALSE]

\* _close_locked
Closed(sub) == NoSubscription

=============================================================================
