----------------------------- MODULE HintStream -----------------------------
(***************************************************************************)
(* What a stream of notification hints promises the client at its far end: *)
(* it is told of a snapshot first and then only of newer cursors, never of *)
(* something that was not committed, and a stream that stays open tells of *)
(* everything in the end.  A client that is not told any more has been cut *)
(* off and knows it, so that it can subscribe again.                       *)
(*                                                                         *)
(* NotificationHints (the hub's own streams) and MemberFeed (the streams   *)
(* of a member server that relays one of the hub) both implement this.     *)
(***************************************************************************)
EXTENDS Integers

CONSTANTS Streams, Lanes

VARIABLES
  head,     \* the last committed sequence of each lane
  phase,    \* of each stream: "before", "open" or "ended"
  told      \* what the client of each stream was told of last

vars == <<head, phase, told>>

Init ==
  /\ head = [l \in Lanes |-> 0]
  /\ phase = [s \in Streams |-> "before"]
  /\ told = [s \in Streams |-> [l \in Lanes |-> 0]]

Commit(l) ==
  /\ head' = [head EXCEPT ![l] = @ + 1]
  /\ UNCHANGED <<phase, told>>

\* the snapshot, and then one hint after the other
Tell(s) ==
  /\ phase[s] \in {"before", "open"}
  /\ phase' = [phase EXCEPT ![s] = "open"]
  /\ \A t \in Streams \ {s} : told'[t] = told[t]
  /\ DOMAIN told' = Streams /\ DOMAIN told'[s] = Lanes
  /\ \A l \in Lanes : told[s][l] <= told'[s][l] /\ told'[s][l] <= head[l]
  /\ phase[s] = "open" => told'[s] # told[s]
  /\ UNCHANGED head

End(s) ==
  /\ phase[s] # "ended"
  /\ phase' = [phase EXCEPT ![s] = "ended"]
  /\ UNCHANGED <<head, told>>

Next ==
  \/ \E l \in Lanes : Commit(l)
  \/ \E s \in Streams : Tell(s) \/ End(s)

\* A change committed while a stream is open reaches the client, or the end
\* of the stream does.
Delivery ==
  \A s \in Streams, l \in Lanes :
    (phase[s] = "open" /\ told[s][l] < head[l])
      ~> (phase[s] = "ended" \/ told[s][l] = head[l])

Safety == Init /\ [][Next]_vars

Spec == Safety /\ Delivery

=============================================================================
