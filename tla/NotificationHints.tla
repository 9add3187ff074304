-------------------------- MODULE NotificationHints --------------------------
(***************************************************************************)
(* The hint streams a Team Hub keeps open to one paired server: from the   *)
(* commit of mail or of a bulletin change (agentsdock_team_hub/store.py)   *)
(* through the broker and the lease of each stream                         *)
(* (notification_hints.py, mail_hint_streams.py) to the socket             *)
(* (secure_peer.py), and the ways in which the authority of the peer ends: *)
(* the revocation of the peer (secure_peer_hub.py) and a maintenance of    *)
(* the hub (secure_peer_runtime.py).                                       *)
(*                                                                         *)
(* One peer, one mailbox.  A stream is one request of the peer and is      *)
(* served by a thread of its own from Authenticate to Ends.  Of the        *)
(* ordinary requests only their place in the two counts is modelled that   *)
(* both closures wait for.  Sections under one lock (the broker's guard,   *)
(* the registry's condition, a lease's guard) and one read of the database *)
(* are each one action.                                                    *)
(***************************************************************************)
EXTENDS HintSubscription, FiniteSets

CONSTANTS
  Streams,      \* the requests for a stream that the peer makes
  Requests,     \* ordinary requests under way at a time
  MaxHead,      \* bound: of each lane, how many changes are committed
  MaxChanges,   \* bound: of all lanes, how many changes are committed
  PeerLimit,    \* secure_peer_hub.py: streams of one peer at a time (2)
  MaxClosures,  \* bound: how often the hub is closed for maintenance
  None

ASSUME HintsAssumption ==
  /\ MaxHead \in [Lanes -> Nat]
  /\ PeerLimit \in Nat /\ MaxClosures \in Nat /\ MaxChanges \in Nat
  /\ "mail" \in Lanes /\ IsFiniteSet(Streams) /\ None \notin Streams

VARIABLES
  head,       \* the last committed sequence of each lane (SQLite)
  outbox,     \* changes committed whose thread has not published them yet
  count,      \* the broker's count of subscriptions
  stream,     \* of each stream: its thread, subscription and lease
  told,       \* what has been written to its socket
  request,    \* of each ordinary request: who counts it as in flight
  revoker,    \* the thread that revokes the peer
  closer,     \* the thread that closes the hub's admission
  admission   \* the admission epoch, and whether it is closed

vars == <<head, outbox, count, stream, told, revoker, closer, admission, request>>

Zero == [l \in Lanes |-> 0]

\* From one end of a stream to the other, by the thread that serves it:
\* authenticated, with the epoch noted, with a place reserved, subscribed,
\* with a snapshot read, seeded, in the registry, with a frame to write, with
\* its authority checked, in the write, and waiting for the next hint.
Steps == {"idle", "known", "noted", "reserved", "subscribed", "read",
          "seeded", "registered", "ready", "checked", "writing", "waiting",
          "ending", "ended"}

NewStream ==
  [pc |-> "idle", epoch |-> 0, slot |-> "none", sub |-> NoSubscription,
   latest |-> Zero, closed |-> FALSE, greeted |-> FALSE]

Init ==
  /\ head = Zero
  /\ outbox = {}
  /\ count = 0
  /\ stream = [s \in Streams |-> NewStream]
  /\ told = [s \in Streams |-> Zero]
  /\ revoker = [pc |-> "none", todo |-> {}, at |-> None]
  /\ closer = [pc |-> "none", todo |-> {}, at |-> None]
  /\ admission = [epoch |-> 0, closed |-> FALSE]
  /\ request = [r \in Requests |-> "none"]

-----------------------------------------------------------------------------
(* Authority *)

Credential == revoker.pc = "none"           \* authenticate_peer
\* _revoking
Fenced == revoker.pc \in {"fenced", "closing", "waiting", "draining"}
Member == revoker.pc # "returned"           \* the binding in the hub's store

\* _peer_mail_authority: the hub has not been closed since
Admitted(s) == ~admission.closed /\ admission.epoch = stream[s].epoch

\* authorize, as revalidate calls it
Authorized(s) ==
  /\ Admitted(s)
  /\ ~Fenced
  /\ stream[s].slot = "lease"
  /\ Member

\* the slots of the registry that the peer has taken
Held == {s \in Streams : stream[s].slot # "none"}

\* streams whose abort the gateway has registered
Serving == {s \in Streams :
              stream[s].pc \in {"ready", "checked", "writing", "waiting"}}

\* A lease's writer lock is held from the check of authority to the end of
\* the write.
Writing(s) == stream[s].pc \in {"checked", "writing"}

-----------------------------------------------------------------------------
(* Commits and their publication *)

Changes == UNION {{l} \X (1 .. head[l]) : l \in Lanes}

\* create_team_message and its like: the commit, and what the thread that
\* made it has still to publish.  A bulletin change is published as the head
\* that is read after the commit, so its sequence is not known yet.
Commit(l) ==
  /\ head[l] < MaxHead[l] /\ Cardinality(Changes) < MaxChanges
  /\ head' = [head EXCEPT ![l] = @ + 1]
  /\ outbox' = outbox \cup
       {[lane |-> l, of |-> head[l] + 1,
         seq |-> IF l = "mail" THEN head[l] + 1 ELSE Unknown]}
  /\ UNCHANGED <<count, stream, told, revoker, closer, admission, request>>

\* _publish_team_bulletin_head reads the head, which may be a later one
ReadHead(p) ==
  /\ p.seq = Unknown
  /\ outbox' = (outbox \ {p}) \cup {[p EXCEPT !.seq = head[p.lane]]}
  /\ UNCHANGED <<head, count, stream, told, revoker, closer, admission, request>>

\* publish_mail, publish_bulletin
Publish(p) ==
  /\ p.seq # Unknown
  /\ stream' = [s \in Streams |->
                  [stream[s] EXCEPT !.sub = Published(@, p.lane, p.seq)]]
  /\ outbox' = outbox \ {p}
  /\ UNCHANGED <<head, count, told, revoker, closer, admission, request>>

OpenSubs == {s \in Streams : stream[s].sub.open}

\* Mutant: the failure is only logged.
PublicationFailsUnnoticed(p) ==
  /\ outbox' = outbox \ {p}
  /\ UNCHANGED <<head, count, stream, told, revoker, closer, admission, request>>

\* The publication fails: invalidate closes the subscriptions, so that their
\* clients come back for a snapshot.
PublicationFails(p) ==
  /\ stream' = [s \in Streams |-> [stream[s] EXCEPT !.sub = Closed(@)]]
  /\ count' = count - Cardinality(OpenSubs)
  /\ outbox' = outbox \ {p}
  /\ UNCHANGED <<head, told, revoker, closer, admission, request>>

-----------------------------------------------------------------------------
(* The thread of a stream *)

Step(s, to) == [stream EXCEPT ![s].pc = to]

\* The gateway authenticates the request by its certificate ...
Authenticate(s) ==
  /\ stream[s].pc = "idle"
  /\ Credential
  /\ stream' = Step(s, "known")
  /\ UNCHANGED <<head, outbox, count, told, revoker, closer, admission, request>>

\* ... and _subscribe_peer_mail_hints notes the admission epoch, which must be
\* an open one.
NoteEpoch(s) ==
  /\ stream[s].pc = "known"
  /\ ~admission.closed
  /\ stream' = [Step(s, "noted") EXCEPT ![s].epoch = admission.epoch]
  /\ UNCHANGED <<head, outbox, count, told, revoker, closer, admission, request>>

\* subscribe_team_mail_hints takes a place in the registry, or the request
\* is refused.  The epoch is not looked at again before Admit.
Reserve(s) ==
  /\ stream[s].pc = "noted"
  /\ ~Fenced /\ Cardinality(Held) < PeerLimit
  /\ stream' = [Step(s, "reserved") EXCEPT ![s].slot = "token"]
  /\ UNCHANGED <<head, outbox, count, told, revoker, closer, admission, request>>

\* subscribe_team_notifications: the mailbox is looked up and subscribed to,
\* and the snapshot is read after that.
Subscribe(s) ==
  /\ stream[s].pc = "reserved"
  /\ Member
  /\ stream' = [Step(s, "subscribed") EXCEPT ![s].sub = NewSubscription]
  /\ count' = count + 1
  /\ UNCHANGED <<head, outbox, told, revoker, closer, admission, request>>

ReadSnapshot(s) ==
  /\ stream[s].pc = "subscribed"
  /\ Member
  /\ stream' = [Step(s, "read") EXCEPT ![s].latest = head]
  /\ UNCHANGED <<head, outbox, count, told, revoker, closer, admission, request>>

\* seed fails on a subscription that was closed meanwhile
Seed(s) ==
  /\ stream[s].pc = "read"
  /\ stream[s].sub.open
  /\ stream' = [Step(s, "seeded") EXCEPT
                  ![s].sub = Seeded(@, stream[s].latest)]
  /\ UNCHANGED <<head, outbox, count, told, revoker, closer, admission, request>>

\* the lease takes the place of the token
Register(s) ==
  /\ stream[s].pc = "seeded"
  /\ stream' = [Step(s, "registered") EXCEPT ![s].slot = "lease"]
  /\ UNCHANGED <<head, outbox, count, told, revoker, closer, admission, request>>

\* revalidate before the lease is handed to the gateway, which has the
\* snapshot to write
Admit(s) ==
  /\ stream[s].pc = "registered"
  /\ Authorized(s) /\ ~stream[s].closed
  /\ stream' = Step(s, "ready")
  /\ UNCHANGED <<head, outbox, count, told, revoker, closer, admission, request>>

\* write: the lock is taken and the authority checked ...
CheckAuthority(s) ==
  /\ stream[s].pc = "ready"
  /\ ~stream[s].closed /\ Authorized(s)
  /\ stream' = Step(s, "checked")
  /\ UNCHANGED <<head, outbox, count, told, revoker, closer, admission, request>>

\* ... and then that the lease has not been closed, and the certificate
StartWrite(s) ==
  /\ stream[s].pc = "checked"
  /\ ~stream[s].closed /\ Credential
  /\ stream' = Step(s, "writing")
  /\ UNCHANGED <<head, outbox, count, told, revoker, closer, admission, request>>

\* A write that was begun may still get out when the lease is closed.
EndWrite(s) ==
  /\ stream[s].pc = "writing"
  /\ stream' = [Step(s, "waiting") EXCEPT ![s].greeted = TRUE]
  /\ told' = [told EXCEPT ![s] = stream[s].latest]
  /\ UNCHANGED <<head, outbox, count, revoker, closer, admission, request>>

\* take: a cursor that says nothing new is passed over
Take(s) ==
  LET sub == stream[s].sub IN
  /\ stream[s].pc = "waiting"
  /\ sub.open /\ sub.pending /\ ~stream[s].closed
  /\ IF sub.latest = stream[s].latest
     THEN stream' = [stream EXCEPT ![s].sub = Taken(@)]
     ELSE stream' = [Step(s, "ready") EXCEPT
                       ![s].sub = Taken(@), ![s].latest = sub.latest]
  /\ UNCHANGED <<head, outbox, count, told, revoker, closer, admission, request>>

\* The request is refused, a check fails, the certificate expires, the peer
\* hangs up or the write fails: each may happen at any point.
Fails(s) ==
  /\ stream[s].pc \notin {"idle", "ending", "ended"}
  /\ stream' = Step(s, "ending")
  /\ UNCHANGED <<head, outbox, count, told, revoker, closer, admission, request>>

\* Mutant: the place in the registry is not given back.
EndsKeepingSlot(s) ==
  /\ stream[s].pc = "ending"
  /\ stream' = [stream EXCEPT
                  ![s] = [NewStream EXCEPT !.pc = "ended", !.slot = stream[s].slot]]
  /\ count' = count - Cardinality({s} \cap OpenSubs)
  /\ UNCHANGED <<head, outbox, told, revoker, closer, admission, request>>

\* the thread's own close: cancel, nothing to drain, and the slot is given up
Ends(s) ==
  /\ stream[s].pc = "ending"
  /\ stream' = [stream EXCEPT ![s] = [NewStream EXCEPT !.pc = "ended"]]
  /\ count' = count - Cardinality({s} \cap OpenSubs)
  /\ UNCHANGED <<head, outbox, told, revoker, closer, admission, request>>

-----------------------------------------------------------------------------
(* Ordinary requests *)

\* The runtime counts a request of the peer while it is open
\* (_peer_in_flight) ...
EnterRequest(r) ==
  /\ request[r] = "none"
  /\ Credential /\ ~admission.closed
  /\ request' = [request EXCEPT ![r] = "entered"]
  /\ UNCHANGED <<head, outbox, count, stream, told, revoker, closer, admission>>

\* ... and an operation of the hub's own server (_host_in_flight), which does
\* not go through the adapter.
EnterOperation(r) ==
  /\ request[r] = "none"
  /\ ~admission.closed
  /\ request' = [request EXCEPT ![r] = "counted"]
  /\ UNCHANGED <<head, outbox, count, stream, told, revoker, closer, admission>>

\* The adapter counts what it serves (_in_flight), unless the peer is fenced.
AdmitRequest(r) ==
  /\ request[r] = "entered"
  /\ ~Fenced
  /\ request' = [request EXCEPT ![r] = "served"]
  /\ UNCHANGED <<head, outbox, count, stream, told, revoker, closer, admission>>

\* It is answered or refused, or its attachment has been sent or aborted: the
\* adapter gives up its count first.
ReleaseRequest(r) ==
  /\ request[r] = "served"
  /\ request' = [request EXCEPT ![r] = "counted"]
  /\ UNCHANGED <<head, outbox, count, stream, told, revoker, closer, admission>>

\* Then the runtime does; also when the adapter has refused the request.
LeaveRequest(r) ==
  /\ request[r] \in {"entered", "counted"}
  /\ request' = [request EXCEPT ![r] = "none"]
  /\ UNCHANGED <<head, outbox, count, stream, told, revoker, closer, admission>>

-----------------------------------------------------------------------------
(* Closing the streams from outside *)

\* Mutant: a subscription that is closed twice is counted out twice.
CancelAllAgain(S) ==
  /\ stream' = [s \in Streams |->
                  IF s \in S
                  THEN [stream[s] EXCEPT !.closed = TRUE, !.sub = Closed(@)]
                  ELSE stream[s]]
  /\ count' = count - Cardinality(S)

\* cancel: closed, with its subscription, but not waiting for a writer
CancelAll(S) ==
  /\ stream' = [s \in Streams |->
                  IF s \in S
                  THEN [stream[s] EXCEPT !.closed = TRUE, !.sub = Closed(@)]
                  ELSE stream[s]]
  /\ count' = count - Cardinality(S \cap OpenSubs)

\* SecurePeerGateway.close_mail_hint_streams aborts what it serves
AbortServed == CancelAll(Serving)

\* SecurePeerHubAdapter.close_mail_hint_streams: the leases of the registry,
\* not the places that are still reserved ...
Leases == {s \in Streams : stream[s].slot = "lease"}

\* Mutant: the writer is not waited for.
DrainedAtOnce(s) == TRUE

\* ... are closed one by one: cancelled, then drained of their writer, then
\* retired.
Drained(s) == ~Writing(s)

RetireAt(s) == stream' = [stream EXCEPT ![s].slot = "none"]

-----------------------------------------------------------------------------
(* Revocation of the peer *)

\* revoke_peer_for_self or the owner's revoke: the credential in its database
RevokeCredential ==
  /\ revoker.pc = "none"
  /\ revoker' = [revoker EXCEPT !.pc = "credential"]
  /\ UNCHANGED <<head, outbox, count, stream, told, closer, admission, request>>

\* _notify_mail_hint_revoked
NotifyRevoked ==
  /\ revoker.pc = "credential"
  /\ AbortServed
  /\ revoker' = [revoker EXCEPT !.pc = "notified"]
  /\ UNCHANGED <<head, outbox, told, closer, admission, request>>

\* revoke_peer of the adapter: a fence against new streams ...
RevokeFence ==
  /\ revoker.pc = "notified"
  /\ revoker' = [revoker EXCEPT !.pc = "fenced"]
  /\ UNCHANGED <<head, outbox, count, stream, told, closer, admission, request>>

\* ... the leases there are ...
RevokeCollect ==
  /\ revoker.pc = "fenced"
  /\ revoker' = [revoker EXCEPT !.pc = "closing", !.todo = Leases]
  /\ UNCHANGED <<head, outbox, count, stream, told, closer, admission, request>>

RevokeCancel ==
  /\ revoker.pc = "closing" /\ revoker.at = None
  /\ \E s \in revoker.todo :
       /\ CancelAll({s})
       /\ revoker' = [revoker EXCEPT !.at = s, !.todo = @ \ {s}]
  /\ UNCHANGED <<head, outbox, told, closer, admission, request>>

RevokeRetire ==
  /\ revoker.at # None
  /\ Drained(revoker.at)
  /\ RetireAt(revoker.at)
  /\ revoker' = [revoker EXCEPT !.at = None]
  /\ UNCHANGED <<head, outbox, count, told, closer, admission, request>>

\* ... and, with those closed, a wait for whoever was still subscribing
RevokeWait ==
  /\ revoker.pc = "closing" /\ revoker.at = None /\ revoker.todo = {}
  /\ revoker' = [revoker EXCEPT !.pc = "waiting"]
  /\ UNCHANGED <<head, outbox, count, stream, told, closer, admission, request>>

\* ... and for the requests the adapter still serves, whose attachments it
\* aborts again and again.
RevokeDrain ==
  /\ revoker.pc = "waiting"
  /\ Held = {}
  /\ revoker' = [revoker EXCEPT !.pc = "draining"]
  /\ UNCHANGED <<head, outbox, count, stream, told, closer, admission, request>>

\* revoke_secure_peer_service, and the fence is lifted
RevokeReturns ==
  /\ revoker.pc = "draining"
  /\ \A r \in Requests : request[r] # "served"
  /\ revoker' = [revoker EXCEPT !.pc = "returned"]
  /\ UNCHANGED <<head, outbox, count, stream, told, closer, admission, request>>

-----------------------------------------------------------------------------
(* Maintenance of the hub: close_host_admission and reopen_host_admission *)

CloseAdmission ==
  /\ closer.pc = "none"
  /\ admission.epoch < 2 * MaxClosures
  /\ admission' = [epoch |-> admission.epoch + 1, closed |-> TRUE]
  /\ closer' = [closer EXCEPT !.pc = "fenced"]
  /\ UNCHANGED <<head, outbox, count, stream, told, revoker, request>>

CloseGateway ==
  /\ closer.pc = "fenced"
  /\ AbortServed
  /\ closer' = [closer EXCEPT !.pc = "collecting"]
  /\ UNCHANGED <<head, outbox, told, revoker, admission, request>>

CloseCollect ==
  /\ closer.pc = "collecting"
  /\ closer' = [closer EXCEPT !.pc = "closing", !.todo = Leases]
  /\ UNCHANGED <<head, outbox, count, stream, told, revoker, admission, request>>

CloseCancel ==
  /\ closer.pc = "closing" /\ closer.at = None
  /\ \E s \in closer.todo :
       /\ CancelAll({s})
       /\ closer' = [closer EXCEPT !.at = s, !.todo = @ \ {s}]
  /\ UNCHANGED <<head, outbox, told, revoker, admission, request>>

CloseRetire ==
  /\ closer.at # None
  /\ Drained(closer.at)
  /\ RetireAt(closer.at)
  /\ closer' = [closer EXCEPT !.at = None]
  /\ UNCHANGED <<head, outbox, count, told, revoker, admission, request>>

\* With the streams closed, whatever was counted before has to leave.
CloseReturns ==
  /\ closer.pc = "closing" /\ closer.at = None /\ closer.todo = {}
  /\ \A r \in Requests : request[r] = "none"
  /\ closer' = [closer EXCEPT !.pc = "closed"]
  /\ UNCHANGED <<head, outbox, count, stream, told, revoker, admission, request>>

Reopen ==
  /\ closer.pc = "closed"
  /\ admission' = [epoch |-> admission.epoch + 1, closed |-> FALSE]
  /\ closer' = [closer EXCEPT !.pc = "none"]
  /\ UNCHANGED <<head, outbox, count, stream, told, revoker, request>>

-----------------------------------------------------------------------------
Serve(s) ==
  \/ NoteEpoch(s) \/ Reserve(s) \/ Subscribe(s) \/ ReadSnapshot(s) \/ Seed(s)
  \/ Register(s) \/ Admit(s) \/ CheckAuthority(s) \/ StartWrite(s) \/ EndWrite(s)
  \/ Take(s) \/ Ends(s)

Answer(r) == AdmitRequest(r) \/ ReleaseRequest(r) \/ LeaveRequest(r)

Announce(p) == ReadHead(p) \/ Publish(p) \/ PublicationFails(p)

Revoke ==
  \/ NotifyRevoked \/ RevokeFence \/ RevokeCollect \/ RevokeCancel
  \/ RevokeRetire \/ RevokeWait \/ RevokeDrain \/ RevokeReturns

Close ==
  \/ CloseGateway \/ CloseCollect \/ CloseCancel \/ CloseRetire
  \/ CloseReturns

Next ==
  \/ \E l \in Lanes : Commit(l)
  \/ \E p \in outbox : Announce(p)
  \/ \E s \in Streams : Authenticate(s) \/ Serve(s) \/ Fails(s)
  \/ \E r \in Requests : EnterRequest(r) \/ EnterOperation(r) \/ Answer(r)
  \/ RevokeCredential \/ Revoke
  \/ CloseAdmission \/ Close \/ Reopen

Spec == Init /\ [][Next]_vars

\* A thread that is waiting for a hint waits until there is one or its
\* subscription is closed.  Everywhere else it goes on or gives up: socket
\* writes are bounded by a timeout, and nothing else blocks.  So does the
\* thread of an ordinary request: what it sends is finite.
GoesOn(s) ==
  \/ Serve(s)
  \/ /\ stream[s].pc = "waiting" => stream[s].closed \/ ~stream[s].sub.open
     /\ Fails(s)

Fairness ==
  /\ \A s \in Streams : WF_vars(GoesOn(s))
  /\ \A r \in Requests : WF_vars(Answer(r))
  /\ WF_vars(\E p \in outbox : Announce(p))
  /\ WF_vars(Revoke)
  /\ WF_vars(Close)

LiveSpec == Spec /\ Fairness

-----------------------------------------------------------------------------
(* Properties *)

StreamType ==
  [pc : Steps, epoch : Nat, slot : {"none", "token", "lease"},
   sub : Subscription, latest : Cursor, closed : BOOLEAN, greeted : BOOLEAN]

\* Types, and the count of the broker (its capacity) is that of the
\* subscriptions that are open, however often and by whomever they are closed.
TypeOK ==
  /\ head \in Cursor
  /\ \A l \in Lanes : head[l] <= MaxHead[l]
  /\ \A p \in outbox :
       /\ p.lane \in Lanes /\ p.of \in 1..head[p.lane]
       /\ p.seq = Unknown \/ p.seq \in p.of..head[p.lane]
  /\ stream \in [Streams -> StreamType]
  /\ told \in [Streams -> Cursor]
  /\ revoker.todo \subseteq Streams /\ revoker.at \in Streams \cup {None}
  /\ closer.todo \subseteq Streams /\ closer.at \in Streams \cup {None}
  /\ admission \in [epoch : 0 .. 2 * MaxClosures, closed : BOOLEAN]
  /\ request \in [Requests -> {"none", "entered", "served", "counted"}]
  /\ count = Cardinality(OpenSubs)

\* A stream that waits for a hint has told its client of all there is, but
\* for changes that somebody is still about to publish: neither a hint that
\* came between subscription and snapshot nor one that overtook another is
\* lost.
QuietMeansCurrent ==
  \A s \in Streams, l \in Lanes :
    (stream[s].pc = "waiting" /\ stream[s].sub.open /\ ~stream[s].sub.pending)
      => \/ told[s][l] = head[l]
         \/ \E p \in outbox : p.lane = l /\ p.of > told[s][l]

\* When the call that ends an authority has returned, nothing more is written
\* under it: after the revocation of the peer to no stream at all, also not to
\* one that was asked for before; after the hub has closed for maintenance to no
\* stream admitted before that, not even when the hub is open again.
SilentOnceEnded ==
  [][\A s \in Streams : told'[s] # told[s] =>
       /\ revoker.pc # "returned"
       /\ closer.pc \in {"closed", "none"} => stream[s].epoch = admission.epoch]_vars

\* The peer's revocation and the hub's maintenance get to their end, however
\* their loops meet the threads that subscribe, write and end, and although
\* ordinary requests go on arriving while they wait for those under way.
ClosuresReturn ==
  /\ revoker.pc = "credential" ~> revoker.pc = "returned"
  /\ closer.pc = "fenced" ~> closer.pc = "closed"

Phase(s) ==
  CASE stream[s].pc = "ended" -> "ended"
    [] stream[s].greeted -> "open"
    [] OTHER -> "before"

Client == INSTANCE HintStream WITH phase <- [s \in Streams |-> Phase(s)]

\* The streams keep the promise of HintStream to their clients: a snapshot,
\* then newer cursors only, and all of them or the end of the stream.
ImplementsHintStream == Client!Spec

=============================================================================
