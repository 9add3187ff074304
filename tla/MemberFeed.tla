----------------------------- MODULE MemberFeed -----------------------------
(***************************************************************************)
(* How a member server passes the hints of its hub on to its own clients   *)
(* (team_mail_runtime.py, the realm secure_peer in version 2).  All local  *)
(* streams share one upstream stream, the feed.  The first of them opens   *)
(* it, the last one closes it, and when it ends the streams it fed end     *)
(* with it.  Each local stream reads a snapshot of the hub for itself.     *)
(*                                                                         *)
(* The hub is here what HintStream promises: a feed is told of a snapshot  *)
(* and then of newer cursors, or ends.  Local streams are served as those  *)
(* of the hub are (NotificationHints), by the same lease.                  *)
(***************************************************************************)
EXTENDS HintSubscription, FiniteSets

CONSTANTS
  Streams,          \* the local requests for a stream
  Feeds,            \* the upstream streams there can be, one after the other
  MaxHead,          \* bound: of each lane, how many changes are committed
  Capacity,         \* local streams at a time (16)
  MaxInvalidations, \* bound: how often the member's authority changes
  None

ASSUME FeedAssumption ==
  /\ MaxHead \in [Lanes -> Nat]
  /\ MaxInvalidations \in Nat /\ Capacity \in Nat
  /\ "mail" \in Lanes /\ None \notin Streams \cup Feeds /\ IsFiniteSet(Streams)

VARIABLES
  head,         \* at the hub: the last committed sequence of each lane
  feed,         \* of each feed: its reader thread and what it has read
  member,       \* RuntimeMailHints: the feed in use,
  leases,       \*   the leases of local streams,
  pending,      \*   how many subscriptions are under way,
  generation,   \*   and how often authority has changed
  stream,       \* of each local stream: its thread, subscription and lease
  told,         \* what has been written to its client
  invalidator   \* the thread that is changing authority

vars == <<head, feed, member, leases, pending, generation, stream, told,
          invalidator>>

Zero == [l \in Lanes |-> 0]

\* the reader of a feed opens it, reads, and has one broker call to make for
\* each lane of a frame
NewFeed ==
  [pc |-> "none", heard |-> Zero, todo |-> {}, ready |-> FALSE,
   closed |-> FALSE, generation |-> 0]

NewStream ==
  [pc |-> "idle", generation |-> 0, of |-> None, sub |-> NoSubscription,
   latest |-> Zero, closed |-> FALSE, greeted |-> FALSE, old |-> None]

Init ==
  /\ head = Zero
  /\ feed = [f \in Feeds |-> NewFeed]
  /\ member = None
  /\ leases = {}
  /\ pending = 0
  /\ generation = 0
  /\ stream = [s \in Streams |-> NewStream]
  /\ told = [s \in Streams |-> Zero]
  /\ invalidator = [pc |-> "none", old |-> None, todo |-> {}, at |-> None]

-----------------------------------------------------------------------------
(* Closing *)

\* _MemberFeed.close: its brokers are closed, and with them every
\* subscription; the upstream stream is closed, which ends its reader
FeedsClosed(F) ==
  [f \in Feeds |-> IF f \in F THEN [feed[f] EXCEPT !.closed = TRUE]
                   ELSE feed[f]]

\* streams, when the feeds of F have closed their subscriptions
CutOff(F) ==
  [s \in Streams |-> IF stream[s].of \in F
                     THEN [stream[s] EXCEPT !.sub = Closed(@)] ELSE stream[s]]

Writing(s) == stream[s].pc = "writing"

\* Mutant: the feed stays open.
FeedLeftInUse(remaining, underway) == None

\* When the last lease is retired, or the last subscription is no longer
\* under way, nobody needs the feed: whoever finds that takes it out of use
\* and then closes it.
FeedLeft(remaining, underway) ==
  IF remaining = {} /\ underway = 0 THEN member ELSE None

TakeOut(old) == member' = IF old = None THEN member ELSE None

-----------------------------------------------------------------------------
(* The hub and the feed *)

Commit(l) ==
  /\ head[l] < MaxHead[l]
  /\ head' = [head EXCEPT ![l] = @ + 1]
  /\ UNCHANGED <<feed, member, leases, pending, generation, stream, told,
                 invalidator>>

\* _read: the next frame of the hub's stream, a snapshot if it is the first
Frame(f) ==
  /\ feed[f].pc \in {"opening", "reading"} /\ feed[f].todo = {}
  /\ ~feed[f].closed
  /\ \E c \in [Lanes -> UNION {0..head[l] : l \in Lanes}] :
       /\ AtLeast(c, feed[f].heard) /\ AtLeast(head, c)
       /\ feed[f].pc = "reading" => c # feed[f].heard
       /\ feed' = [feed EXCEPT
            ![f].pc = "reading", ![f].heard = c,
            ![f].todo = IF feed[f].pc = "opening" THEN Lanes
                        ELSE {l \in Lanes : c[l] # feed[f].heard[l]}]
  /\ UNCHANGED <<head, member, leases, pending, generation, stream, told,
                 invalidator>>

\* publish_mail before publish_bulletin, and then the feed is ready
PassOn(f) ==
  /\ feed[f].todo # {}
  /\ LET l == IF "mail" \in feed[f].todo THEN "mail"
              ELSE CHOOSE k \in feed[f].todo : TRUE
     IN /\ stream' = [s \in Streams |->
                        IF stream[s].of = f
                        THEN [stream[s] EXCEPT
                                !.sub = Published(@, l, feed[f].heard[l])]
                        ELSE stream[s]]
        /\ feed' = [feed EXCEPT ![f].todo = @ \ {l},
                                ![f].ready = @ \/ feed[f].todo = {l}]
  /\ UNCHANGED <<head, member, leases, pending, generation, told, invalidator>>

\* the hub ends the stream, a frame is refused, or the feed was closed
FeedEnds(f) ==
  /\ feed[f].pc \in {"opening", "reading"}
  /\ feed' = [feed EXCEPT ![f] = [NewFeed EXCEPT !.pc = "ended", !.closed = TRUE]]
  /\ stream' = CutOff({f})
  /\ UNCHANGED <<head, member, leases, pending, generation, told, invalidator>>

-----------------------------------------------------------------------------
(* The thread of a local stream: subscribe *)

Step(s, to) == [stream EXCEPT ![s].pc = to]

\* the steps at which a subscription counts as under way
Subscribing == {"captured", "joined", "subscribed", "read",
                "registered", "failing"}

Serving == {"ready", "writing", "waiting"}

\* _capture and a place of the capacity, and _authorize before the guard
\* under which the feed is looked up
Capture(s) ==
  /\ stream[s].pc = "idle"
  /\ pending + Cardinality(leases) < Capacity
  /\ stream' = [Step(s, "captured") EXCEPT ![s].generation = generation]
  /\ pending' = pending + 1
  /\ UNCHANGED <<head, feed, member, leases, generation, told, invalidator>>

\* the feed there is, if it is of the same realm, or a new one in the place
\* of none or of a closed one
JoinFeed(s) ==
  /\ stream[s].pc = "captured"
  /\ member # None /\ ~feed[member].closed
  /\ feed[member].generation = stream[s].generation
  /\ stream' = [Step(s, "joined") EXCEPT ![s].of = member]
  /\ UNCHANGED <<head, feed, member, leases, pending, generation, told,
                 invalidator>>

Unused == {f \in Feeds : feed[f].pc = "none"}

OpenFeed(s) ==
  /\ stream[s].pc = "captured"
  /\ member # None => feed[member].closed
  /\ Unused # {}
  /\ LET f == CHOOSE u \in Unused : TRUE
     IN /\ feed' = [feed EXCEPT ![f].pc = "opening",
                                ![f].generation = stream[s].generation]
        /\ member' = f
        /\ stream' = [Step(s, "joined") EXCEPT ![s].of = f]
  /\ UNCHANGED <<head, leases, pending, generation, told, invalidator>>

\* When the feed is ready the stream subscribes to its broker ...
Subscribe(s) ==
  LET f == stream[s].of IN
  /\ stream[s].pc = "joined"
  /\ feed[f].ready /\ ~feed[f].closed
  /\ stream' = [Step(s, "subscribed") EXCEPT ![s].sub = NewSubscription]
  /\ UNCHANGED <<head, feed, member, leases, pending, generation, told,
                 invalidator>>

\* ... and only then asks the hub for a snapshot, which seeds it.
ReadSnapshot(s) ==
  /\ stream[s].pc = "subscribed"
  /\ stream' = [Step(s, "read") EXCEPT ![s].latest = head]
  /\ UNCHANGED <<head, feed, member, leases, pending, generation, told,
                 invalidator>>

\* The lease is made, which seeds the subscription, and registered.
Register(s) ==
  /\ stream[s].pc = "read"
  /\ stream[s].sub.open
  /\ stream' = [Step(s, "registered") EXCEPT
                  ![s].sub = Seeded(@, stream[s].latest)]
  /\ leases' = leases \cup {s}
  /\ UNCHANGED <<head, feed, member, pending, generation, told, invalidator>>

\* Mutant: a feed that is open is enough.
AuthorizedByFeed(s) == ~feed[stream[s].of].closed

\* authorize, as revalidate calls it
Authorized(s) ==
  /\ stream[s].generation = generation
  /\ member = stream[s].of /\ ~feed[stream[s].of].closed

\* The lease is revalidated ...
Admit(s) ==
  /\ stream[s].pc = "registered"
  /\ Authorized(s) /\ ~stream[s].closed
  /\ stream' = Step(s, "admitted")
  /\ UNCHANGED <<head, feed, member, leases, pending, generation, told,
                 invalidator>>

\* ... and the subscription is no longer under way.
Subscribed(s) ==
  LET old == FeedLeft(leases, pending - 1) IN
  /\ stream[s].pc = "admitted"
  /\ stream' = [Step(s, "ready") EXCEPT ![s].old = old]
  /\ pending' = pending - 1
  /\ TakeOut(old)
  /\ UNCHANGED <<head, feed, leases, generation, told, invalidator>>

-----------------------------------------------------------------------------
(* The thread of a local stream: the lease *)

\* write: the lock is taken and the authority checked (NotificationHints has
\* the steps of that)
StartWrite(s) ==
  /\ stream[s].pc = "ready" /\ stream[s].old = None
  /\ ~stream[s].closed /\ Authorized(s)
  /\ stream' = Step(s, "writing")
  /\ UNCHANGED <<head, feed, member, leases, pending, generation, told,
                 invalidator>>

EndWrite(s) ==
  /\ stream[s].pc = "writing"
  /\ stream' = [Step(s, "waiting") EXCEPT ![s].greeted = TRUE]
  /\ told' = [told EXCEPT ![s] = stream[s].latest]
  /\ UNCHANGED <<head, feed, member, leases, pending, generation, invalidator>>

\* A hint of the feed may be behind the snapshot the stream read for itself;
\* what the subscription holds never is.
Take(s) ==
  LET sub == stream[s].sub IN
  /\ stream[s].pc = "waiting"
  /\ sub.open /\ sub.pending /\ ~stream[s].closed
  /\ IF sub.latest = stream[s].latest
     THEN stream' = [stream EXCEPT ![s].sub = Taken(@)]
     ELSE stream' = [Step(s, "ready") EXCEPT
                       ![s].sub = Taken(@), ![s].latest = sub.latest]
  /\ UNCHANGED <<head, feed, member, leases, pending, generation, told,
                 invalidator>>

\* Where a subscription is refused: the feed in use is of another generation,
\* the feed has closed or the lease is found to be; and a feed that does not
\* get ready or a snapshot that cannot be read.
Refused(s) ==
  CASE stream[s].pc = "captured" ->
         \/ stream[s].generation # generation
         \/ Unused = {}
         \/ member # None /\ feed[member].generation # stream[s].generation
    [] stream[s].pc = "read" -> ~stream[s].sub.open
    [] stream[s].pc = "registered" -> ~Authorized(s) \/ stream[s].closed
    [] OTHER -> stream[s].pc \in {"joined", "subscribed"}

RefusedSubscription(s) ==
  /\ stream[s].pc \in Subscribing \ {"failing"} /\ Refused(s)
  /\ stream' = Step(s, "failing")
  /\ UNCHANGED <<head, feed, member, leases, pending, generation, told,
                 invalidator>>

\* The client hangs up, a write fails, the certificate expires.
Fails(s) ==
  /\ stream[s].pc \in Serving /\ stream[s].old = None
  /\ stream' = Step(s, "ending")
  /\ UNCHANGED <<head, feed, member, leases, pending, generation, told,
                 invalidator>>

\* The lease of a stream that was served is closed; the first to retire it
\* looks whether the feed is still needed.
Leave(s) ==
  LET old == IF s \in leases THEN FeedLeft(leases \ {s}, pending) ELSE None IN
  /\ stream[s].pc = "ending"
  /\ leases' = leases \ {s}
  /\ stream' = [stream EXCEPT ![s] =
                  [NewStream EXCEPT !.pc = "ended", !.old = old]]
  /\ TakeOut(old)
  /\ UNCHANGED <<head, feed, pending, generation, told, invalidator>>

\* Mutant: only a subscription that succeeds ends its being under way.
GiveUpUnderway(s) ==
  /\ stream[s].pc = "failing"
  /\ leases' = leases \ {s}
  /\ stream' = [stream EXCEPT ![s] = [NewStream EXCEPT !.pc = "ended"]]
  /\ UNCHANGED <<head, feed, member, pending, generation, told, invalidator>>

\* A subscription that failed does the same when it is no longer under way.
GiveUp(s) ==
  LET old == FeedLeft(leases \ {s}, pending - 1) IN
  /\ stream[s].pc = "failing"
  /\ leases' = leases \ {s}
  /\ pending' = pending - 1
  /\ stream' = [stream EXCEPT ![s] =
                  [NewStream EXCEPT !.pc = "ended", !.old = old]]
  /\ TakeOut(old)
  /\ UNCHANGED <<head, feed, generation, told, invalidator>>

CloseOld(s) ==
  /\ stream[s].old # None
  /\ feed' = FeedsClosed({stream[s].old})
  /\ stream' = [CutOff({stream[s].old}) EXCEPT ![s].old = None]
  /\ UNCHANGED <<head, member, leases, pending, generation, told, invalidator>>

-----------------------------------------------------------------------------
(* invalidate: pairing, renewal or maintenance changes the authority *)

Invalidate ==
  /\ invalidator.pc = "none" /\ generation < MaxInvalidations
  /\ generation' = generation + 1
  /\ invalidator' = [pc |-> "closing", old |-> member, todo |-> leases,
                     at |-> None]
  /\ member' = None
  /\ UNCHANGED <<head, feed, leases, pending, stream, told>>

\* the feed it took out of use comes first
InvalidateFeed ==
  /\ invalidator.old # None
  /\ feed' = FeedsClosed({invalidator.old})
  /\ stream' = CutOff({invalidator.old})
  /\ invalidator' = [invalidator EXCEPT !.old = None]
  /\ UNCHANGED <<head, member, leases, pending, generation, told>>

\* then lease by lease: cancelled, drained of its writer, and retired
InvalidateCancel ==
  /\ invalidator.pc = "closing" /\ invalidator.at = None
  /\ invalidator.old = None
  /\ \E s \in invalidator.todo :
       /\ stream' = [stream EXCEPT ![s].closed = stream[s].pc # "ended",
                                   ![s].sub = Closed(@)]
       /\ invalidator' = [invalidator EXCEPT !.at = s, !.todo = @ \ {s}]
  /\ UNCHANGED <<head, feed, member, leases, pending, generation, told>>

Drained(s) == ~Writing(s)

InvalidateRetire ==
  LET s == invalidator.at
      old == IF s \in leases THEN FeedLeft(leases \ {s}, pending) ELSE None IN
  /\ s # None /\ Drained(s)
  /\ leases' = leases \ {s}
  /\ TakeOut(old)
  /\ invalidator' = [invalidator EXCEPT !.at = None, !.old = old]
  /\ UNCHANGED <<head, feed, pending, generation, stream, told>>

InvalidateReturns ==
  /\ invalidator.pc = "closing"
  /\ invalidator.todo = {} /\ invalidator.at = None /\ invalidator.old = None
  /\ invalidator' = [invalidator EXCEPT !.pc = "none"]
  /\ UNCHANGED <<head, feed, member, leases, pending, generation, stream, told>>

-----------------------------------------------------------------------------
Subscribes(s) ==
  \/ JoinFeed(s) \/ OpenFeed(s) \/ Subscribe(s)
  \/ ReadSnapshot(s) \/ Register(s) \/ Admit(s) \/ Subscribed(s)
  \/ RefusedSubscription(s)

Serve(s) ==
  \/ Subscribes(s) \/ StartWrite(s) \/ EndWrite(s)
  \/ Take(s) \/ Leave(s) \/ GiveUp(s) \/ CloseOld(s)

Read(f) == Frame(f) \/ PassOn(f)

Invalidation ==
  \/ InvalidateFeed \/ InvalidateCancel \/ InvalidateRetire
  \/ InvalidateReturns

Next ==
  \/ \E l \in Lanes : Commit(l)
  \/ \E f \in Feeds : Read(f) \/ FeedEnds(f)
  \/ \E s \in Streams : Capture(s) \/ Serve(s) \/ Fails(s)
  \/ Invalidate \/ Invalidation

Spec == Init /\ [][Next]_vars

-----------------------------------------------------------------------------
(* Properties *)

StreamType ==
  [pc : {"idle", "admitted", "ending", "ended"} \cup Subscribing \cup Serving,
   generation : Nat, of : Feeds \cup {None}, sub : Subscription,
   latest : Cursor, closed : BOOLEAN, greeted : BOOLEAN,
   old : Feeds \cup {None}]

FeedType ==
  [pc : {"none", "opening", "reading", "ended"}, heard : Cursor,
   todo : SUBSET Lanes, ready : BOOLEAN, closed : BOOLEAN, generation : Nat]

InvalidatorType ==
  [pc : {"none", "closing"}, old : Feeds \cup {None}, todo : SUBSET Streams,
   at : Streams \cup {None}]

\* the streams whose subscription is under way
Underway == {s \in Streams : stream[s].pc \in Subscribing \cup {"admitted"}}

\* Types, and the two counts by which the feed is kept or given up.
TypeOK ==
  /\ head \in Cursor
  /\ feed \in [Feeds -> FeedType]
  /\ member \in Feeds \cup {None}
  /\ generation \in 0..MaxInvalidations
  /\ stream \in [Streams -> StreamType]
  /\ told \in [Streams -> Cursor]
  /\ invalidator \in InvalidatorType
  /\ pending = Cardinality(Underway)
  /\ leases \subseteq {s \in Streams :
                         stream[s].pc \in Serving \cup
                           {"registered", "admitted", "failing", "ending"}}

\* A stream that waits for a hint has told its client of all that its feed
\* was told, but for what the feed is still passing on, although its own
\* snapshot and the frames of the feed come from the hub independently.
QuietMeansCurrent ==
  \A s \in Streams :
    LET f == stream[s].of IN
    (stream[s].pc = "waiting" /\ stream[s].sub.open /\ ~stream[s].sub.pending)
      => \A l \in Lanes : told[s][l] >= feed[f].heard[l] \/ l \in feed[f].todo

\* The hub's stream is given up with the last local one, and not before: a feed
\* that is open is in use, and then some lease or subscription under way needs
\* it, or a thread is about to close it; and none is left that nobody knows of.
FeedKept ==
  /\ member # None => leases # {} \/ pending > 0
  /\ \A f \in Feeds :
       (feed[f].pc \in {"opening", "reading"} /\ ~feed[f].closed)
         => \/ member = f
            \/ invalidator.old = f
            \/ \E s \in Streams : stream[s].old = f

\* When the change of authority has returned, nothing is written any more to a
\* stream of an earlier generation.
SilentOnceInvalidated ==
  [][\A s \in Streams :
       told'[s] # told[s] /\ invalidator.pc = "none"
         => stream[s].generation = generation]_vars

Phase(s) ==
  CASE stream[s].pc = "ended" -> "ended"
    [] stream[s].greeted -> "open"
    [] OTHER -> "before"

Client == INSTANCE HintStream WITH phase <- [s \in Streams |-> Phase(s)]

\* The relayed streams keep the safety part of the promise that the hub's own
\* keep, whatever order frames, local snapshots and leaves come in: a snapshot,
\* then newer cursors only, of nothing that is not committed.  That all of it is
\* told in the end is not claimed: it would need fairness of the hub's stream.
ImplementsHintStream == Client!Safety

=============================================================================
