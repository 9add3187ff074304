-------------------------- MODULE MemberFeedProofs --------------------------
(***************************************************************************)
(* Proofs about MemberFeed, for any number of local streams and of feeds,  *)
(* any capacity and any number of changes of authority.                    *)
(***************************************************************************)
EXTENDS MemberFeed, FiniteSetTheorems, TLAPS

-----------------------------------------------------------------------------
(* The invariant                                                            *)

\* The threads that take a feed out of use hold one at a time, and an invalidation
\* that has returned holds none.
Owners ==
  /\ \A s \in Streams : stream[s].old # None => stream[s].pc \in {"ready", "ended"}
  /\ invalidator.at # None => invalidator.old = None
  /\ invalidator.pc = "none" =>
       invalidator.old = None /\ invalidator.todo = {} /\ invalidator.at = None

\* A stream whose lease is open is registered, and an invalidation that is under way
\* still has to come to whoever writes under an earlier generation.
Listed(s) ==
  /\ stream[s].pc \in {"registered", "admitted"} \cup Serving /\ ~stream[s].closed => s \in leases
  /\ Writing(s) =>
       /\ s \in leases
       /\ stream[s].generation = generation \/ s \in invalidator.todo \/ s = invalidator.at
  /\ invalidator.at = s => stream[s].closed \/ stream[s].pc = "ended"

\* The streams that have seeded their subscription.
Synced == {"registered", "admitted", "ready", "writing", "waiting"}

\* What the thread is about to tell is committed, and newer than what it told before.
Telling(s) ==
  /\ stream[s].pc \in {"idle", "captured", "joined", "subscribed", "read", "registered", "admitted"}
       => ~stream[s].greeted /\ told[s] = Zero
  /\ stream[s].pc \in {"read"} \cup Synced =>
       AtLeast(head, stream[s].latest) /\ AtLeast(stream[s].latest, told[s])
  /\ stream[s].pc \in {"ready", "writing"} /\ stream[s].greeted => stream[s].latest # told[s]
  /\ stream[s].pc = "waiting" => stream[s].latest = told[s]

\* Somebody who knows n of lane l knows what feed f has heard and passed on.
Caught(f, l, n) == n >= feed[f].heard[l] \/ l \in feed[f].todo

\* An open subscription holds what its feed has passed on, and once it is seeded the
\* thread lacks nothing of it unless that is pending.
Reaching(s) ==
  LET sub == stream[s].sub
      f == stream[s].of
  IN /\ stream[s].pc = "joined" => f \in Feeds
     /\ sub.open =>
          /\ f \in Feeds
          /\ \A l \in Lanes : sub.latest[l] <= head[l]
          /\ stream[s].pc = "read" =>
               \A l \in Lanes : Caught(f, l, Later(sub.latest[l], stream[s].latest[l]))
          /\ stream[s].pc \in Synced =>
               /\ \A l \in Lanes : stream[s].latest[l] <= sub.latest[l] /\ Caught(f, l, sub.latest[l])
               /\ ~sub.pending => stream[s].latest = sub.latest

Behind == \A f \in Feeds : AtLeast(head, feed[f].heard)

IInv ==
  /\ TypeOK /\ FeedKept /\ Owners /\ Behind
  /\ \A s \in Streams : Listed(s) /\ Telling(s) /\ Reaching(s)

-----------------------------------------------------------------------------
(* Subscriptions                                                            *)

LEMMA FreshSubscription ==
  /\ NewSubscription \in Subscription /\ NewSubscription.open
  /\ NoSubscription \in Subscription /\ ~NoSubscription.open
  /\ \A l \in Lanes : NewSubscription.latest[l] = Unknown
BY DEF Subscription, NewSubscription, NoSubscription, Unknown

LEMMA FreshStream ==
  /\ NewStream \in StreamType /\ NewStream.sub = NoSubscription /\ ~NewStream.greeted
  /\ NewStream.old = None /\ NewStream.of = None /\ ~NewStream.closed /\ NewStream.pc = "idle"
BY FreshSubscription DEF NewStream, StreamType, Zero, Cursor

\* What is published joins what was known, in its lane.
LEMMA PublishedJoins ==
  ASSUME NEW sub \in Subscription, NEW l \in Lanes, NEW n \in Nat
  PROVE  /\ Published(sub, l, n) \in Subscription /\ Published(sub, l, n).open = sub.open
         /\ sub.open =>
              /\ Published(sub, l, n).latest[l] = Later(sub.latest[l], n)
              /\ \A k \in Lanes \ {l} : Published(sub, l, n).latest[k] = sub.latest[k]
              /\ Published(sub, l, n).pending \/ Published(sub, l, n) = sub
<1>1. sub.latest[l] \in Nat \cup {Unknown}
  BY DEF Subscription
<1>2. CASE ~sub.open \/ n <= sub.latest[l]
  BY <1>1, <1>2 DEF Published, Later, Unknown
<1>3. CASE sub.open /\ ~(n <= sub.latest[l])
  <2>1. Published(sub, l, n) = [sub EXCEPT !.latest[l] = n, !.pending = TRUE]
    BY <1>3 DEF Published
  <2>2. Later(sub.latest[l], n) = n
    BY <1>1, <1>3 DEF Later, Unknown
  <2>3. /\ Published(sub, l, n) \in Subscription /\ Published(sub, l, n).open = sub.open
        /\ Published(sub, l, n).pending
    BY <2>1 DEF Subscription
  <2>4. /\ Published(sub, l, n).latest[l] = n
        /\ \A k \in Lanes \ {l} : Published(sub, l, n).latest[k] = sub.latest[k]
    BY <2>1 DEF Subscription
  <2>5. QED
    BY <2>2, <2>3, <2>4
<1>4. QED
  BY <1>2, <1>3

\* What is seeded joins the snapshot, in every lane.
LEMMA SeededJoins ==
  ASSUME NEW sub \in Subscription, NEW c \in Cursor
  PROVE  /\ Seeded(sub, c) \in Subscription /\ Seeded(sub, c).open = sub.open
         /\ \A l \in Lanes : /\ Seeded(sub, c).latest[l] = Later(sub.latest[l], c[l])
                             /\ c[l] <= Seeded(sub, c).latest[l]
         /\ ~Seeded(sub, c).pending => Seeded(sub, c).latest = c
<1> DEFINE both == [l \in Lanes |-> Later(sub.latest[l], c[l])]
<1>1. \A l \in Lanes : sub.latest[l] \in Nat \cup {Unknown} /\ c[l] \in Nat
  BY DEF Subscription, Cursor
<1>2. \A l \in Lanes : Later(sub.latest[l], c[l]) \in Nat /\ c[l] <= Later(sub.latest[l], c[l])
  <2> SUFFICES ASSUME NEW l \in Lanes
               PROVE  Later(sub.latest[l], c[l]) \in Nat /\ c[l] <= Later(sub.latest[l], c[l])
    OBVIOUS
  <2>1. sub.latest[l] \in Nat \cup {Unknown} /\ c[l] \in Nat
    BY <1>1
  <2>2. QED
    BY <2>1 DEF Later, Unknown
<1>3. both \in [Lanes -> Nat \cup {Unknown}] /\ \A l \in Lanes : both[l] = Later(sub.latest[l], c[l])
  BY <1>2
<1>4. (~\E l \in Lanes : sub.latest[l] > c[l]) => both = c
  <2> SUFFICES ASSUME ~\E l \in Lanes : sub.latest[l] > c[l] PROVE both = c
    OBVIOUS
  <2>1. \A l \in Lanes : Later(sub.latest[l], c[l]) = c[l]
    <3> SUFFICES ASSUME NEW l \in Lanes PROVE Later(sub.latest[l], c[l]) = c[l]
      OBVIOUS
    <3>1. sub.latest[l] \in Nat \cup {Unknown} /\ c[l] \in Nat /\ ~(sub.latest[l] > c[l])
      BY <1>1
    <3>2. QED
      BY <3>1 DEF Later, Unknown
  <2>2. c = [l \in Lanes |-> c[l]]
    BY DEF Cursor
  <2>3. QED
    BY <2>1, <2>2
<1> HIDE DEF both
<1>5. Seeded(sub, c) = [sub EXCEPT !.latest = both, !.seeded = TRUE,
                          !.pending = \E l \in Lanes : sub.latest[l] > c[l]]
  BY DEF Seeded, both
<1>6. Seeded(sub, c) \in Subscription /\ Seeded(sub, c).open = sub.open /\ Seeded(sub, c).latest = both
      /\ Seeded(sub, c).pending = \E l \in Lanes : sub.latest[l] > c[l]
  BY <1>3, <1>5 DEF Subscription
<1>7. QED
  BY <1>2, <1>3, <1>4, <1>6

-----------------------------------------------------------------------------
(* What several actions have in common                                      *)

UnderwayPc == Subscribing \cup {"admitted"}

\* How the count of subscriptions under way follows a thread.
LEMMA UnderwayMoves ==
  ASSUME stream \in [Streams -> StreamType], NEW s \in Streams, NEW new,
         stream' = [stream EXCEPT ![s] = new]
  PROVE  /\ (new.pc \in UnderwayPc <=> stream[s].pc \in UnderwayPc)
              => Cardinality(Underway') = Cardinality(Underway)
         /\ new.pc \in UnderwayPc /\ stream[s].pc \notin UnderwayPc
              => Cardinality(Underway') = Cardinality(Underway) + 1
         /\ new.pc \notin UnderwayPc /\ stream[s].pc \in UnderwayPc
              => Cardinality(Underway') = Cardinality(Underway) - 1
         /\ Cardinality(Underway) \in Nat
         /\ stream[s].pc \in UnderwayPc => Cardinality(Underway) # 0
<1>1. IsFiniteSet(Underway)
  BY FS_Subset, FeedAssumption DEF Underway
<1>2. \A t \in Streams : stream'[t] = IF t = s THEN new ELSE stream[t]
  OBVIOUS
<1>3. \A t \in Streams : /\ t \in Underway <=> stream[t].pc \in UnderwayPc
                         /\ t \in Underway' <=> stream'[t].pc \in UnderwayPc
  BY DEF Underway, UnderwayPc
<1>4. Underway \subseteq Streams /\ Underway' \subseteq Streams
  BY DEF Underway
<1>5. ASSUME new.pc \in UnderwayPc <=> stream[s].pc \in UnderwayPc
      PROVE  Cardinality(Underway') = Cardinality(Underway)
  <2>1. Underway' = Underway
    BY <1>2, <1>3, <1>4, <1>5
  <2>2. QED
    BY <2>1
<1>6. ASSUME new.pc \in UnderwayPc, stream[s].pc \notin UnderwayPc
      PROVE  Cardinality(Underway') = Cardinality(Underway) + 1
  <2>1. Underway' = Underway \cup {s} /\ s \notin Underway
    BY <1>2, <1>3, <1>4, <1>6
  <2>2. Cardinality(Underway \cup {s}) =
          IF s \in Underway THEN Cardinality(Underway) ELSE Cardinality(Underway) + 1
    BY <1>1, FS_AddElement, Zenon
  <2>3. QED
    BY <2>1, <2>2
<1>7. ASSUME new.pc \notin UnderwayPc, stream[s].pc \in UnderwayPc
      PROVE  Cardinality(Underway') = Cardinality(Underway) - 1
  <2>1. Underway' = Underway \ {s} /\ s \in Underway
    BY <1>2, <1>3, <1>4, <1>7
  <2>2. Cardinality(Underway \ {s}) =
          IF s \in Underway THEN Cardinality(Underway) - 1 ELSE Cardinality(Underway)
    BY <1>1, FS_RemoveElement, Zenon
  <2>3. QED
    BY <2>1, <2>2
<1>8. Cardinality(Underway) \in Nat
  BY <1>1, FS_CardinalityType
<1>9. stream[s].pc \in UnderwayPc => Cardinality(Underway) # 0
  <2>1. stream[s].pc \in UnderwayPc => Underway # {}
    BY <1>3
  <2>2. QED
    BY <1>1, <2>1, FS_EmptySet
<1>10. QED
  BY <1>5, <1>6, <1>7, <1>8, <1>9

LEMMA SameUnderway ==
  ASSUME \A s \in Streams : stream'[s].pc = stream[s].pc
  PROVE  Cardinality(Underway') = Cardinality(Underway)
<1>1. Underway' = Underway
  BY DEF Underway
<1>2. QED
  BY <1>1

LEMMA ListedStays ==
  ASSUME NEW s \in Streams, Listed(s), UNCHANGED <<generation, invalidator>>,
         s \in leases => s \in leases', stream'[s].pc = stream[s].pc,
         stream'[s].generation = stream[s].generation, stream'[s].closed = stream[s].closed
  PROVE  Listed(s)'
BY DEF Listed, Writing

LEMMA TellingStays ==
  ASSUME NEW s \in Streams, Telling(s), UNCHANGED head, told'[s] = told[s],
         stream'[s].pc = stream[s].pc, stream'[s].latest = stream[s].latest,
         stream'[s].greeted = stream[s].greeted
  PROVE  Telling(s)'
BY DEF Telling, Synced, AtLeast

LEMMA ReachingStays ==
  ASSUME NEW s \in Streams, Reaching(s), UNCHANGED head,
         stream'[s].pc = stream[s].pc, stream'[s].latest = stream[s].latest,
         stream'[s].of = stream[s].of, stream'[s].sub = stream[s].sub \/ ~stream'[s].sub.open,
         stream'[s].sub.open /\ stream[s].of \in Feeds =>
           /\ feed'[stream[s].of].heard = feed[stream[s].of].heard
           /\ feed'[stream[s].of].todo = feed[stream[s].of].todo
  PROVE  Reaching(s)'
<1>1. CASE ~stream'[s].sub.open
  BY <1>1 DEF Reaching
<1>2. CASE stream'[s].sub = stream[s].sub /\ stream[s].sub.open /\ stream[s].of \in Feeds
  BY <1>2 DEF Reaching, Caught
<1>3. QED
  BY <1>1, <1>2 DEF Reaching

\* The thread of one stream goes on.
LEMMA StreamMoves ==
  ASSUME IInv, NEW s \in Streams, NEW new \in StreamType,
         stream' = [stream EXCEPT ![s] = new], UNCHANGED <<head, generation, invalidator>>,
         feed' \in [Feeds -> FeedType],
         \A f \in Feeds : feed'[f].heard = feed[f].heard /\ feed'[f].todo = feed[f].todo,
         told' \in [Streams -> Cursor], member' \in Feeds \cup {None},
         pending' = Cardinality(Underway'), FeedKept',
         leases' \subseteq leases \cup {s},
         s \in leases' => new.pc \in Serving \cup {"registered", "admitted", "failing", "ending"},
         \A t \in Streams \ {s} : told'[t] = told[t] /\ (t \in leases => t \in leases'),
         new.old # None => new.pc \in {"ready", "ended"},
         Listed(s)', Telling(s)', Reaching(s)'
  PROVE  IInv'
<1>1. stream' \in [Streams -> StreamType] /\ stream'[s] = new
      /\ \A t \in Streams \ {s} : stream'[t] = stream[t]
  BY DEF IInv, TypeOK
<1>2. TypeOK'
  <2>1. leases' \subseteq {t \in Streams : stream'[t].pc \in Serving \cup
                             {"registered", "admitted", "failing", "ending"}}
    BY <1>1 DEF IInv, TypeOK
  <2>2. QED
    BY <1>1, <2>1 DEF IInv, TypeOK
<1>3. Owners'
  BY <1>1 DEF IInv, Owners
<1>4. Behind'
  BY DEF IInv, Behind, AtLeast
<1>5. ASSUME NEW t \in Streams \ {s} PROVE Listed(t)' /\ Telling(t)' /\ Reaching(t)'
  BY <1>1, <1>5, ListedStays, TellingStays, ReachingStays DEF IInv
<1>6. QED
  BY <1>2, <1>3, <1>4, <1>5 DEF IInv

\* Most of its steps neither take nor leave a place or a feed.
LEMMA KeptByStream ==
  ASSUME IInv, NEW s \in Streams, NEW new, stream' = [stream EXCEPT ![s] = new],
         new.old = stream[s].old, UNCHANGED <<feed, member, leases, pending, invalidator>>
  PROVE  FeedKept'
<1>1. \A t \in Streams : stream'[t].old = stream[t].old
  BY DEF IInv, TypeOK
<1>2. QED
  BY <1>1 DEF IInv, FeedKept

LEMMA PlainStep ==
  ASSUME IInv, NEW s \in Streams, NEW new \in StreamType,
         stream' = [stream EXCEPT ![s] = new],
         UNCHANGED <<head, feed, member, leases, pending, generation, invalidator>>,
         told' \in [Streams -> Cursor], \A t \in Streams \ {s} : told'[t] = told[t],
         new.old = stream[s].old, new.old # None => new.pc \in {"ready", "ended"},
         new.pc \in UnderwayPc <=> stream[s].pc \in UnderwayPc,
         s \in leases => new.pc \in Serving \cup {"registered", "admitted", "failing", "ending"},
         Listed(s)', Telling(s)', Reaching(s)'
  PROVE  IInv'
<1>1. FeedKept'
  BY KeptByStream
<1>2. pending' = Cardinality(Underway')
  BY UnderwayMoves DEF IInv, TypeOK
<1>3. feed' \in [Feeds -> FeedType] /\ member' \in Feeds \cup {None}
      /\ \A f \in Feeds : feed'[f].heard = feed[f].heard /\ feed'[f].todo = feed[f].todo
  BY DEF IInv, TypeOK
<1>4. QED
  BY <1>1, <1>2, <1>3, StreamMoves

-----------------------------------------------------------------------------
(* The thread of a stream                                                   *)

LEMMA JoinFeedKeeps == ASSUME IInv, NEW s \in Streams, JoinFeed(s) PROVE IInv'
<1> DEFINE new == [stream[s] EXCEPT !.pc = "joined", !.of = member]
<1>1. stream[s] \in StreamType /\ stream \in [Streams -> StreamType]
  BY DEF IInv, TypeOK
<1>2. new \in StreamType /\ stream' = [stream EXCEPT ![s] = new]
  BY <1>1, FreshSubscription DEF JoinFeed, Step, StreamType, IInv, TypeOK, Subscribing, Serving
<1>3. /\ new.pc = "joined" /\ new.of = member
      /\ new.generation = stream[s].generation /\ new.sub = stream[s].sub
      /\ new.latest = stream[s].latest /\ new.closed = stream[s].closed
      /\ new.greeted = stream[s].greeted /\ new.old = stream[s].old
  BY <1>1 DEF StreamType
<1> HIDE DEF new
<1>4. stream'[s] = new /\ stream[s].pc = "captured"
      /\ UNCHANGED <<head, feed, member, leases, pending, generation, told, invalidator>>
  BY <1>1, <1>2 DEF JoinFeed
<1>5. Owners /\ Behind /\ Listed(s) /\ Telling(s) /\ Reaching(s)
  BY DEF IInv
<1>6. Listed(s)'
  BY <1>3, <1>4, <1>5 DEF JoinFeed, Authorized, Listed, Writing, Subscribing, Serving
<1>7. Telling(s)'
  BY <1>1, <1>3, <1>4, <1>5 DEF Telling, Synced, AtLeast, Subscribing, Serving, Zero, IInv, TypeOK, Cursor
<1>8. Reaching(s)'
  BY <1>1, <1>3, <1>4, <1>5 DEF JoinFeed, Reaching, Synced, IInv, TypeOK
<1>9. /\ new.old # None => new.pc \in {"ready", "ended"}
      /\ new.pc \in UnderwayPc <=> stream[s].pc \in UnderwayPc
      /\ s \in leases => new.pc \in Serving \cup {"registered", "admitted", "failing", "ending"}
  BY <1>3, <1>4, <1>5 DEF JoinFeed, Owners, UnderwayPc, Subscribing, Serving, IInv, TypeOK
<1>10. told' \in [Streams -> Cursor] /\ \A t \in Streams \ {s} : told'[t] = told[t]
  BY <1>4 DEF IInv, TypeOK
<1>11. QED
  BY <1>2, <1>3, <1>4, <1>6, <1>7, <1>8, <1>9, <1>10, PlainStep

LEMMA SubscribeKeeps == ASSUME IInv, NEW s \in Streams, Subscribe(s) PROVE IInv'
<1> DEFINE new == [stream[s] EXCEPT !.pc = "subscribed", !.sub = NewSubscription]
<1>1. stream[s] \in StreamType /\ stream \in [Streams -> StreamType]
  BY DEF IInv, TypeOK
<1>2. new \in StreamType /\ stream' = [stream EXCEPT ![s] = new]
  BY <1>1, FreshSubscription DEF Subscribe, Step, StreamType, IInv, TypeOK, Subscribing, Serving
<1>3. /\ new.pc = "subscribed" /\ new.sub = NewSubscription
      /\ new.generation = stream[s].generation /\ new.of = stream[s].of
      /\ new.latest = stream[s].latest /\ new.closed = stream[s].closed
      /\ new.greeted = stream[s].greeted /\ new.old = stream[s].old
  BY <1>1 DEF StreamType
<1> HIDE DEF new
<1>4. stream'[s] = new /\ stream[s].pc = "joined"
      /\ UNCHANGED <<head, feed, member, leases, pending, generation, told, invalidator>>
  BY <1>1, <1>2 DEF Subscribe
<1>5. Owners /\ Behind /\ Listed(s) /\ Telling(s) /\ Reaching(s)
  BY DEF IInv
<1>6. Listed(s)'
  BY <1>3, <1>4, <1>5 DEF Subscribe, Authorized, Listed, Writing, Subscribing, Serving
<1>7. Telling(s)'
  BY <1>1, <1>3, <1>4, <1>5 DEF Telling, Synced, AtLeast, Subscribing, Serving, Zero, IInv, TypeOK, Cursor
<1>8. Reaching(s)'
  <2>1. \A l \in Lanes : new.sub.latest[l] <= head[l]
    <3> SUFFICES ASSUME NEW l \in Lanes PROVE new.sub.latest[l] <= head[l]
      OBVIOUS
    <3>1. new.sub.latest[l] = -1
      BY <1>3, FreshSubscription DEF Unknown
    <3>2. head[l] \in Nat
      BY DEF IInv, TypeOK, Cursor
    <3>3. QED
      BY <3>1, <3>2
  <2>2. QED
    BY <1>3, <1>4, <1>5, <2>1 DEF Reaching, Synced
<1>9. /\ new.old # None => new.pc \in {"ready", "ended"}
      /\ new.pc \in UnderwayPc <=> stream[s].pc \in UnderwayPc
      /\ s \in leases => new.pc \in Serving \cup {"registered", "admitted", "failing", "ending"}
  BY <1>3, <1>4, <1>5 DEF Subscribe, Owners, UnderwayPc, Subscribing, Serving, IInv, TypeOK
<1>10. told' \in [Streams -> Cursor] /\ \A t \in Streams \ {s} : told'[t] = told[t]
  BY <1>4 DEF IInv, TypeOK
<1>11. QED
  BY <1>2, <1>3, <1>4, <1>6, <1>7, <1>8, <1>9, <1>10, PlainStep

LEMMA ReadSnapshotKeeps == ASSUME IInv, NEW s \in Streams, ReadSnapshot(s) PROVE IInv'
<1> DEFINE new == [stream[s] EXCEPT !.pc = "read", !.latest = head]
<1>1. stream[s] \in StreamType /\ stream \in [Streams -> StreamType]
  BY DEF IInv, TypeOK
<1>2. new \in StreamType /\ stream' = [stream EXCEPT ![s] = new]
  BY <1>1, FreshSubscription DEF ReadSnapshot, Step, StreamType, IInv, TypeOK, Subscribing, Serving
<1>3. /\ new.pc = "read" /\ new.latest = head
      /\ new.generation = stream[s].generation /\ new.of = stream[s].of
      /\ new.sub = stream[s].sub /\ new.closed = stream[s].closed
      /\ new.greeted = stream[s].greeted /\ new.old = stream[s].old
  BY <1>1 DEF StreamType
<1> HIDE DEF new
<1>4. stream'[s] = new /\ stream[s].pc = "subscribed"
      /\ UNCHANGED <<head, feed, member, leases, pending, generation, told, invalidator>>
  BY <1>1, <1>2 DEF ReadSnapshot
<1>5. Owners /\ Behind /\ Listed(s) /\ Telling(s) /\ Reaching(s)
  BY DEF IInv
<1>6. Listed(s)'
  BY <1>3, <1>4, <1>5 DEF ReadSnapshot, Authorized, Listed, Writing, Subscribing, Serving
<1>7. Telling(s)'
  BY <1>1, <1>3, <1>4, <1>5 DEF Telling, Synced, AtLeast, Subscribing, Serving, Zero, IInv, TypeOK, Cursor
<1>8. Reaching(s)'
  <2>1. ASSUME stream[s].sub.open, NEW l \in Lanes
        PROVE  Caught(stream[s].of, l, Later(stream[s].sub.latest[l], head[l]))
    <3>1. /\ stream[s].sub.latest[l] \in Nat \cup {Unknown} /\ head[l] \in Nat
          /\ stream[s].sub.latest[l] <= head[l] /\ head[l] >= feed[stream[s].of].heard[l]
      BY <1>1, <1>5, <2>1 DEF Reaching, Behind, AtLeast, IInv, TypeOK, Cursor, StreamType, Subscription
    <3>2. Later(stream[s].sub.latest[l], head[l]) = head[l]
      BY <3>1 DEF Later, Unknown
    <3>3. QED
      BY <3>1, <3>2 DEF Caught
  <2>2. QED
    BY <1>3, <1>4, <1>5, <2>1 DEF Reaching, Synced, Caught
<1>9. /\ new.old # None => new.pc \in {"ready", "ended"}
      /\ new.pc \in UnderwayPc <=> stream[s].pc \in UnderwayPc
      /\ s \in leases => new.pc \in Serving \cup {"registered", "admitted", "failing", "ending"}
  BY <1>3, <1>4, <1>5 DEF ReadSnapshot, Owners, UnderwayPc, Subscribing, Serving, IInv, TypeOK
<1>10. told' \in [Streams -> Cursor] /\ \A t \in Streams \ {s} : told'[t] = told[t]
  BY <1>4 DEF IInv, TypeOK
<1>11. QED
  BY <1>2, <1>3, <1>4, <1>6, <1>7, <1>8, <1>9, <1>10, PlainStep

LEMMA AdmitKeeps == ASSUME IInv, NEW s \in Streams, Admit(s) PROVE IInv'
<1> DEFINE new == [stream[s] EXCEPT !.pc = "admitted"]
<1>1. stream[s] \in StreamType /\ stream \in [Streams -> StreamType]
  BY DEF IInv, TypeOK
<1>2. new \in StreamType /\ stream' = [stream EXCEPT ![s] = new]
  BY <1>1, FreshSubscription DEF Admit, Step, StreamType, IInv, TypeOK, Subscribing, Serving
<1>3. /\ new.pc = "admitted"
      /\ new.generation = stream[s].generation /\ new.of = stream[s].of
      /\ new.sub = stream[s].sub /\ new.latest = stream[s].latest
      /\ new.closed = stream[s].closed /\ new.greeted = stream[s].greeted
      /\ new.old = stream[s].old
  BY <1>1 DEF StreamType
<1> HIDE DEF new
<1>4. stream'[s] = new /\ stream[s].pc = "registered"
      /\ UNCHANGED <<head, feed, member, leases, pending, generation, told, invalidator>>
  BY <1>1, <1>2 DEF Admit
<1>5. Owners /\ Behind /\ Listed(s) /\ Telling(s) /\ Reaching(s)
  BY DEF IInv
<1>6. Listed(s)'
  BY <1>3, <1>4, <1>5 DEF Admit, Authorized, Listed, Writing, Subscribing, Serving
<1>7. Telling(s)'
  BY <1>1, <1>3, <1>4, <1>5 DEF Telling, Synced, AtLeast, Subscribing, Serving, Zero, IInv, TypeOK, Cursor
<1>8. Reaching(s)'
  BY <1>1, <1>3, <1>4, <1>5 DEF Admit, Reaching, Synced, Caught, Subscribing, Serving
<1>9. /\ new.old # None => new.pc \in {"ready", "ended"}
      /\ new.pc \in UnderwayPc <=> stream[s].pc \in UnderwayPc
      /\ s \in leases => new.pc \in Serving \cup {"registered", "admitted", "failing", "ending"}
  BY <1>3, <1>4, <1>5 DEF Admit, Owners, UnderwayPc, Subscribing, Serving, IInv, TypeOK
<1>10. told' \in [Streams -> Cursor] /\ \A t \in Streams \ {s} : told'[t] = told[t]
  BY <1>4 DEF IInv, TypeOK
<1>11. QED
  BY <1>2, <1>3, <1>4, <1>6, <1>7, <1>8, <1>9, <1>10, PlainStep

LEMMA StartWriteKeeps == ASSUME IInv, NEW s \in Streams, StartWrite(s) PROVE IInv'
<1> DEFINE new == [stream[s] EXCEPT !.pc = "writing"]
<1>1. stream[s] \in StreamType /\ stream \in [Streams -> StreamType]
  BY DEF IInv, TypeOK
<1>2. new \in StreamType /\ stream' = [stream EXCEPT ![s] = new]
  BY <1>1, FreshSubscription DEF StartWrite, Step, StreamType, IInv, TypeOK, Subscribing, Serving
<1>3. /\ new.pc = "writing"
      /\ new.generation = stream[s].generation /\ new.of = stream[s].of
      /\ new.sub = stream[s].sub /\ new.latest = stream[s].latest
      /\ new.closed = stream[s].closed /\ new.greeted = stream[s].greeted
      /\ new.old = stream[s].old
  BY <1>1 DEF StreamType
<1> HIDE DEF new
<1>4. stream'[s] = new /\ stream[s].pc = "ready"
      /\ UNCHANGED <<head, feed, member, leases, pending, generation, told, invalidator>>
  BY <1>1, <1>2 DEF StartWrite
<1>5. Owners /\ Behind /\ Listed(s) /\ Telling(s) /\ Reaching(s)
  BY DEF IInv
<1>6. Listed(s)'
  BY <1>3, <1>4, <1>5 DEF StartWrite, Authorized, Listed, Writing, Subscribing, Serving
<1>7. Telling(s)'
  BY <1>1, <1>3, <1>4, <1>5 DEF Telling, Synced, AtLeast, Subscribing, Serving, Zero, IInv, TypeOK, Cursor
<1>8. Reaching(s)'
  BY <1>1, <1>3, <1>4, <1>5 DEF StartWrite, Reaching, Synced, Caught, Subscribing, Serving
<1>9. /\ new.old # None => new.pc \in {"ready", "ended"}
      /\ new.pc \in UnderwayPc <=> stream[s].pc \in UnderwayPc
      /\ s \in leases => new.pc \in Serving \cup {"registered", "admitted", "failing", "ending"}
  BY <1>3, <1>4, <1>5 DEF StartWrite, Owners, UnderwayPc, Subscribing, Serving, IInv, TypeOK
<1>10. told' \in [Streams -> Cursor] /\ \A t \in Streams \ {s} : told'[t] = told[t]
  BY <1>4 DEF IInv, TypeOK
<1>11. QED
  BY <1>2, <1>3, <1>4, <1>6, <1>7, <1>8, <1>9, <1>10, PlainStep

LEMMA RefusedSubscriptionKeeps == ASSUME IInv, NEW s \in Streams, RefusedSubscription(s) PROVE IInv'
<1> DEFINE new == [stream[s] EXCEPT !.pc = "failing"]
<1>1. stream[s] \in StreamType /\ stream \in [Streams -> StreamType]
  BY DEF IInv, TypeOK
<1>2. new \in StreamType /\ stream' = [stream EXCEPT ![s] = new]
  BY <1>1, FreshSubscription DEF RefusedSubscription, Step, StreamType, IInv, TypeOK, Subscribing, Serving
<1>3. /\ new.pc = "failing"
      /\ new.generation = stream[s].generation /\ new.of = stream[s].of
      /\ new.sub = stream[s].sub /\ new.latest = stream[s].latest
      /\ new.closed = stream[s].closed /\ new.greeted = stream[s].greeted
      /\ new.old = stream[s].old
  BY <1>1 DEF StreamType
<1> HIDE DEF new
<1>4. stream'[s] = new /\ stream[s].pc \in Subscribing \ {"failing"}
      /\ UNCHANGED <<head, feed, member, leases, pending, generation, told, invalidator>>
  BY <1>1, <1>2 DEF RefusedSubscription
<1>5. Owners /\ Behind /\ Listed(s) /\ Telling(s) /\ Reaching(s)
  BY DEF IInv
<1>6. Listed(s)'
  BY <1>3, <1>4, <1>5 DEF RefusedSubscription, Authorized, Listed, Writing, Subscribing, Serving
<1>7. Telling(s)'
  BY <1>1, <1>3, <1>4, <1>5 DEF Telling, Synced, AtLeast, Subscribing, Serving, Zero, IInv, TypeOK, Cursor
<1>8. Reaching(s)'
  BY <1>1, <1>3, <1>4, <1>5 DEF RefusedSubscription, Reaching, Synced, Caught, Subscribing, Serving
<1>9. /\ new.old # None => new.pc \in {"ready", "ended"}
      /\ new.pc \in UnderwayPc <=> stream[s].pc \in UnderwayPc
      /\ s \in leases => new.pc \in Serving \cup {"registered", "admitted", "failing", "ending"}
  BY <1>3, <1>4, <1>5 DEF RefusedSubscription, Owners, UnderwayPc, Subscribing, Serving, IInv, TypeOK
<1>10. told' \in [Streams -> Cursor] /\ \A t \in Streams \ {s} : told'[t] = told[t]
  BY <1>4 DEF IInv, TypeOK
<1>11. QED
  BY <1>2, <1>3, <1>4, <1>6, <1>7, <1>8, <1>9, <1>10, PlainStep

LEMMA FailsKeeps == ASSUME IInv, NEW s \in Streams, Fails(s) PROVE IInv'
<1> DEFINE new == [stream[s] EXCEPT !.pc = "ending"]
<1>1. stream[s] \in StreamType /\ stream \in [Streams -> StreamType]
  BY DEF IInv, TypeOK
<1>2. new \in StreamType /\ stream' = [stream EXCEPT ![s] = new]
  BY <1>1, FreshSubscription DEF Fails, Step, StreamType, IInv, TypeOK, Subscribing, Serving
<1>3. /\ new.pc = "ending"
      /\ new.generation = stream[s].generation /\ new.of = stream[s].of
      /\ new.sub = stream[s].sub /\ new.latest = stream[s].latest
      /\ new.closed = stream[s].closed /\ new.greeted = stream[s].greeted
      /\ new.old = stream[s].old
  BY <1>1 DEF StreamType
<1> HIDE DEF new
<1>4. stream'[s] = new /\ stream[s].pc \in Serving
      /\ UNCHANGED <<head, feed, member, leases, pending, generation, told, invalidator>>
  BY <1>1, <1>2 DEF Fails
<1>5. Owners /\ Behind /\ Listed(s) /\ Telling(s) /\ Reaching(s)
  BY DEF IInv
<1>6. Listed(s)'
  BY <1>3, <1>4, <1>5 DEF Fails, Authorized, Listed, Writing, Subscribing, Serving
<1>7. Telling(s)'
  BY <1>1, <1>3, <1>4, <1>5 DEF Telling, Synced, AtLeast, Subscribing, Serving, Zero, IInv, TypeOK, Cursor
<1>8. Reaching(s)'
  BY <1>1, <1>3, <1>4, <1>5 DEF Fails, Reaching, Synced, Caught, Subscribing, Serving
<1>9. /\ new.old # None => new.pc \in {"ready", "ended"}
      /\ new.pc \in UnderwayPc <=> stream[s].pc \in UnderwayPc
      /\ s \in leases => new.pc \in Serving \cup {"registered", "admitted", "failing", "ending"}
  BY <1>3, <1>4, <1>5 DEF Fails, Owners, UnderwayPc, Subscribing, Serving, IInv, TypeOK
<1>10. told' \in [Streams -> Cursor] /\ \A t \in Streams \ {s} : told'[t] = told[t]
  BY <1>4 DEF IInv, TypeOK
<1>11. QED
  BY <1>2, <1>3, <1>4, <1>6, <1>7, <1>8, <1>9, <1>10, PlainStep

LEMMA EndWriteKeeps == ASSUME IInv, NEW s \in Streams, EndWrite(s) PROVE IInv'
<1> DEFINE new == [stream[s] EXCEPT !.pc = "waiting", !.greeted = TRUE]
<1>1. stream[s] \in StreamType /\ stream \in [Streams -> StreamType] /\ told \in [Streams -> Cursor]
  BY DEF IInv, TypeOK
<1>2. new \in StreamType /\ stream' = [stream EXCEPT ![s] = new]
  BY <1>1 DEF EndWrite, Step, StreamType, Serving
<1>3. /\ new.pc = "waiting" /\ new.greeted /\ new.generation = stream[s].generation
      /\ new.of = stream[s].of /\ new.sub = stream[s].sub /\ new.latest = stream[s].latest
      /\ new.closed = stream[s].closed /\ new.old = stream[s].old
  BY <1>1 DEF StreamType
<1> HIDE DEF new
<1>4. /\ stream'[s] = new /\ stream[s].pc = "writing"
      /\ UNCHANGED <<head, feed, member, leases, pending, generation, invalidator>>
      /\ told' = [told EXCEPT ![s] = stream[s].latest]
  BY <1>1, <1>2 DEF EndWrite
<1>5. Owners /\ Behind /\ Listed(s) /\ Telling(s) /\ Reaching(s)
  BY DEF IInv
<1>6. stream[s].latest \in Cursor /\ told'[s] = stream[s].latest
      /\ told' \in [Streams -> Cursor] /\ \A t \in Streams \ {s} : told'[t] = told[t]
  BY <1>1, <1>4 DEF StreamType
<1>7. Listed(s)'
  BY <1>3, <1>4, <1>5 DEF Listed, Writing, Serving
<1>8. Telling(s)'
  BY <1>3, <1>4, <1>5, <1>6 DEF Telling, Synced, AtLeast, Cursor
<1>9. Reaching(s)'
  BY <1>3, <1>4, <1>5 DEF Reaching, Synced, Caught
<1>10. /\ new.old # None => new.pc \in {"ready", "ended"}
       /\ new.pc \in UnderwayPc <=> stream[s].pc \in UnderwayPc
       /\ s \in leases => new.pc \in Serving \cup {"registered", "admitted", "failing", "ending"}
  BY <1>3, <1>4, <1>5 DEF Owners, UnderwayPc, Subscribing, Serving
<1>11. QED
  BY <1>2, <1>3, <1>4, <1>6, <1>7, <1>8, <1>9, <1>10, PlainStep

LEMMA TakeKeeps == ASSUME IInv, NEW s \in Streams, Take(s) PROVE IInv'
<1>1. stream[s] \in StreamType /\ stream \in [Streams -> StreamType]
  BY DEF IInv, TypeOK
<1> DEFINE sub == stream[s].sub
           same == sub.latest = stream[s].latest
           new == [stream[s] EXCEPT !.pc = IF same THEN "waiting" ELSE "ready",
                                    !.sub = Taken(sub), !.latest = sub.latest]
<1>2. stream' = [stream EXCEPT ![s] = new]
  <2>1. CASE same
    <3>1. new = [stream[s] EXCEPT !.sub = Taken(sub)]
      BY <1>1, <2>1 DEF Take, StreamType
    <3>2. QED
      BY <1>1, <2>1, <3>1 DEF Take
  <2>2. CASE ~same
    BY <1>1, <2>2 DEF Take, Step, StreamType
  <2>3. QED
    BY <2>1, <2>2
<1>3. /\ new.pc = (IF same THEN "waiting" ELSE "ready") /\ new.sub = Taken(sub)
      /\ new.latest = sub.latest /\ new.generation = stream[s].generation
      /\ new.of = stream[s].of /\ new.closed = stream[s].closed
      /\ new.greeted = stream[s].greeted /\ new.old = stream[s].old
      /\ new.sub.latest = sub.latest /\ new.sub.open = sub.open
  BY <1>1 DEF StreamType, Subscription, Taken
<1>4. /\ stream'[s] = new /\ stream[s].pc = "waiting" /\ sub.open
      /\ UNCHANGED <<head, feed, member, leases, pending, generation, told, invalidator>>
  BY <1>1, <1>2 DEF Take
<1>5. Owners /\ Behind /\ Listed(s) /\ Telling(s) /\ Reaching(s)
  BY DEF IInv
<1>6. /\ stream[s].latest = told[s] /\ stream[s].of \in Feeds
      /\ \A l \in Lanes : /\ sub.latest[l] <= head[l] /\ stream[s].latest[l] <= sub.latest[l]
                          /\ Caught(stream[s].of, l, sub.latest[l])
  BY <1>4, <1>5 DEF Telling, Reaching, Synced
<1>7. sub.latest \in Cursor
  <2>1. \A l \in Lanes : /\ sub.latest[l] \in Nat \cup {Unknown} /\ stream[s].latest[l] \in Nat
                         /\ stream[s].latest[l] <= sub.latest[l]
    BY <1>1, <1>6 DEF StreamType, Subscription, Cursor
  <2>2. \A l \in Lanes : sub.latest[l] \in Nat
    <3> SUFFICES ASSUME NEW l \in Lanes PROVE sub.latest[l] \in Nat
      OBVIOUS
    <3>1. /\ sub.latest[l] \in Nat \cup {-1} /\ stream[s].latest[l] \in Nat
          /\ stream[s].latest[l] <= sub.latest[l]
      BY <2>1 DEF Unknown
    <3>2. QED
      BY <3>1
  <2>3. sub.latest = [l \in Lanes |-> sub.latest[l]]
    BY <1>1 DEF StreamType, Subscription
  <2>4. QED
    BY <2>2, <2>3 DEF Cursor
<1>8. new \in StreamType
  BY <1>1, <1>7 DEF StreamType, Subscription, Taken, Serving
<1> HIDE DEF new
<1>9. Listed(s)'
  BY <1>3, <1>4, <1>5 DEF Listed, Writing, Serving
<1>10. Telling(s)'
  BY <1>3, <1>4, <1>6 DEF Telling, Synced, AtLeast
<1>11. Reaching(s)'
  <2>1. \A l \in Lanes : sub.latest[l] <= sub.latest[l]
    BY <1>7 DEF Cursor
  <2>2. QED
    BY <1>3, <1>4, <1>6, <2>1 DEF Reaching, Synced, Caught
<1>12. /\ new.old # None => new.pc \in {"ready", "ended"}
       /\ new.pc \in UnderwayPc <=> stream[s].pc \in UnderwayPc
       /\ s \in leases => new.pc \in Serving \cup {"registered", "admitted", "failing", "ending"}
  BY <1>3, <1>4, <1>5 DEF Owners, UnderwayPc, Subscribing, Serving
<1>13. told' \in [Streams -> Cursor] /\ \A t \in Streams \ {s} : told'[t] = told[t]
  BY <1>4 DEF IInv, TypeOK
<1>14. QED
  BY <1>2, <1>3, <1>4, <1>8, <1>9, <1>10, <1>11, <1>12, <1>13, PlainStep

LEMMA RegisterKeeps == ASSUME IInv, NEW s \in Streams, Register(s) PROVE IInv'
<1>1. stream[s] \in StreamType /\ stream \in [Streams -> StreamType]
  BY DEF IInv, TypeOK
<1>0. PICK sub, c : sub = stream[s].sub /\ c = stream[s].latest
  OBVIOUS
<1> DEFINE new == [stream[s] EXCEPT !.pc = "registered", !.sub = Seeded(sub, c)]
<1>2. /\ sub \in Subscription /\ c \in Cursor /\ Seeded(sub, c) \in Subscription
      /\ \A l \in Lanes : Seeded(sub, c).latest[l] = Later(sub.latest[l], c[l])
  BY <1>0, <1>1, SeededJoins DEF StreamType
<1>3. new \in StreamType /\ stream' = [stream EXCEPT ![s] = new]
  BY <1>0, <1>1, <1>2 DEF Register, Step, StreamType, Subscribing
<1>4. /\ new.pc = "registered" /\ new.sub = Seeded(sub, c) /\ new.generation = stream[s].generation
      /\ new.of = stream[s].of /\ new.latest = c /\ new.closed = stream[s].closed
      /\ new.greeted = stream[s].greeted /\ new.old = stream[s].old
  BY <1>0, <1>1 DEF StreamType
<1> HIDE DEF new
<1>5. /\ stream'[s] = new /\ stream[s].pc = "read" /\ sub.open /\ leases' = leases \cup {s}
      /\ UNCHANGED <<head, feed, member, pending, generation, told, invalidator>>
  BY <1>0, <1>1, <1>3 DEF Register
<1>6. Owners /\ Behind /\ Listed(s) /\ Telling(s) /\ Reaching(s)
  BY DEF IInv
<1>7. Listed(s)'
  BY <1>4, <1>5, <1>6 DEF Listed, Writing, Serving
<1>8. Telling(s)'
  BY <1>0, <1>4, <1>5, <1>6 DEF Telling, Synced, AtLeast
<1>9. Reaching(s)'
  <2>1. ASSUME NEW l \in Lanes
        PROVE  /\ Seeded(sub, c).latest[l] <= head[l] /\ c[l] <= Seeded(sub, c).latest[l]
               /\ Caught(stream[s].of, l, Seeded(sub, c).latest[l])
    <3>1. /\ sub.latest[l] \in Nat \cup {Unknown} /\ c[l] \in Nat /\ head[l] \in Nat
          /\ sub.latest[l] <= head[l] /\ c[l] <= head[l]
      BY <1>0, <1>2, <1>5, <1>6 DEF Subscription, Cursor, IInv, TypeOK, Telling, Reaching, AtLeast
    <3>2. Caught(stream[s].of, l, Later(sub.latest[l], c[l]))
      BY <1>0, <1>5, <1>6 DEF Reaching
    <3>3. QED
      BY <1>2, <3>1, <3>2 DEF Later, Unknown
  <2>2. ~Seeded(sub, c).pending => c = Seeded(sub, c).latest
    BY <1>2, SeededJoins
  <2>3. QED
    BY <1>0, <1>4, <1>5, <1>6, <2>1, <2>2 DEF Reaching, Caught
<1>10. FeedKept'
  <2>1. \A t \in Streams : stream'[t].old = stream[t].old
    BY <1>1, <1>3, <1>4
  <2>2. leases' # {}
    BY <1>5
  <2>3. QED
    BY <1>5, <2>1, <2>2 DEF IInv, FeedKept
<1>11. pending' = Cardinality(Underway')
  BY <1>1, <1>3, <1>4, <1>5, UnderwayMoves DEF UnderwayPc, Subscribing, IInv, TypeOK
<1>12. new.old # None => new.pc \in {"ready", "ended"}
  BY <1>4, <1>5, <1>6 DEF Owners
<1>13. /\ told' \in [Streams -> Cursor] /\ member' \in Feeds \cup {None} /\ feed' \in [Feeds -> FeedType]
       /\ \A t \in Streams \ {s} : told'[t] = told[t] /\ (t \in leases => t \in leases')
       /\ \A f \in Feeds : feed'[f].heard = feed[f].heard /\ feed'[f].todo = feed[f].todo
       /\ leases' \subseteq leases \cup {s}
  BY <1>5 DEF IInv, TypeOK
<1>14. QED
  BY <1>3, <1>4, <1>5, <1>7, <1>8, <1>9, <1>10, <1>11, <1>12, <1>13, StreamMoves

LEMMA CaptureKeeps == ASSUME IInv, NEW s \in Streams, Capture(s) PROVE IInv'
<1> DEFINE new == [stream[s] EXCEPT !.pc = "captured", !.generation = generation]
<1>1. stream[s] \in StreamType /\ stream \in [Streams -> StreamType] /\ generation \in Nat
  BY FeedAssumption DEF IInv, TypeOK
<1>2. new \in StreamType /\ stream' = [stream EXCEPT ![s] = new]
  BY <1>1 DEF Capture, Step, StreamType, Subscribing
<1>3. /\ new.pc = "captured" /\ new.generation = generation
      /\ new.of = stream[s].of /\ new.sub = stream[s].sub /\ new.latest = stream[s].latest
      /\ new.closed = stream[s].closed /\ new.greeted = stream[s].greeted /\ new.old = stream[s].old
  BY <1>1 DEF StreamType
<1> HIDE DEF new
<1>4. /\ stream'[s] = new /\ stream[s].pc = "idle" /\ pending' = pending + 1
      /\ UNCHANGED <<head, feed, member, leases, generation, told, invalidator>>
  BY <1>1, <1>2 DEF Capture
<1>5. Owners /\ Behind /\ Listed(s) /\ Telling(s) /\ Reaching(s)
  BY DEF IInv
<1>6. Listed(s)'
  BY <1>3, <1>4, <1>5 DEF Listed, Writing, Serving
<1>7. Telling(s)'
  BY <1>3, <1>4, <1>5 DEF Telling, Synced
<1>8. Reaching(s)'
  BY <1>3, <1>4, <1>5 DEF Reaching, Synced
<1>9. pending' = Cardinality(Underway') /\ pending \in Nat
  BY <1>1, <1>2, <1>3, <1>4, UnderwayMoves DEF UnderwayPc, Subscribing, IInv, TypeOK
<1>10. FeedKept'
  <2>1. \A t \in Streams : stream'[t].old = stream[t].old
    BY <1>1, <1>2, <1>3
  <2>2. pending' > 0
    BY <1>4, <1>9
  <2>3. QED
    BY <1>4, <2>1, <2>2 DEF IInv, FeedKept
<1>11. new.old # None => new.pc \in {"ready", "ended"}
  BY <1>3, <1>4, <1>5 DEF Owners
<1>12. s \notin leases
  BY <1>4 DEF IInv, TypeOK, Serving
<1>13. /\ told' \in [Streams -> Cursor] /\ member' \in Feeds \cup {None} /\ feed' \in [Feeds -> FeedType]
       /\ \A t \in Streams \ {s} : told'[t] = told[t] /\ (t \in leases => t \in leases')
       /\ \A f \in Feeds : feed'[f].heard = feed[f].heard /\ feed'[f].todo = feed[f].todo
       /\ leases' \subseteq leases \cup {s} /\ s \notin leases'
  BY <1>4, <1>12 DEF IInv, TypeOK
<1>14. QED
  BY <1>2, <1>3, <1>4, <1>6, <1>7, <1>8, <1>9, <1>10, <1>11, <1>13, StreamMoves

LEMMA OpenFeedKeeps == ASSUME IInv, NEW s \in Streams, OpenFeed(s) PROVE IInv'
<1>1. stream[s] \in StreamType /\ stream \in [Streams -> StreamType] /\ feed \in [Feeds -> FeedType]
  BY DEF IInv, TypeOK
<1>0. PICK f \in Feeds :
        /\ member' = f /\ stream' = [Step(s, "joined") EXCEPT ![s].of = f]
        /\ feed' = [feed EXCEPT ![f].pc = "opening", ![f].generation = stream[s].generation]
  BY DEF OpenFeed, Unused
<1> DEFINE new == [stream[s] EXCEPT !.pc = "joined", !.of = f]
<1>2. new \in StreamType /\ stream' = [stream EXCEPT ![s] = new]
  BY <1>0, <1>1 DEF Step, StreamType, Subscribing
<1>3. /\ new.pc = "joined" /\ new.of = f /\ new.generation = stream[s].generation
      /\ new.sub = stream[s].sub /\ new.latest = stream[s].latest
      /\ new.closed = stream[s].closed /\ new.greeted = stream[s].greeted /\ new.old = stream[s].old
  BY <1>1 DEF StreamType
<1> HIDE DEF new
<1>4. /\ stream'[s] = new /\ stream[s].pc = "captured"
      /\ member # None => feed[member].closed
      /\ UNCHANGED <<head, leases, pending, generation, told, invalidator>>
  BY <1>1, <1>2 DEF OpenFeed
<1>5. Owners /\ Behind /\ Listed(s) /\ Telling(s) /\ Reaching(s)
  BY DEF IInv
<1>6. Listed(s)'
  BY <1>3, <1>4, <1>5 DEF Listed, Writing, Serving
<1>7. Telling(s)'
  BY <1>3, <1>4, <1>5 DEF Telling, Synced
<1>8. Reaching(s)'
  BY <1>3, <1>4, <1>5 DEF Reaching, Synced
<1>9. pending' = Cardinality(Underway') /\ pending \in Nat /\ pending # 0
  BY <1>1, <1>2, <1>3, <1>4, UnderwayMoves DEF UnderwayPc, Subscribing, IInv, TypeOK
<1>10. feed' \in [Feeds -> FeedType]
       /\ \A g \in Feeds : /\ feed'[g].heard = feed[g].heard /\ feed'[g].todo = feed[g].todo
                           /\ g # f => feed'[g] = feed[g]
  <2> DEFINE fresh == [feed[f] EXCEPT !.pc = "opening", !.generation = stream[s].generation]
  <2>1. /\ fresh \in FeedType /\ fresh.heard = feed[f].heard /\ fresh.todo = feed[f].todo
        /\ feed' = [feed EXCEPT ![f] = fresh]
    BY <1>0, <1>1 DEF FeedType, StreamType
  <2> HIDE DEF fresh
  <2>2. QED
    BY <1>1, <2>1
<1>11. FeedKept'
  <2>1. \A t \in Streams : stream'[t].old = stream[t].old
    BY <1>1, <1>2, <1>3
  <2>2. pending' > 0
    BY <1>4, <1>9
  <2>3. ASSUME NEW g \in Feeds, feed'[g].pc \in {"opening", "reading"}, ~feed'[g].closed
        PROVE  member' = g \/ invalidator'.old = g \/ \E t \in Streams : stream'[t].old = g
    <3>1. CASE g # f
      <4>1. feed[g].pc \in {"opening", "reading"} /\ ~feed[g].closed
        BY <1>10, <2>3, <3>1
      <4>2. member # g
        BY <1>4, <4>1, FeedAssumption
      <4>3. QED
        BY <1>4, <2>1, <4>1, <4>2 DEF IInv, FeedKept
    <3>2. QED
      BY <1>0, <3>1
  <2>4. QED
    BY <2>2, <2>3 DEF FeedKept
<1>12. new.old # None => new.pc \in {"ready", "ended"}
  BY <1>3, <1>4, <1>5 DEF Owners
<1>13. s \notin leases
  BY <1>4 DEF IInv, TypeOK, Serving
<1>14. /\ told' \in [Streams -> Cursor] /\ member' \in Feeds \cup {None}
       /\ \A t \in Streams \ {s} : told'[t] = told[t] /\ (t \in leases => t \in leases')
       /\ leases' \subseteq leases \cup {s} /\ s \notin leases'
  BY <1>0, <1>4, <1>13 DEF IInv, TypeOK
<1>15. QED
  BY <1>2, <1>3, <1>4, <1>6, <1>7, <1>8, <1>9, <1>10, <1>11, <1>12, <1>14, StreamMoves

\* Who finds that the feed is not needed any more takes it out of use and holds it.
LEMMA TakenOut ==
  ASSUME TypeOK, FeedKept, NEW remaining \in SUBSET Streams, NEW underway \in Nat, NEW old,
         old = FeedLeft(remaining, underway), TakeOut(old)
  PROVE  /\ old \in Feeds \cup {None} /\ member' \in Feeds \cup {None}
         /\ member' # None => remaining # {} \/ underway > 0
         /\ \A f \in Feeds : member = f => member' = f \/ old = f
<1>1. member \in Feeds \cup {None} /\ None \notin Feeds
  BY FeedAssumption DEF TypeOK
<1>2. QED
  BY <1>1 DEF FeedLeft, TakeOut

LEMMA HandedOver ==
  ASSUME IInv, NEW s \in Streams, NEW new, stream' = [stream EXCEPT ![s] = new],
         stream[s].old = None, UNCHANGED <<feed, invalidator>>,
         member' # None => leases' # {} \/ pending' > 0,
         \A f \in Feeds : member = f => member' = f \/ new.old = f
  PROVE  FeedKept'
<1>1. stream'[s] = new /\ \A t \in Streams \ {s} : stream'[t] = stream[t]
  BY DEF IInv, TypeOK
<1>2. ASSUME NEW f \in Feeds, feed'[f].pc \in {"opening", "reading"}, ~feed'[f].closed
      PROVE  member' = f \/ invalidator'.old = f \/ \E t \in Streams : stream'[t].old = f
  <2>1. member = f \/ invalidator.old = f \/ \E t \in Streams : stream[t].old = f
    BY <1>2 DEF IInv, FeedKept
  <2>2. f # None
    BY FeedAssumption
  <2>3. QED
    BY <1>1, <2>1, <2>2
<1>3. QED
  BY <1>2 DEF FeedKept

LEMMA SubscribedKeeps == ASSUME IInv, NEW s \in Streams, Subscribed(s) PROVE IInv'
<1>1. /\ stream[s] \in StreamType /\ stream \in [Streams -> StreamType] /\ stream[s].pc = "admitted"
      /\ UNCHANGED <<head, feed, leases, generation, told, invalidator>> /\ pending' = pending - 1
  BY DEF Subscribed, IInv, TypeOK
<1>0. PICK old : /\ old = FeedLeft(leases, pending - 1) /\ TakeOut(old)
                 /\ stream' = [Step(s, "ready") EXCEPT ![s].old = old]
  BY DEF Subscribed
<1>2. pending = Cardinality(Underway) /\ Cardinality(Underway) \in Nat /\ Cardinality(Underway) # 0
  BY <1>0, <1>1, FS_Subset, FS_CardinalityType, FS_EmptySet, FeedAssumption DEF Underway, IInv, TypeOK
<1>3. pending - 1 \in Nat
  BY <1>2
<1>4. leases \in SUBSET Streams
  BY DEF IInv, TypeOK
<1>5. /\ old \in Feeds \cup {None} /\ member' \in Feeds \cup {None}
      /\ member' # None => leases # {} \/ pending - 1 > 0
      /\ \A f \in Feeds : member = f => member' = f \/ old = f
  BY <1>0, <1>3, <1>4, TakenOut DEF IInv
<1> DEFINE new == [stream[s] EXCEPT !.pc = "ready", !.old = old]
<1>6. new \in StreamType /\ stream' = [stream EXCEPT ![s] = new]
  BY <1>0, <1>1, <1>5 DEF Step, StreamType, Serving
<1>7. /\ new.pc = "ready" /\ new.old = old /\ new.generation = stream[s].generation
      /\ new.of = stream[s].of /\ new.sub = stream[s].sub /\ new.latest = stream[s].latest
      /\ new.closed = stream[s].closed /\ new.greeted = stream[s].greeted
  BY <1>1 DEF StreamType
<1> HIDE DEF new
<1>8. stream'[s] = new /\ stream[s].old = None
  BY <1>1, <1>6 DEF IInv, Owners
<1>9. Behind /\ Listed(s) /\ Telling(s) /\ Reaching(s)
  BY DEF IInv
<1>10. Listed(s)'
  BY <1>1, <1>7, <1>8, <1>9 DEF Listed, Writing, Serving
<1>11. Telling(s)'
  BY <1>1, <1>7, <1>8, <1>9 DEF Telling, Synced, AtLeast
<1>12. Reaching(s)'
  BY <1>1, <1>7, <1>8, <1>9 DEF Reaching, Synced, Caught
<1>13. FeedKept'
  BY <1>1, <1>5, <1>6, <1>7, <1>8, HandedOver
<1>14. pending' = Cardinality(Underway')
  BY <1>1, <1>2, <1>6, <1>7, UnderwayMoves DEF UnderwayPc, Subscribing
<1>15. /\ told' \in [Streams -> Cursor] /\ feed' \in [Feeds -> FeedType]
       /\ \A t \in Streams \ {s} : told'[t] = told[t] /\ (t \in leases => t \in leases')
       /\ \A f \in Feeds : feed'[f].heard = feed[f].heard /\ feed'[f].todo = feed[f].todo
       /\ leases' \subseteq leases \cup {s}
       /\ new.pc \in Serving \cup {"registered", "admitted", "failing", "ending"}
  BY <1>1, <1>7 DEF IInv, TypeOK, Serving
<1>16. QED
  BY <1>1, <1>5, <1>6, <1>7, <1>10, <1>11, <1>12, <1>13, <1>14, <1>15, StreamMoves

\* A stream that ends knows nothing any more.
LEMMA Ended ==
  ASSUME NEW s \in Streams, NEW old, stream'[s] = [NewStream EXCEPT !.pc = "ended", !.old = old]
  PROVE  Listed(s)' /\ Telling(s)' /\ Reaching(s)'
<1>1. stream'[s].pc = "ended" /\ ~stream'[s].sub.open
  BY FreshSubscription DEF NewStream
<1>2. QED
  BY <1>1 DEF Listed, Telling, Reaching, Writing, Serving, Synced

LEMMA LeaveKeeps == ASSUME IInv, NEW s \in Streams, Leave(s) PROVE IInv'
<1>1. /\ stream \in [Streams -> StreamType] /\ stream[s].pc = "ending" /\ leases' = leases \ {s}
      /\ UNCHANGED <<head, feed, pending, generation, told, invalidator>>
  BY DEF Leave, IInv, TypeOK
<1>0. PICK old : /\ old = (IF s \in leases THEN FeedLeft(leases \ {s}, pending) ELSE None)
                 /\ TakeOut(old)
                 /\ stream' = [stream EXCEPT ![s] = [NewStream EXCEPT !.pc = "ended", !.old = old]]
  BY DEF Leave
<1>2. pending = Cardinality(Underway) /\ pending \in Nat /\ leases \in SUBSET Streams
  BY <1>1, FS_Subset, FS_CardinalityType, FeedAssumption DEF Underway, IInv, TypeOK
<1>3. /\ old \in Feeds \cup {None} /\ member' \in Feeds \cup {None}
      /\ member' # None => leases' # {} \/ pending' > 0
      /\ \A f \in Feeds : member = f => member' = f \/ old = f
  <2>1. CASE s \in leases
    BY <1>0, <1>1, <1>2, <2>1, TakenOut DEF IInv
  <2>2. CASE s \notin leases
    BY <1>0, <1>1, <2>2 DEF TakeOut, IInv, TypeOK, FeedKept
  <2>3. QED
    BY <2>1, <2>2
<1> DEFINE new == [NewStream EXCEPT !.pc = "ended", !.old = old]
<1>4. new \in StreamType /\ new.pc = "ended" /\ new.old = old
  BY <1>3, FreshStream DEF StreamType
<1>5. stream' = [stream EXCEPT ![s] = new] /\ stream'[s] = new
  BY <1>0, <1>1
<1>6. Listed(s)' /\ Telling(s)' /\ Reaching(s)'
  BY <1>5, Ended
<1> HIDE DEF new
<1>7. stream[s].old = None
  BY <1>1 DEF IInv, Owners
<1>8. FeedKept'
  BY <1>1, <1>3, <1>4, <1>5, <1>7, HandedOver
<1>9. pending' = Cardinality(Underway')
  BY <1>1, <1>2, <1>4, <1>5, UnderwayMoves DEF UnderwayPc, Subscribing
<1>10. /\ told' \in [Streams -> Cursor] /\ feed' \in [Feeds -> FeedType]
       /\ \A t \in Streams \ {s} : told'[t] = told[t] /\ (t \in leases => t \in leases')
       /\ \A f \in Feeds : feed'[f].heard = feed[f].heard /\ feed'[f].todo = feed[f].todo
       /\ leases' \subseteq leases \cup {s} /\ s \notin leases'
  BY <1>1 DEF IInv, TypeOK
<1>11. QED
  BY <1>1, <1>3, <1>4, <1>5, <1>6, <1>8, <1>9, <1>10, StreamMoves

LEMMA GiveUpKeeps == ASSUME IInv, NEW s \in Streams, GiveUp(s) PROVE IInv'
<1>1. /\ stream \in [Streams -> StreamType] /\ stream[s].pc = "failing" /\ leases' = leases \ {s}
      /\ pending' = pending - 1 /\ UNCHANGED <<head, feed, generation, told, invalidator>>
  BY DEF GiveUp, IInv, TypeOK
<1>0. PICK old : /\ old = FeedLeft(leases \ {s}, pending - 1) /\ TakeOut(old)
                 /\ stream' = [stream EXCEPT ![s] = [NewStream EXCEPT !.pc = "ended", !.old = old]]
  BY DEF GiveUp
<1>2. /\ pending = Cardinality(Underway) /\ Cardinality(Underway) \in Nat /\ Cardinality(Underway) # 0
      /\ leases \in SUBSET Streams
  BY <1>1, FS_Subset, FS_CardinalityType, FS_EmptySet, FeedAssumption
     DEF Underway, Subscribing, IInv, TypeOK
<1>3. pending - 1 \in Nat
  BY <1>2
<1>4. /\ old \in Feeds \cup {None} /\ member' \in Feeds \cup {None}
      /\ member' # None => leases' # {} \/ pending' > 0
      /\ \A f \in Feeds : member = f => member' = f \/ old = f
  <2>1. leases \ {s} \in SUBSET Streams
    BY <1>2
  <2>2. /\ old \in Feeds \cup {None} /\ member' \in Feeds \cup {None}
        /\ member' # None => leases \ {s} # {} \/ pending - 1 > 0
        /\ \A f \in Feeds : member = f => member' = f \/ old = f
    BY <1>0, <1>3, <2>1, TakenOut DEF IInv
  <2>3. QED
    BY <1>1, <2>2
<1> DEFINE new == [NewStream EXCEPT !.pc = "ended", !.old = old]
<1>5. new \in StreamType /\ new.pc = "ended" /\ new.old = old
  BY <1>4, FreshStream DEF StreamType
<1>6. stream' = [stream EXCEPT ![s] = new] /\ stream'[s] = new
  BY <1>0, <1>1
<1>7. Listed(s)' /\ Telling(s)' /\ Reaching(s)'
  BY <1>6, Ended
<1> HIDE DEF new
<1>8. stream[s].old = None
  BY <1>1 DEF IInv, Owners
<1>9. FeedKept'
  BY <1>1, <1>4, <1>5, <1>6, <1>8, HandedOver
<1>10. pending' = Cardinality(Underway')
  BY <1>1, <1>2, <1>5, <1>6, UnderwayMoves DEF UnderwayPc, Subscribing
<1>11. /\ told' \in [Streams -> Cursor] /\ feed' \in [Feeds -> FeedType]
       /\ \A t \in Streams \ {s} : told'[t] = told[t] /\ (t \in leases => t \in leases')
       /\ \A f \in Feeds : feed'[f].heard = feed[f].heard /\ feed'[f].todo = feed[f].todo
       /\ leases' \subseteq leases \cup {s} /\ s \notin leases'
  BY <1>1 DEF IInv, TypeOK
<1>12. QED
  BY <1>1, <1>4, <1>5, <1>6, <1>7, <1>9, <1>10, <1>11, StreamMoves

-----------------------------------------------------------------------------
(* The feeds, the hub and the invalidations                                 *)

\* No thread of a stream goes on; a subscription may be closed.
LEMMA OthersMove ==
  ASSUME IInv, UNCHANGED <<head, told, pending>>,
         feed' \in [Feeds -> FeedType], stream' \in [Streams -> StreamType],
         member' \in Feeds \cup {None}, generation' \in 0..MaxInvalidations,
         invalidator' \in InvalidatorType, leases' \subseteq leases,
         \A s \in Streams :
           /\ stream'[s].pc = stream[s].pc /\ stream'[s].latest = stream[s].latest
           /\ stream'[s].greeted = stream[s].greeted /\ Listed(s)' /\ Reaching(s)',
         Owners', FeedKept', Behind'
  PROVE  IInv'
<1>1. pending' = Cardinality(Underway')
  BY SameUnderway DEF IInv, TypeOK
<1>2. leases' \subseteq {s \in Streams : stream'[s].pc \in Serving \cup
                           {"registered", "admitted", "failing", "ending"}}
  BY DEF IInv, TypeOK
<1>3. TypeOK'
  BY <1>1, <1>2 DEF IInv, TypeOK
<1>4. ASSUME NEW s \in Streams PROVE Telling(s)'
  BY TellingStays DEF IInv
<1>5. QED
  BY <1>3, <1>4 DEF IInv

LEMMA ClosedFeeds ==
  ASSUME TypeOK, NEW F \in SUBSET Feeds
  PROVE  /\ FeedsClosed(F) \in [Feeds -> FeedType]
         /\ \A f \in Feeds : /\ FeedsClosed(F)[f].heard = feed[f].heard
                             /\ FeedsClosed(F)[f].todo = feed[f].todo
                             /\ FeedsClosed(F)[f].pc = feed[f].pc
                             /\ f \in F => FeedsClosed(F)[f].closed
                             /\ f \notin F => FeedsClosed(F)[f] = feed[f]
<1>1. feed \in [Feeds -> FeedType]
  BY DEF TypeOK
<1>2. ASSUME NEW f \in Feeds
      PROVE  /\ [feed[f] EXCEPT !.closed = TRUE] \in FeedType
             /\ [feed[f] EXCEPT !.closed = TRUE].heard = feed[f].heard
             /\ [feed[f] EXCEPT !.closed = TRUE].todo = feed[f].todo
             /\ [feed[f] EXCEPT !.closed = TRUE].pc = feed[f].pc
             /\ [feed[f] EXCEPT !.closed = TRUE].closed
  BY <1>1 DEF FeedType
<1>3. QED
  BY <1>1, <1>2 DEF FeedsClosed

LEMMA CutOffStreams ==
  ASSUME TypeOK, NEW F \in SUBSET Feeds
  PROVE  /\ CutOff(F) \in [Streams -> StreamType]
         /\ \A s \in Streams :
              /\ CutOff(F)[s].pc = stream[s].pc /\ CutOff(F)[s].generation = stream[s].generation
              /\ CutOff(F)[s].of = stream[s].of /\ CutOff(F)[s].latest = stream[s].latest
              /\ CutOff(F)[s].closed = stream[s].closed /\ CutOff(F)[s].old = stream[s].old
              /\ CutOff(F)[s].greeted = stream[s].greeted
              /\ CutOff(F)[s].sub = stream[s].sub \/ ~CutOff(F)[s].sub.open
              /\ stream[s].of \in F => ~CutOff(F)[s].sub.open
<1>1. stream \in [Streams -> StreamType]
  BY DEF TypeOK
<1>2. ASSUME NEW s \in Streams, NEW cut, cut = [stream[s] EXCEPT !.sub = NoSubscription]
      PROVE  /\ cut \in StreamType /\ cut.pc = stream[s].pc /\ cut.generation = stream[s].generation
             /\ cut.of = stream[s].of /\ cut.latest = stream[s].latest
             /\ cut.closed = stream[s].closed /\ cut.old = stream[s].old
             /\ cut.greeted = stream[s].greeted /\ cut.sub = NoSubscription
  BY <1>1, <1>2, FreshSubscription DEF StreamType
<1>3. \A s \in Streams : CutOff(F)[s] = (IF stream[s].of \in F
                            THEN [stream[s] EXCEPT !.sub = NoSubscription] ELSE stream[s])
  BY DEF CutOff, Closed
<1>4. CutOff(F) = [s \in Streams |-> CutOff(F)[s]]
  BY DEF CutOff
<1>5. QED
  BY <1>1, <1>2, <1>3, <1>4, FreshSubscription

LEMMA CommitKeeps == ASSUME IInv, NEW l \in Lanes, Commit(l) PROVE IInv'
<1>1. /\ UNCHANGED <<feed, member, leases, pending, generation, stream, told, invalidator>>
      /\ head \in [Lanes -> Nat] /\ head' = [head EXCEPT ![l] = @ + 1]
  BY DEF Commit, IInv, TypeOK, Cursor
<1>2. head' \in Cursor /\ \A k \in Lanes : head[k] <= head'[k] /\ head[k] \in Nat /\ head'[k] \in Nat
  BY <1>1 DEF Cursor
<1>3. TypeOK'
  BY <1>1, <1>2 DEF IInv, TypeOK, Underway
<1>4. FeedKept' /\ Owners'
  BY <1>1 DEF IInv, FeedKept, Owners
<1>5. ASSUME NEW c \in Cursor, AtLeast(head, c) PROVE AtLeast(head', c)
  <2> SUFFICES ASSUME NEW k \in Lanes PROVE head'[k] >= c[k]
    BY DEF AtLeast
  <2>1. head[k] >= c[k] /\ c[k] \in Nat
    BY <1>5 DEF AtLeast, Cursor
  <2>2. QED
    BY <1>2, <2>1
<1>6. Behind'
  <2>1. \A f \in Feeds : feed[f].heard \in Cursor /\ AtLeast(head, feed[f].heard)
    BY DEF IInv, TypeOK, FeedType, Behind
  <2>2. QED
    BY <1>1, <1>5, <2>1 DEF Behind
<1>7. ASSUME NEW s \in Streams PROVE Listed(s)' /\ Telling(s)' /\ Reaching(s)'
  <2>1. stream[s] \in StreamType /\ Listed(s) /\ Telling(s) /\ Reaching(s)
    BY DEF IInv, TypeOK
  <2>2. Listed(s)'
    BY <1>1, <2>1 DEF Listed, Writing
  <2>3. Telling(s)'
    <3>1. stream[s].latest \in Cursor
      BY <2>1 DEF StreamType
    <3>2. QED
      BY <1>1, <1>5, <2>1, <3>1 DEF Telling, Synced
  <2>4. stream[s].sub.open => \A k \in Lanes : stream[s].sub.latest[k] <= head'[k]
    <3> SUFFICES ASSUME stream[s].sub.open, NEW k \in Lanes PROVE stream[s].sub.latest[k] <= head'[k]
      OBVIOUS
    <3>1. stream[s].sub.latest[k] <= head[k] /\ stream[s].sub.latest[k] \in Nat \cup {Unknown}
      BY <2>1 DEF Reaching, StreamType, Subscription
    <3>2. QED
      BY <1>2, <3>1 DEF Unknown
  <2>5. Reaching(s)'
    BY <1>1, <2>1, <2>4 DEF Reaching, Caught
  <2>6. QED
    BY <2>2, <2>3, <2>5
<1>8. QED
  BY <1>3, <1>4, <1>6, <1>7 DEF IInv

LEMMA FrameKeeps == ASSUME IInv, NEW f \in Feeds, Frame(f) PROVE IInv'
<1>1. /\ UNCHANGED <<head, member, leases, pending, generation, stream, told, invalidator>>
      /\ feed[f].pc \in {"opening", "reading"} /\ feed[f].todo = {} /\ ~feed[f].closed
  BY DEF Frame
<1>2. feed \in [Feeds -> FeedType] /\ feed[f] \in FeedType /\ head \in [Lanes -> Nat]
  BY DEF IInv, TypeOK, Cursor
<1>3. PICK c \in [Lanes -> UNION {0..head[l] : l \in Lanes}] :
        /\ AtLeast(c, feed[f].heard) /\ AtLeast(head, c)
        /\ feed' = [feed EXCEPT
             ![f].pc = "reading", ![f].heard = c,
             ![f].todo = IF feed[f].pc = "opening" THEN Lanes
                         ELSE {l \in Lanes : c[l] # feed[f].heard[l]}]
  BY DEF Frame
<1>4. c \in Cursor
  BY <1>2 DEF Cursor
<1>5. PICK todo \in SUBSET Lanes :
        todo = IF feed[f].pc = "opening" THEN Lanes ELSE {l \in Lanes : c[l] # feed[f].heard[l]}
  OBVIOUS
<1> DEFINE read == [feed[f] EXCEPT !.pc = "reading", !.heard = c, !.todo = todo]
<1>6. feed' = [feed EXCEPT ![f] = read] /\ read \in FeedType
  BY <1>2, <1>3, <1>4, <1>5 DEF FeedType
<1>7. read.pc = "reading" /\ read.heard = c /\ read.todo = todo /\ read.closed = feed[f].closed
  BY <1>2 DEF FeedType
<1> HIDE DEF read
<1>8. feed' \in [Feeds -> FeedType] /\ feed'[f] = read /\ \A g \in Feeds \ {f} : feed'[g] = feed[g]
  BY <1>2, <1>6
<1>9. ASSUME NEW l \in Lanes, NEW n \in Nat \cup {Unknown}, Caught(f, l, n) PROVE Caught(f, l, n)'
  <2>1. n >= feed[f].heard[l] /\ feed[f].heard[l] \in Nat
    BY <1>1, <1>2, <1>9 DEF Caught, FeedType, Cursor
  <2>2. l \notin todo => c[l] = feed[f].heard[l]
    BY <1>5
  <2>3. QED
    BY <1>7, <1>8, <2>1, <2>2 DEF Caught
<1>10. ASSUME NEW s \in Streams PROVE Listed(s)' /\ Reaching(s)'
  <2>1. stream[s] \in StreamType /\ Listed(s) /\ Reaching(s)
    BY DEF IInv, TypeOK
  <2>2. Listed(s)'
    BY <1>1, <2>1 DEF Listed, Writing
  <2>3. ASSUME stream[s].of # f PROVE Reaching(s)'
    BY <1>1, <1>8, <2>1, <2>3, ReachingStays
  <2>4. ASSUME stream[s].of = f PROVE Reaching(s)'
    <3>1. \A l \in Lanes : /\ stream[s].sub.latest[l] \in Nat \cup {Unknown}
                           /\ Later(stream[s].sub.latest[l], stream[s].latest[l]) \in Nat \cup {Unknown}
      BY <2>1 DEF StreamType, Subscription, Cursor, Later
    <3>2. QED
      BY <1>1, <1>9, <2>1, <2>4, <3>1 DEF Reaching
  <2>5. QED
    BY <2>2, <2>3, <2>4
<1>11. Behind'
  BY <1>1, <1>3, <1>7, <1>8 DEF IInv, Behind
<1>12. FeedKept' /\ Owners'
  BY <1>1, <1>7, <1>8 DEF IInv, FeedKept, Owners
<1>13. /\ member' \in Feeds \cup {None} /\ generation' \in 0..MaxInvalidations
       /\ invalidator' \in InvalidatorType /\ stream' \in [Streams -> StreamType]
  BY <1>1 DEF IInv, TypeOK
<1>14. QED
  BY <1>1, <1>8, <1>10, <1>11, <1>12, <1>13, OthersMove

\* What the feed passes on in one lane, and what a subscription then holds.
LEMMA PassOnKeeps == ASSUME IInv, NEW f \in Feeds, PassOn(f) PROVE IInv'
<1>1. UNCHANGED <<head, member, leases, pending, generation, told, invalidator>>
  BY DEF PassOn
<1>2. /\ feed \in [Feeds -> FeedType] /\ feed[f] \in FeedType /\ head \in Cursor
      /\ stream \in [Streams -> StreamType]
  BY DEF IInv, TypeOK
<1>3. PICK l \in Lanes :
        /\ stream' = [s \in Streams |->
                        IF stream[s].of = f
                        THEN [stream[s] EXCEPT !.sub = Published(@, l, feed[f].heard[l])]
                        ELSE stream[s]]
        /\ feed' = [feed EXCEPT ![f].todo = @ \ {l}, ![f].ready = @ \/ feed[f].todo = {l}]
  <2>1. feed[f].todo # {} /\ feed[f].todo \subseteq Lanes
    BY <1>2 DEF PassOn, FeedType
  <2>2. (CHOOSE k \in feed[f].todo : TRUE) \in Lanes
    BY <2>1
  <2>3. QED
    BY <2>2, FeedAssumption DEF PassOn
<1>4. PICK n \in Nat : n = feed[f].heard[l]
  BY <1>2 DEF FeedType, Cursor
<1>5. n <= head[l]
  BY <1>4 DEF IInv, Behind, AtLeast
<1> DEFINE passed == [feed[f] EXCEPT !.todo = @ \ {l}, !.ready = @ \/ feed[f].todo = {l}]
<1>6. feed' = [feed EXCEPT ![f] = passed] /\ passed \in FeedType
  BY <1>2, <1>3 DEF FeedType
<1>7. /\ passed.pc = feed[f].pc /\ passed.heard = feed[f].heard
      /\ passed.todo = feed[f].todo \ {l} /\ passed.closed = feed[f].closed
  BY <1>2 DEF FeedType
<1> HIDE DEF passed
<1>8. feed' \in [Feeds -> FeedType] /\ feed'[f] = passed /\ \A g \in Feeds \ {f} : feed'[g] = feed[g]
  BY <1>2, <1>6
<1>9. ASSUME NEW s \in Streams
      PROVE  /\ stream'[s] \in StreamType /\ stream'[s].pc = stream[s].pc
             /\ stream'[s].latest = stream[s].latest /\ stream'[s].greeted = stream[s].greeted
             /\ stream'[s].generation = stream[s].generation /\ stream'[s].closed = stream[s].closed
             /\ stream'[s].of = stream[s].of /\ stream'[s].old = stream[s].old
             /\ stream[s].of # f => stream'[s].sub = stream[s].sub
             /\ stream[s].of = f => stream'[s].sub = Published(stream[s].sub, l, n)
  <2>1. stream[s] \in StreamType /\ stream[s].sub \in Subscription
    BY <1>2 DEF StreamType
  <2>2. Published(stream[s].sub, l, n) \in Subscription
    BY <2>1, PublishedJoins
  <2>3. stream'[s] = IF stream[s].of = f
                     THEN [stream[s] EXCEPT !.sub = Published(stream[s].sub, l, n)] ELSE stream[s]
    BY <1>3, <1>4
  <2>4. QED
    BY <2>1, <2>2, <2>3 DEF StreamType
<1>10. stream' \in [Streams -> StreamType]
  <2>1. stream' = [s \in Streams |-> stream'[s]]
    BY <1>3
  <2>2. QED
    BY <1>9, <2>1
<1>11. ASSUME NEW s \in Streams PROVE Listed(s)'
  BY <1>1, <1>9, ListedStays DEF IInv
<1>12. ASSUME NEW s \in Streams PROVE Reaching(s)'
  <2>1. stream[s] \in StreamType /\ Reaching(s) /\ stream[s].sub \in Subscription
    BY <1>2 DEF IInv, StreamType
  <2>2. ASSUME stream[s].of # f PROVE Reaching(s)'
    BY <1>1, <1>8, <1>9, <2>1, <2>2, ReachingStays
  <2>3. ASSUME stream[s].of = f, ~stream[s].sub.open PROVE Reaching(s)'
    BY <1>9, <2>1, <2>3, <1>4, PublishedJoins DEF Reaching
  <2>4. ASSUME stream[s].of = f, stream[s].sub.open PROVE Reaching(s)'
    <3>1. PICK sub \in Subscription : sub = stream[s].sub
      BY <2>1
    <3>2. PICK new \in Subscription : new = stream'[s].sub
      BY <1>9 DEF StreamType
    <3>3. /\ new.open /\ new.latest[l] = Later(sub.latest[l], n)
          /\ \A k \in Lanes \ {l} : new.latest[k] = sub.latest[k]
          /\ new.pending \/ new = sub
      <4>1. new = Published(sub, l, n) /\ sub.open
        BY <1>9, <2>4, <3>1, <3>2
      <4>2. /\ Published(sub, l, n).open = sub.open
            /\ Published(sub, l, n).latest[l] = Later(sub.latest[l], n)
            /\ \A k \in Lanes \ {l} : Published(sub, l, n).latest[k] = sub.latest[k]
            /\ Published(sub, l, n).pending \/ Published(sub, l, n) = sub
        BY <4>1, PublishedJoins
      <4>3. QED
        BY <4>1, <4>2
    <3>4. ASSUME NEW k \in Lanes
          PROVE  /\ new.latest[k] <= head[k]
                 /\ stream[s].pc = "read" =>
                      Caught(f, k, Later(new.latest[k], stream[s].latest[k]))'
                 /\ stream[s].pc \in Synced =>
                      stream[s].latest[k] <= new.latest[k] /\ Caught(f, k, new.latest[k])'
      <4>1. /\ sub.latest[k] \in Nat \cup {Unknown} /\ stream[s].latest[k] \in Nat
            /\ head[k] \in Nat /\ feed[f].heard[k] \in Nat /\ sub.latest[k] <= head[k]
        BY <1>2, <2>1, <2>4, <3>1 DEF Reaching, Subscription, StreamType, Cursor, FeedType
      <4>2. feed'[f].heard[k] = feed[f].heard[k] /\ (k # l => (k \in feed'[f].todo <=> k \in feed[f].todo))
        BY <1>7, <1>8
      <4>3. CASE k = l
        BY <1>4, <1>5, <1>9, <2>1, <2>4, <3>1, <3>3, <4>1, <4>2, <4>3 DEF Caught, Reaching, Later, Unknown
      <4>4. CASE k # l
        BY <1>9, <2>1, <2>4, <3>1, <3>3, <4>1, <4>2, <4>4 DEF Caught, Reaching, Later, Unknown
      <4>5. QED
        BY <4>3, <4>4
    <3>5. QED
      BY <1>1, <1>9, <2>1, <2>4, <3>1, <3>2, <3>3, <3>4 DEF Reaching
  <2>5. QED
    BY <2>2, <2>3, <2>4
<1>13. Behind'
  BY <1>1, <1>7, <1>8 DEF IInv, Behind
<1>14. FeedKept' /\ Owners'
  BY <1>1, <1>7, <1>8, <1>9 DEF IInv, FeedKept, Owners
<1>15. /\ member' \in Feeds \cup {None} /\ generation' \in 0..MaxInvalidations
       /\ invalidator' \in InvalidatorType
  BY <1>1 DEF IInv, TypeOK
<1>16. QED
  BY <1>1, <1>8, <1>9, <1>10, <1>11, <1>12, <1>13, <1>14, <1>15, OthersMove

LEMMA FeedEndsKeeps == ASSUME IInv, NEW f \in Feeds, FeedEnds(f) PROVE IInv'
<1>1. /\ UNCHANGED <<head, member, leases, pending, generation, told, invalidator>>
      /\ feed' = [feed EXCEPT ![f] = [NewFeed EXCEPT !.pc = "ended", !.closed = TRUE]]
      /\ stream' = CutOff({f}) /\ TypeOK /\ Owners
  BY DEF FeedEnds, IInv
<1>2. /\ feed \in [Feeds -> FeedType] /\ head \in Cursor /\ member' \in Feeds \cup {None}
      /\ generation' \in 0..MaxInvalidations /\ invalidator' \in InvalidatorType
  BY <1>1 DEF TypeOK
<1> DEFINE ended == [NewFeed EXCEPT !.pc = "ended", !.closed = TRUE]
<1>3. ended \in FeedType /\ ended.heard = Zero /\ ended.pc = "ended"
  BY DEF NewFeed, FeedType, Zero, Cursor
<1> HIDE DEF ended
<1>4. feed' \in [Feeds -> FeedType] /\ feed'[f] = ended /\ \A g \in Feeds \ {f} : feed'[g] = feed[g]
  BY <1>1, <1>2, <1>3 DEF ended
<1>5. /\ stream' \in [Streams -> StreamType]
      /\ \A s \in Streams :
           /\ stream'[s].pc = stream[s].pc /\ stream'[s].generation = stream[s].generation
           /\ stream'[s].of = stream[s].of /\ stream'[s].latest = stream[s].latest
           /\ stream'[s].closed = stream[s].closed /\ stream'[s].old = stream[s].old
           /\ stream'[s].greeted = stream[s].greeted
           /\ stream'[s].sub = stream[s].sub \/ ~stream'[s].sub.open
           /\ stream[s].of = f => ~stream'[s].sub.open
  BY <1>1, CutOffStreams
<1>6. ASSUME NEW s \in Streams PROVE Listed(s)' /\ Reaching(s)'
  BY <1>1, <1>4, <1>5, ListedStays, ReachingStays DEF IInv
<1>7. Behind'
  <2>1. AtLeast(head, Zero)
    BY <1>2 DEF AtLeast, Zero, Cursor
  <2>2. QED
    BY <1>1, <1>3, <1>4, <2>1 DEF IInv, Behind
<1>8. FeedKept'
  <2>1. \A g \in Feeds : feed'[g].pc \in {"opening", "reading"} => feed'[g] = feed[g]
    BY <1>3, <1>4
  <2>2. \A s \in Streams : stream'[s].old = stream[s].old
    BY <1>5
  <2>3. UNCHANGED <<member, leases, pending>> /\ invalidator'.old = invalidator.old /\ FeedKept
    BY <1>1 DEF IInv
  <2>4. QED
    BY <2>1, <2>2, <2>3 DEF FeedKept
<1>9. Owners'
  BY <1>1, <1>5 DEF Owners
<1>10. QED
  BY <1>1, <1>2, <1>4, <1>5, <1>6, <1>7, <1>8, <1>9, OthersMove

\* What the closing of a feed leaves alone, whoever closes it.
LEMMA FeedCloses ==
  ASSUME IInv, NEW old \in Feeds, UNCHANGED head, feed' = FeedsClosed({old}),
         \A s \in Streams :
           /\ stream'[s].pc = CutOff({old})[s].pc /\ stream'[s].of = CutOff({old})[s].of
           /\ stream'[s].latest = CutOff({old})[s].latest /\ stream'[s].sub = CutOff({old})[s].sub
  PROVE  /\ Behind' /\ feed' \in [Feeds -> FeedType]
         /\ \A f \in Feeds : /\ feed'[f].pc = feed[f].pc
                             /\ f # old => feed'[f].closed = feed[f].closed
                             /\ f = old => feed'[f].closed
         /\ \A s \in Streams : Reaching(s)'
<1>1. TypeOK /\ {old} \in SUBSET Feeds
  BY DEF IInv
<1>2. /\ feed' \in [Feeds -> FeedType]
      /\ \A f \in Feeds : /\ feed'[f].heard = feed[f].heard /\ feed'[f].todo = feed[f].todo
                          /\ feed'[f].pc = feed[f].pc /\ (f = old => feed'[f].closed)
                          /\ f # old => feed'[f] = feed[f]
  BY <1>1, ClosedFeeds
<1>3. Behind'
  BY <1>2 DEF IInv, Behind
<1>4. ASSUME NEW s \in Streams PROVE Reaching(s)'
  <2>1. /\ stream'[s].pc = stream[s].pc /\ stream'[s].of = stream[s].of
        /\ stream'[s].latest = stream[s].latest
        /\ stream'[s].sub = stream[s].sub \/ ~stream'[s].sub.open
    BY <1>1, CutOffStreams
  <2>2. QED
    BY <1>2, <2>1, ReachingStays DEF IInv
<1>5. QED
  BY <1>2, <1>3, <1>4

LEMMA CloseOldKeeps == ASSUME IInv, NEW s \in Streams, CloseOld(s) PROVE IInv'
<1>1. /\ UNCHANGED <<head, member, leases, pending, generation, told, invalidator>>
      /\ TypeOK /\ Owners /\ FeedKept
  BY DEF CloseOld, IInv
<1>2. PICK old \in Feeds : old = stream[s].old
  BY <1>1 DEF CloseOld, TypeOK, StreamType
<1>3. /\ feed' = FeedsClosed({old}) /\ stream' = [CutOff({old}) EXCEPT ![s].old = None]
      /\ {old} \in SUBSET Feeds
  BY <1>2 DEF CloseOld
<1> DEFINE cut == CutOff({old})
<1>4. /\ cut \in [Streams -> StreamType]
      /\ \A t \in Streams :
           /\ cut[t].pc = stream[t].pc /\ cut[t].generation = stream[t].generation
           /\ cut[t].closed = stream[t].closed /\ cut[t].old = stream[t].old
           /\ cut[t].latest = stream[t].latest /\ cut[t].greeted = stream[t].greeted
  BY <1>1, <1>3, CutOffStreams
<1> DEFINE new == [cut[s] EXCEPT !.old = None]
<1>5. /\ new \in StreamType /\ new.old = None /\ new.pc = cut[s].pc /\ new.latest = cut[s].latest
      /\ new.generation = cut[s].generation /\ new.closed = cut[s].closed
      /\ new.greeted = cut[s].greeted /\ new.of = cut[s].of /\ new.sub = cut[s].sub
  BY <1>4 DEF StreamType
<1>6. stream' = [cut EXCEPT ![s] = new]
  BY <1>3
<1> HIDE DEF new, cut
<1>7. stream' \in [Streams -> StreamType] /\ stream'[s] = new /\ \A t \in Streams \ {s} : stream'[t] = cut[t]
  BY <1>4, <1>5, <1>6
<1>8. \A t \in Streams :
        /\ stream'[t].pc = cut[t].pc /\ stream'[t].of = cut[t].of
        /\ stream'[t].latest = cut[t].latest /\ stream'[t].sub = cut[t].sub
        /\ stream'[t].generation = cut[t].generation /\ stream'[t].closed = cut[t].closed
        /\ stream'[t].greeted = cut[t].greeted
        /\ stream'[t].old = (IF t = s THEN None ELSE cut[t].old)
  BY <1>5, <1>7
<1>9. /\ Behind' /\ feed' \in [Feeds -> FeedType] /\ \A t \in Streams : Reaching(t)'
      /\ \A f \in Feeds : /\ feed'[f].pc = feed[f].pc
                          /\ f # old => feed'[f].closed = feed[f].closed
                          /\ f = old => feed'[f].closed
  BY <1>1, <1>3, <1>8, FeedCloses DEF cut
<1>10. ASSUME NEW t \in Streams PROVE Listed(t)'
  BY <1>1, <1>4, <1>8, ListedStays DEF IInv
<1>11. FeedKept'
  <2>1. \A t \in Streams : stream'[t].old = (IF t = s THEN None ELSE stream[t].old)
    BY <1>4, <1>8
  <2>2. QED
    BY <1>1, <1>2, <1>9, <2>1 DEF FeedKept
<1>12. Owners'
  <2>1. \A t \in Streams : stream'[t].pc = stream[t].pc /\ (stream'[t].old # None => stream[t].old # None)
    BY <1>4, <1>8
  <2>2. QED
    BY <1>1, <2>1 DEF Owners
<1>13. /\ member' \in Feeds \cup {None} /\ generation' \in 0..MaxInvalidations
       /\ invalidator' \in InvalidatorType
  BY <1>1 DEF TypeOK
<1>14. QED
  BY <1>1, <1>4, <1>7, <1>8, <1>9, <1>10, <1>11, <1>12, <1>13, OthersMove

LEMMA InvalidateFeedKeeps == ASSUME IInv, InvalidateFeed PROVE IInv'
<1>1. /\ UNCHANGED <<head, member, leases, pending, generation, told>>
      /\ TypeOK /\ Owners /\ FeedKept /\ invalidator \in InvalidatorType
  BY DEF InvalidateFeed, IInv, TypeOK
<1>2. PICK old \in Feeds : old = invalidator.old
  BY <1>1 DEF InvalidateFeed, InvalidatorType
<1>3. /\ feed' = FeedsClosed({old}) /\ stream' = CutOff({old}) /\ {old} \in SUBSET Feeds
      /\ invalidator' = [invalidator EXCEPT !.old = None]
  BY <1>2 DEF InvalidateFeed
<1>4. /\ invalidator' \in InvalidatorType /\ invalidator'.old = None
      /\ invalidator'.todo = invalidator.todo /\ invalidator'.at = invalidator.at
      /\ invalidator'.pc = invalidator.pc
  BY <1>1, <1>3 DEF InvalidatorType
<1>5. /\ stream' \in [Streams -> StreamType]
      /\ \A t \in Streams :
           /\ stream'[t].pc = stream[t].pc /\ stream'[t].generation = stream[t].generation
           /\ stream'[t].closed = stream[t].closed /\ stream'[t].old = stream[t].old
           /\ stream'[t].latest = stream[t].latest /\ stream'[t].greeted = stream[t].greeted
  BY <1>1, <1>3, CutOffStreams
<1>6. /\ Behind' /\ feed' \in [Feeds -> FeedType] /\ \A t \in Streams : Reaching(t)'
      /\ \A f \in Feeds : /\ feed'[f].pc = feed[f].pc
                          /\ f # old => feed'[f].closed = feed[f].closed
                          /\ f = old => feed'[f].closed
  BY <1>1, <1>3, FeedCloses
<1>7. ASSUME NEW t \in Streams PROVE Listed(t)'
  BY <1>1, <1>4, <1>5 DEF IInv, Listed, Writing
<1>8. FeedKept'
  BY <1>1, <1>2, <1>4, <1>5, <1>6 DEF FeedKept
<1>9. Owners'
  BY <1>1, <1>4, <1>5 DEF Owners
<1>10. member' \in Feeds \cup {None} /\ generation' \in 0..MaxInvalidations
  BY <1>1 DEF TypeOK
<1>11. QED
  BY <1>1, <1>4, <1>5, <1>6, <1>7, <1>8, <1>9, <1>10, OthersMove

\* Neither the feeds nor the streams change.
LEMMA OnlyInvalidator ==
  ASSUME IInv, UNCHANGED <<head, feed, told, pending, stream>>,
         member' \in Feeds \cup {None}, generation' \in 0..MaxInvalidations,
         invalidator' \in InvalidatorType, leases' \subseteq leases,
         \A s \in Streams : Listed(s)', Owners', FeedKept'
  PROVE  IInv'
<1>1. \A s \in Streams : Reaching(s)'
  BY ReachingStays DEF IInv
<1>2. Behind' /\ feed' \in [Feeds -> FeedType] /\ stream' \in [Streams -> StreamType]
  BY DEF IInv, Behind, TypeOK
<1>3. QED
  BY <1>1, <1>2, OthersMove

LEMMA InvalidateKeeps == ASSUME IInv, Invalidate PROVE IInv'
<1>1. /\ UNCHANGED <<head, feed, leases, pending, stream, told>> /\ member' = None
      /\ invalidator' = [pc |-> "closing", old |-> member, todo |-> leases, at |-> None]
      /\ TypeOK /\ Owners /\ FeedKept
  BY DEF Invalidate, IInv
<1>2. generation' \in 0..MaxInvalidations
  BY <1>1, FeedAssumption DEF Invalidate, TypeOK
<1>3. /\ invalidator' \in InvalidatorType /\ invalidator'.old = member /\ invalidator'.todo = leases
      /\ invalidator'.at = None /\ invalidator'.pc = "closing"
  BY <1>1 DEF TypeOK, InvalidatorType
<1>4. ASSUME NEW s \in Streams PROVE Listed(s)'
  <2>1. Listed(s) /\ s # None
    BY FeedAssumption DEF IInv
  <2>2. QED
    BY <1>1, <1>3, <2>1 DEF Listed, Writing
<1>5. invalidator.old = None
  BY <1>1 DEF Invalidate, Owners
<1>6. FeedKept'
  <2>1. \A f \in Feeds : invalidator.old # f
    BY <1>5, FeedAssumption
  <2>2. QED
    BY <1>1, <1>3, <2>1 DEF FeedKept
<1>7. Owners'
  BY <1>1, <1>3 DEF Owners
<1>8. QED
  BY <1>1, <1>2, <1>3, <1>4, <1>6, <1>7, OnlyInvalidator

LEMMA InvalidateCancelKeeps == ASSUME IInv, InvalidateCancel PROVE IInv'
<1>1. /\ UNCHANGED <<head, feed, member, leases, pending, generation, told>>
      /\ invalidator.pc = "closing" /\ invalidator.at = None /\ invalidator.old = None
      /\ TypeOK /\ Owners /\ FeedKept /\ Behind
      /\ invalidator \in InvalidatorType /\ stream \in [Streams -> StreamType]
  BY DEF InvalidateCancel, IInv, TypeOK
<1>2. PICK s \in Streams :
        /\ stream' = [stream EXCEPT ![s].closed = stream[s].pc # "ended", ![s].sub = Closed(@)]
        /\ invalidator' = [invalidator EXCEPT !.at = s, !.todo = @ \ {s}]
  BY <1>1 DEF InvalidateCancel, InvalidatorType
<1>3. /\ invalidator' \in InvalidatorType /\ invalidator'.at = s /\ invalidator'.old = None
      /\ invalidator'.todo = invalidator.todo \ {s} /\ invalidator'.pc = "closing"
  BY <1>1, <1>2 DEF InvalidatorType
<1> DEFINE new == [stream[s] EXCEPT !.closed = stream[s].pc # "ended", !.sub = NoSubscription]
<1>4. stream' = [stream EXCEPT ![s] = new] /\ new \in StreamType
  BY <1>1, <1>2, FreshSubscription DEF StreamType, Closed
<1>5. /\ new.pc = stream[s].pc /\ new.latest = stream[s].latest /\ new.greeted = stream[s].greeted
      /\ new.generation = stream[s].generation /\ new.old = stream[s].old /\ new.of = stream[s].of
      /\ new.closed = (stream[s].pc # "ended") /\ ~new.sub.open
  BY <1>1, FreshSubscription DEF StreamType
<1> HIDE DEF new
<1>6. stream' \in [Streams -> StreamType] /\ stream'[s] = new /\ \A t \in Streams \ {s} : stream'[t] = stream[t]
  BY <1>1, <1>4
<1>7. ASSUME NEW t \in Streams PROVE Listed(t)'
  <2>1. Listed(t) /\ invalidator.at # t
    BY <1>1, FeedAssumption DEF IInv
  <2>2. CASE t = s
    BY <1>1, <1>3, <1>5, <1>6, <2>1, <2>2 DEF Listed, Writing, Serving
  <2>3. CASE t # s
    BY <1>1, <1>3, <1>6, <2>1, <2>3 DEF Listed, Writing
  <2>4. QED
    BY <2>2, <2>3
<1>8. ASSUME NEW t \in Streams PROVE Reaching(t)'
  <2>1. /\ stream'[t].pc = stream[t].pc /\ stream'[t].of = stream[t].of
        /\ stream'[t].latest = stream[t].latest
        /\ stream'[t].sub = stream[t].sub \/ ~stream'[t].sub.open
    BY <1>5, <1>6
  <2>2. QED
    BY <1>1, <2>1, ReachingStays DEF IInv
<1>9. \A t \in Streams : /\ stream'[t].pc = stream[t].pc /\ stream'[t].latest = stream[t].latest
                         /\ stream'[t].greeted = stream[t].greeted /\ stream'[t].old = stream[t].old
  BY <1>5, <1>6
<1>10. FeedKept'
  BY <1>1, <1>3, <1>9 DEF FeedKept
<1>11. Owners'
  BY <1>1, <1>3, <1>9 DEF Owners
<1>12. /\ member' \in Feeds \cup {None} /\ generation' \in 0..MaxInvalidations /\ Behind'
       /\ feed' \in [Feeds -> FeedType]
  BY <1>1 DEF TypeOK, Behind
<1>13. QED
  BY <1>1, <1>3, <1>6, <1>7, <1>8, <1>9, <1>10, <1>11, <1>12, OthersMove

LEMMA InvalidateRetireKeeps == ASSUME IInv, InvalidateRetire PROVE IInv'
<1>1. /\ UNCHANGED <<head, feed, pending, generation, stream, told>>
      /\ invalidator \in InvalidatorType /\ TypeOK /\ Owners /\ FeedKept /\ invalidator.at # None
  BY DEF InvalidateRetire, IInv, TypeOK
<1>2. PICK s \in Streams : s = invalidator.at
  BY <1>1 DEF InvalidatorType
<1>3. PICK old : /\ old = (IF s \in leases THEN FeedLeft(leases \ {s}, pending) ELSE None)
                 /\ TakeOut(old) /\ invalidator' = [invalidator EXCEPT !.at = None, !.old = old]
  BY <1>2 DEF InvalidateRetire
<1>4. leases' = leases \ {s} /\ ~Writing(s)
  BY <1>2 DEF InvalidateRetire, Drained
<1>5. leases \ {s} \in SUBSET Streams /\ pending \in Nat
  BY <1>1, FS_Subset, FS_CardinalityType, FeedAssumption DEF Underway, TypeOK
<1>6. /\ old \in Feeds \cup {None} /\ member' \in Feeds \cup {None}
      /\ member' # None => leases' # {} \/ pending' > 0
      /\ \A f \in Feeds : member = f => member' = f \/ old = f
  <2>1. CASE s \in leases
    <3>1. /\ old \in Feeds \cup {None} /\ member' \in Feeds \cup {None}
          /\ member' # None => leases \ {s} # {} \/ pending > 0
          /\ \A f \in Feeds : member = f => member' = f \/ old = f
      BY <1>1, <1>3, <1>5, <2>1, TakenOut
    <3>2. QED
      BY <1>1, <1>4, <3>1
  <2>2. CASE s \notin leases
    BY <1>1, <1>3, <1>4, <2>2 DEF TakeOut, TypeOK, FeedKept
  <2>3. QED
    BY <2>1, <2>2
<1>7. /\ invalidator' \in InvalidatorType /\ invalidator'.at = None /\ invalidator'.old = old
      /\ invalidator'.todo = invalidator.todo /\ invalidator'.pc = invalidator.pc
      /\ invalidator.pc = "closing" /\ invalidator.old = None
  BY <1>1, <1>3, <1>6 DEF InvalidatorType, Owners
<1>8. ASSUME NEW t \in Streams PROVE Listed(t)'
  <2>1. Listed(t) /\ t # None
    BY FeedAssumption DEF IInv
  <2>2. CASE t = s
    BY <1>1, <1>2, <1>4, <1>7, <2>1, <2>2 DEF Listed, Writing, Serving
  <2>3. CASE t # s
    BY <1>1, <1>2, <1>4, <1>7, <2>1, <2>3 DEF Listed, Writing
  <2>4. QED
    BY <2>2, <2>3
<1>9. FeedKept'
  <2>1. \A f \in Feeds : invalidator.old # f
    BY <1>7, FeedAssumption
  <2>2. QED
    BY <1>1, <1>6, <1>7, <2>1 DEF FeedKept
<1>10. Owners'
  BY <1>1, <1>7 DEF Owners
<1>11. leases' \subseteq leases /\ generation' \in 0..MaxInvalidations
  BY <1>1, <1>4 DEF TypeOK
<1>12. QED
  BY <1>1, <1>6, <1>7, <1>8, <1>9, <1>10, <1>11, OnlyInvalidator

LEMMA InvalidateReturnsKeeps == ASSUME IInv, InvalidateReturns PROVE IInv'
<1>1. /\ UNCHANGED <<head, feed, member, leases, pending, generation, stream, told>>
      /\ invalidator' = [invalidator EXCEPT !.pc = "none"] /\ invalidator.todo = {}
      /\ invalidator.at = None /\ invalidator.old = None
      /\ invalidator \in InvalidatorType /\ TypeOK /\ Owners /\ FeedKept
  BY DEF InvalidateReturns, IInv, TypeOK
<1>2. /\ invalidator' \in InvalidatorType /\ invalidator'.old = None /\ invalidator'.todo = {}
      /\ invalidator'.at = None
  BY <1>1 DEF InvalidatorType
<1>3. ASSUME NEW s \in Streams PROVE Listed(s)'
  BY <1>1, <1>2 DEF IInv, Listed, Writing
<1>4. FeedKept' /\ Owners'
  BY <1>1, <1>2 DEF FeedKept, Owners
<1>5. member' \in Feeds \cup {None} /\ generation' \in 0..MaxInvalidations /\ leases' \subseteq leases
  BY <1>1 DEF TypeOK
<1>6. QED
  BY <1>1, <1>2, <1>3, <1>4, <1>5, OnlyInvalidator

-----------------------------------------------------------------------------
(* The theorems                                                             *)

LEMMA InitInv == Init => IInv
<1> SUFFICES ASSUME Init PROVE IInv
  OBVIOUS
<1>1. Zero \in Cursor /\ AtLeast(Zero, Zero)
  BY DEF Zero, Cursor, AtLeast
<1>2. NewFeed \in FeedType /\ NewFeed.pc = "none" /\ NewFeed.heard = Zero
  BY <1>1 DEF NewFeed, FeedType
<1>3. \A s \in Streams : stream[s] = NewStream
  BY DEF Init
<1>4. Underway = {} /\ Cardinality(Underway) = 0
  <2>1. Underway = {}
    BY <1>3, FreshStream DEF Underway, Subscribing
  <2>2. QED
    BY <2>1, FS_EmptySet
<1>5. TypeOK
  BY <1>1, <1>2, <1>4, FreshStream, FeedAssumption DEF Init, TypeOK, InvalidatorType
<1>6. FeedKept /\ Owners /\ Behind
  BY <1>1, <1>2, <1>3, FreshStream DEF Init, FeedKept, Owners, Behind
<1>7. ASSUME NEW s \in Streams PROVE Listed(s) /\ Telling(s) /\ Reaching(s)
  <2>1. /\ stream[s].pc = "idle" /\ ~stream[s].greeted /\ ~stream[s].sub.open
        /\ told[s] = Zero /\ invalidator.at # s
    BY <1>3, FreshStream, FreshSubscription, FeedAssumption DEF Init
  <2>2. QED
    BY <2>1 DEF Listed, Telling, Reaching, Writing, Serving, Synced
<1>8. QED
  BY <1>5, <1>6, <1>7 DEF IInv

LEMMA ServeKeeps ==
  ASSUME IInv, NEW s \in Streams, Capture(s) \/ Serve(s) \/ Fails(s) PROVE IInv'
BY CaptureKeeps, JoinFeedKeeps, OpenFeedKeeps, SubscribeKeeps, ReadSnapshotKeeps, RegisterKeeps,
   AdmitKeeps, SubscribedKeeps, RefusedSubscriptionKeeps, StartWriteKeeps, EndWriteKeeps,
   TakeKeeps, LeaveKeeps, GiveUpKeeps, CloseOldKeeps, FailsKeeps DEF Serve, Subscribes

LEMMA NextKeeps == ASSUME IInv, [Next]_vars PROVE IInv'
<1>1. CASE UNCHANGED vars
  <2>1. UNCHANGED <<head, feed, member, leases, pending, generation, stream, told, invalidator>>
    BY <1>1 DEF vars
  <2>2. \A s \in Streams : Listed(s)'
    BY <2>1, ListedStays DEF IInv
  <2>3. FeedKept' /\ Owners'
    BY <2>1 DEF IInv, FeedKept, Owners
  <2>4. QED
    BY <2>1, <2>2, <2>3, OnlyInvalidator DEF IInv, TypeOK
<1>2. CASE \E l \in Lanes : Commit(l)
  BY <1>2, CommitKeeps
<1>3. CASE \E f \in Feeds : Read(f) \/ FeedEnds(f)
  BY <1>3, FrameKeeps, PassOnKeeps, FeedEndsKeeps DEF Read
<1>4. CASE \E s \in Streams : Capture(s) \/ Serve(s) \/ Fails(s)
  BY <1>4, ServeKeeps
<1>5. CASE Invalidate \/ Invalidation
  BY <1>5, InvalidateKeeps, InvalidateFeedKeeps, InvalidateCancelKeeps, InvalidateRetireKeeps,
     InvalidateReturnsKeeps DEF Invalidation
<1>6. QED
  BY <1>1, <1>2, <1>3, <1>4, <1>5 DEF Next

\* The state of the relay: what is passed on, what is held, and who still has to close what.
THEOREM Inductive == Spec => []IInv
BY InitInv, NextKeeps, PTL DEF Spec

\* The types, and the counts by which the feed is kept or given up: the subscriptions
\* that are under way, and leases of streams that can have one.
THEOREM TypeCorrect == Spec => []TypeOK
<1>1. IInv => TypeOK
  BY DEF IInv
<1>2. QED
  BY <1>1, Inductive, PTL

\* The feed is given up with the last local stream and not before: one that is open is in use
\* or about to be closed by somebody, and one in use is needed, whoever interleaves.
THEOREM FeedIsKept == Spec => []FeedKept
<1>1. IInv => FeedKept
  BY DEF IInv
<1>2. QED
  BY <1>1, Inductive, PTL

\* A stream that waits with nothing pending has told its client of all that its feed has
\* passed on, whatever came first: its own snapshot or the frames of the feed.
THEOREM WaitingIsCurrent == Spec => []QuietMeansCurrent
<1>1. ASSUME IInv PROVE QuietMeansCurrent
  <2> SUFFICES ASSUME NEW s \in Streams, stream[s].pc = "waiting", stream[s].sub.open,
                      ~stream[s].sub.pending, NEW l \in Lanes
               PROVE  Caught(stream[s].of, l, told[s][l])
    BY DEF QuietMeansCurrent, Caught
  <2>1. stream[s].latest = told[s] /\ stream[s].latest = stream[s].sub.latest
    BY <1>1 DEF IInv, Telling, Reaching, Synced
  <2>2. Caught(stream[s].of, l, stream[s].sub.latest[l])
    BY <1>1 DEF IInv, Reaching, Synced
  <2>3. QED
    BY <2>1, <2>2
<1>2. QED
  BY <1>1, Inductive, PTL

LEMMA OnlyEndWriteTells ==
  ASSUME [Next]_vars, NEW s \in Streams, told'[s] # told[s], IInv
  PROVE  Writing(s)
<1>1. CASE \E t \in Streams : EndWrite(t)
  BY <1>1 DEF EndWrite, Writing, IInv, TypeOK
<1>2. told' = told \/ \E t \in Streams : EndWrite(t)
  BY DEF Next, vars, Commit, Read, Frame, PassOn, FeedEnds, Capture, Serve, Subscribes, JoinFeed,
         OpenFeed, Subscribe, ReadSnapshot, Register, Admit, Subscribed, RefusedSubscription,
         StartWrite, Take, Leave, GiveUp, CloseOld, Fails, Invalidate, Invalidation,
         InvalidateFeed, InvalidateCancel, InvalidateRetire, InvalidateReturns
<1>3. QED
  BY <1>1, <1>2

\* A change of authority that has returned has drained every writer of an earlier generation.
THEOREM SilentAfterwards == Spec => SilentOnceInvalidated
<1>1. ASSUME IInv, [Next]_vars, NEW s \in Streams, told'[s] # told[s], invalidator.pc = "none"
      PROVE  stream[s].generation = generation
  <2>1. Writing(s)
    BY <1>1, OnlyEndWriteTells
  <2>2. invalidator.todo = {} /\ invalidator.at = None /\ s # None
    BY <1>1, FeedAssumption DEF IInv, Owners
  <2>3. QED
    BY <1>1, <2>1, <2>2 DEF IInv, Listed
<1>2. IInv /\ [Next]_vars =>
        [\A s \in Streams : told'[s] # told[s] /\ invalidator.pc = "none"
           => stream[s].generation = generation]_vars
  BY <1>1
<1>3. QED
  BY <1>2, Inductive, PTL DEF Spec, SilentOnceInvalidated

-----------------------------------------------------------------------------
(* The refinement                                                           *)

LEMMA SamePhases ==
  ASSUME UNCHANGED <<head, told>>, \A s \in Streams : Phase(s)' = Phase(s)
  PROVE  UNCHANGED Client!vars
BY DEF Client!vars

LEMMA StreamPhases ==
  ASSUME IInv, NEW s \in Streams, NEW new, stream' = [stream EXCEPT ![s] = new],
         UNCHANGED <<head, told>>, new.greeted = stream[s].greeted,
         new.pc = "ended" <=> stream[s].pc = "ended"
  PROVE  UNCHANGED Client!vars
<1>1. \A t \in Streams : stream'[t] = IF t = s THEN new ELSE stream[t]
  BY DEF IInv, TypeOK
<1>2. \A t \in Streams : Phase(t)' = Phase(t)
  BY <1>1 DEF Phase
<1>3. QED
  BY <1>2, SamePhases

LEMMA CutOffPhases ==
  ASSUME IInv, NEW F \in SUBSET Feeds, UNCHANGED <<head, told>>,
         \A s \in Streams : stream'[s].pc = CutOff(F)[s].pc /\ stream'[s].greeted = CutOff(F)[s].greeted
  PROVE  UNCHANGED Client!vars
<1>1. \A s \in Streams : stream'[s].pc = stream[s].pc /\ stream'[s].greeted = stream[s].greeted
  BY CutOffStreams DEF IInv
<1>2. \A s \in Streams : Phase(s)' = Phase(s)
  BY <1>1 DEF Phase
<1>3. QED
  BY <1>2, SamePhases

LEMMA ServesClient ==
  ASSUME IInv, NEW s \in Streams,
         Capture(s) \/ Fails(s) \/ Subscribes(s) \/ StartWrite(s) \/ Take(s)
  PROVE  UNCHANGED Client!vars
<1>1. /\ UNCHANGED <<head, told>> /\ stream \in [Streams -> StreamType]
      /\ stream[s] \in StreamType /\ stream[s].pc # "ended"
  BY DEF IInv, TypeOK, Capture, Fails, Subscribes, JoinFeed, OpenFeed, Subscribe, ReadSnapshot, Register,
         Admit, Subscribed, RefusedSubscription, StartWrite, Take, Serving, Subscribing
<1>2. PICK new : stream' = [stream EXCEPT ![s] = new] /\ new.greeted = stream[s].greeted
                 /\ new.pc # "ended"
  BY <1>1
     DEF Capture, Fails, Subscribes, JoinFeed, OpenFeed, Subscribe, ReadSnapshot, Register, Admit, Subscribed,
         RefusedSubscription, StartWrite, Take, Step, StreamType
<1>3. QED
  BY <1>1, <1>2, StreamPhases

LEMMA EndWriteTells ==
  ASSUME IInv, NEW s \in Streams, EndWrite(s)
  PROVE  Client!Tell(s)
<1>1. /\ stream[s].pc = "writing" /\ stream'[s].pc = "waiting" /\ stream'[s].greeted
      /\ UNCHANGED head /\ told' = [told EXCEPT ![s] = stream[s].latest]
      /\ \A t \in Streams \ {s} : stream'[t] = stream[t]
  BY DEF EndWrite, Step, IInv, TypeOK, StreamType
<1>2. told \in [Streams -> [Lanes -> Nat]] /\ stream[s].latest \in [Lanes -> Nat]
  BY DEF IInv, TypeOK, StreamType, Cursor
<1>3. /\ Phase(s) = (IF stream[s].greeted THEN "open" ELSE "before") /\ Phase(s)' = "open"
      /\ \A t \in Streams \ {s} : Phase(t)' = Phase(t)
  BY <1>1 DEF Phase
<1>4. AtLeast(head, stream[s].latest) /\ AtLeast(stream[s].latest, told[s])
      /\ (stream[s].greeted => stream[s].latest # told[s])
  BY <1>1 DEF IInv, Telling, Synced
<1> DEFINE phase == [t \in Streams |-> Phase(t)]
<1>5. phase' = [phase EXCEPT ![s] = "open"]
  BY <1>3
<1>6. phase[s] \in {"before", "open"} /\ (phase[s] = "open" => stream[s].greeted)
  BY <1>3
<1>7. \A l \in Lanes : told[s][l] <= told'[s][l] /\ told'[s][l] <= head[l]
  BY <1>1, <1>2, <1>4 DEF AtLeast
<1>8. QED
  BY <1>1, <1>2, <1>4, <1>5, <1>6, <1>7 DEF Client!Tell

LEMMA EndsClient ==
  ASSUME IInv, NEW s \in Streams, Leave(s) \/ GiveUp(s)
  PROVE  Client!End(s)
<1>1. PICK old : stream' = [stream EXCEPT ![s] = [NewStream EXCEPT !.pc = "ended", !.old = old]]
  BY DEF Leave, GiveUp
<1>2. UNCHANGED <<head, told>> /\ stream[s].pc # "ended" /\ stream \in [Streams -> StreamType]
  BY DEF Leave, GiveUp, IInv, TypeOK
<1>3. /\ stream'[s].pc = "ended" /\ ~stream'[s].greeted
      /\ \A t \in Streams \ {s} : stream'[t] = stream[t]
  BY <1>1, <1>2 DEF NewStream
<1>4. /\ Phase(s) # "ended" /\ Phase(s)' = "ended"
      /\ \A t \in Streams \ {s} : Phase(t)' = Phase(t)
  BY <1>2, <1>3 DEF Phase
<1> DEFINE phase == [t \in Streams |-> Phase(t)]
<1>5. phase' = [phase EXCEPT ![s] = "ended"] /\ phase[s] # "ended"
  BY <1>4
<1>6. QED
  BY <1>2, <1>5 DEF Client!End

LEMMA CommitsClient ==
  ASSUME NEW l \in Lanes, Commit(l)
  PROVE  Client!Commit(l)
<1>1. head' = [head EXCEPT ![l] = @ + 1] /\ UNCHANGED <<stream, told>>
  BY DEF Commit
<1>2. [s \in Streams |-> Phase(s)]' = [s \in Streams |-> Phase(s)]
  BY <1>1 DEF Phase
<1>3. QED
  BY <1>1, <1>2 DEF Client!Commit

LEMMA CloseOldClient ==
  ASSUME IInv, NEW s \in Streams, CloseOld(s)
  PROVE  UNCHANGED Client!vars
<1>1. PICK old \in Feeds : old = stream[s].old
  BY DEF CloseOld, IInv, TypeOK, StreamType
<1> DEFINE cut == CutOff({old})
<1>2. stream' = [cut EXCEPT ![s].old = None] /\ UNCHANGED <<head, told>>
  BY <1>1 DEF CloseOld
<1>3. cut \in [Streams -> StreamType] /\ {old} \in SUBSET Feeds
  BY CutOffStreams DEF IInv
<1>4. \A t \in Streams : stream'[t].pc = cut[t].pc /\ stream'[t].greeted = cut[t].greeted
  BY <1>2, <1>3 DEF StreamType
<1>5. QED
  BY <1>2, <1>3, <1>4, CutOffPhases

LEMMA InvalidationClient ==
  ASSUME IInv, Invalidate \/ Invalidation
  PROVE  UNCHANGED Client!vars
<1>1. CASE InvalidateFeed
  <2>1. PICK old \in Feeds : old = invalidator.old
    BY <1>1 DEF InvalidateFeed, IInv, TypeOK, InvalidatorType
  <2>2. stream' = CutOff({old}) /\ UNCHANGED <<head, told>> /\ {old} \in SUBSET Feeds
    BY <1>1, <2>1 DEF InvalidateFeed
  <2>3. QED
    BY <2>2, CutOffPhases
<1>2. CASE InvalidateCancel
  <2>1. PICK s \in Streams : stream' = [stream EXCEPT ![s].closed = stream[s].pc # "ended", ![s].sub = Closed(@)]
    BY <1>2 DEF InvalidateCancel, IInv, TypeOK, InvalidatorType
  <2>2. UNCHANGED <<head, told>> /\ stream \in [Streams -> StreamType]
    BY <1>2 DEF InvalidateCancel, IInv, TypeOK
  <2>3. \A t \in Streams : stream'[t].pc = stream[t].pc /\ stream'[t].greeted = stream[t].greeted
    BY <2>1, <2>2 DEF StreamType
  <2>4. \A t \in Streams : Phase(t)' = Phase(t)
    BY <2>3 DEF Phase
  <2>5. QED
    BY <2>2, <2>4, SamePhases
<1>3. CASE Invalidate \/ InvalidateRetire \/ InvalidateReturns
  <2>1. UNCHANGED <<head, told, stream>>
    BY <1>3 DEF Invalidate, InvalidateRetire, InvalidateReturns
  <2>2. \A t \in Streams : Phase(t)' = Phase(t)
    BY <2>1 DEF Phase
  <2>3. QED
    BY <2>1, <2>2, SamePhases
<1>4. QED
  BY <1>1, <1>2, <1>3 DEF Invalidation

LEMMA FeedsClient ==
  ASSUME IInv, NEW f \in Feeds, Read(f) \/ FeedEnds(f)
  PROVE  UNCHANGED Client!vars
<1>1. UNCHANGED <<head, told>> /\ stream \in [Streams -> StreamType] /\ {f} \in SUBSET Feeds
  BY DEF Read, Frame, PassOn, FeedEnds, IInv, TypeOK
<1>2. CASE Frame(f)
  <2>1. \A t \in Streams : Phase(t)' = Phase(t)
    BY <1>2 DEF Frame, Phase
  <2>2. QED
    BY <1>1, <2>1, SamePhases
<1>3. CASE PassOn(f)
  <2>1. PICK l : stream' = [s \in Streams |->
                   IF stream[s].of = f
                   THEN [stream[s] EXCEPT !.sub = Published(@, l, feed[f].heard[l])]
                   ELSE stream[s]]
    BY <1>3 DEF PassOn
  <2>2. \A t \in Streams : stream'[t].pc = stream[t].pc /\ stream'[t].greeted = stream[t].greeted
    BY <1>1, <2>1 DEF StreamType
  <2>3. \A t \in Streams : Phase(t)' = Phase(t)
    BY <2>2 DEF Phase
  <2>4. QED
    BY <1>1, <2>3, SamePhases
<1>4. CASE FeedEnds(f)
  BY <1>1, <1>4, CutOffPhases DEF FeedEnds
<1>5. QED
  BY <1>2, <1>3, <1>4 DEF Read

LEMMA StepsClient == ASSUME IInv, [Next]_vars PROVE [Client!Next]_(Client!vars)
<1>1. CASE UNCHANGED vars
  <2>1. UNCHANGED <<head, told>> /\ \A s \in Streams : Phase(s)' = Phase(s)
    BY <1>1 DEF vars, Phase
  <2>2. QED
    BY <2>1, SamePhases
<1>2. CASE \E l \in Lanes : Commit(l)
  BY <1>2, CommitsClient DEF Client!Next
<1>3. CASE \E f \in Feeds : Read(f) \/ FeedEnds(f)
  BY <1>3, FeedsClient
<1>4. CASE \E s \in Streams : Capture(s) \/ Serve(s) \/ Fails(s)
  <2>1. PICK s \in Streams : Capture(s) \/ Serve(s) \/ Fails(s)
    BY <1>4
  <2>2. CASE Capture(s) \/ Fails(s) \/ Subscribes(s) \/ StartWrite(s) \/ Take(s)
    BY <2>2, ServesClient
  <2>3. CASE EndWrite(s)
    BY <2>3, EndWriteTells DEF Client!Next
  <2>4. CASE Leave(s) \/ GiveUp(s)
    BY <2>4, EndsClient DEF Client!Next
  <2>5. CASE CloseOld(s)
    BY <2>5, CloseOldClient
  <2>6. QED
    BY <2>1, <2>2, <2>3, <2>4, <2>5 DEF Serve
<1>5. CASE Invalidate \/ Invalidation
  BY <1>5, InvalidationClient
<1>6. QED
  BY <1>1, <1>2, <1>3, <1>4, <1>5 DEF Next

\* The streams a member server relays keep the promise the streams of the hub keep, for
\* any number of streams, feeds and changes of authority.
THEOREM Refinement == Spec => ImplementsHintStream
<1>1. Init => Client!Init
  <2>1. ASSUME Init PROVE \A s \in Streams : Phase(s) = "before"
    BY <2>1 DEF Init, NewStream, Phase
  <2>2. QED
    BY <2>1 DEF Init, Zero, Client!Init
<1>2. IInv /\ [Next]_vars => [Client!Next]_(Client!vars)
  BY StepsClient
<1>3. QED
  BY <1>1, <1>2, Inductive, PTL DEF Spec, ImplementsHintStream, Client!Safety

=============================================================================
