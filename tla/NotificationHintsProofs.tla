---------------------- MODULE NotificationHintsProofs ----------------------
(* Proofs about NotificationHints, for any number of streams of the peer    *)
(* and any bounds.                                                          *)
EXTENDS NotificationHints, FiniteSetTheorems, TLAPS

-----------------------------------------------------------------------------
(* The invariant                                                            *)

Change == [lane : Lanes, of : Nat, seq : Nat \cup {Unknown}]

Places == {"none", "credential", "notified", "fenced", "collecting", "closing", "waiting",
           "draining", "returned", "closed"}

Walk == [pc : Places, todo : SUBSET Streams, at : Streams \cup {None}]

\* What TypeOK says of these variables without their shape.
Shape ==
  /\ outbox \subseteq Change
  /\ revoker \in Walk /\ closer \in Walk

\* The epoch is even while the hub is open, so that there is room to reopen.
Turns ==
  /\ admission.closed <=> closer.pc # "none"
  /\ closer.pc = "none" => \E k \in Nat : admission.epoch = 2 * k
  /\ closer.pc # "none" => \E k \in Nat : admission.epoch = 2 * k + 1

\* A thread has a subscription when it has subscribed, and from its seed on
\* that knows every lane.
Seen(s) ==
  /\ stream[s].pc \in {"idle", "known", "noted", "reserved"} => ~stream[s].sub.open
  /\ stream[s].pc \in {"seeded", "registered", "ready", "checked", "writing", "waiting"}
     /\ stream[s].sub.open => stream[s].sub.latest \in Cursor

\* A stream that writes is in the registry, and whom a closing thread is about to
\* retire has come as far as the registry.
Registered(s) ==
  /\ stream[s].pc \in {"reserved", "subscribed", "read", "seeded"} => stream[s].slot = "token"
  /\ Writing(s) => stream[s].slot = "lease"
  /\ stream[s].slot = "lease" \/ s \in revoker.todo \cup closer.todo \/ s \in {revoker.at, closer.at}
       => stream[s].pc \in {"registered", "ready", "checked", "writing", "waiting", "ending", "ended"}

\* While the revocation waits for the ordinary requests nobody has a place in the
\* registry, and after it nobody gets further than a place.
Barred(s) ==
  /\ revoker.pc = "draining" => stream[s].slot = "none"
  /\ revoker.pc = "returned" =>
       stream[s].slot = "none" \/ (stream[s].slot = "token" /\ stream[s].pc \in {"reserved", "ending"})

\* Who still writes while the hub closes is on the list of the closing thread, and
\* nobody does when it has closed.
Counted(s) ==
  Writing(s) =>
    /\ closer.pc = "none" => stream[s].epoch = admission.epoch
    /\ closer.pc = "closing" => s \in closer.todo \/ s = closer.at
    /\ closer.pc # "closed"

IInv ==
  /\ TypeOK /\ Shape /\ Turns
  /\ \A s \in Streams : Seen(s) /\ Registered(s) /\ Barred(s) /\ Counted(s)

-----------------------------------------------------------------------------
(* Subscriptions                                                            *)

LEMMA PublishedKeeps ==
  ASSUME NEW sub \in Subscription, NEW l \in Lanes, NEW seq \in Nat
  PROVE  /\ Published(sub, l, seq) \in Subscription
         /\ Published(sub, l, seq).open = sub.open
         /\ sub.latest \in Cursor => Published(sub, l, seq).latest \in Cursor
BY DEF Published, Subscription, Cursor, Unknown

LEMMA SeededKeeps ==
  ASSUME NEW sub \in Subscription, NEW c \in Cursor
  PROVE  /\ Seeded(sub, c) \in Subscription /\ Seeded(sub, c).open = sub.open
         /\ Seeded(sub, c).latest \in Cursor
<1> DEFINE both == [l \in Lanes |-> Later(sub.latest[l], c[l])]
<1>1. both \in Cursor
  BY DEF Subscription, Cursor, Later, Unknown
<1>2. both \in [Lanes -> Nat \cup {Unknown}]
  BY <1>1 DEF Cursor
<1> HIDE DEF both
<1>3. Seeded(sub, c) = [sub EXCEPT !.latest = both, !.seeded = TRUE,
                          !.pending = \E l \in Lanes : sub.latest[l] > c[l]]
  BY DEF Seeded, both
<1>4. QED
  BY <1>1, <1>2, <1>3 DEF Subscription

LEMMA FreshSubscription ==
  /\ NewSubscription \in Subscription /\ NewSubscription.open
  /\ NoSubscription \in Subscription /\ ~NoSubscription.open
BY DEF Subscription, NewSubscription, NoSubscription, Unknown

-----------------------------------------------------------------------------
(* What several actions have in common                                      *)

\* As long as no subscription opens or closes the count stands.
LEMMA SameCount ==
  ASSUME count = Cardinality(OpenSubs), count' = count,
         \A s \in Streams : stream'[s].sub.open = stream[s].sub.open
  PROVE  count' = Cardinality(OpenSubs')
<1>1. OpenSubs' = OpenSubs
  BY DEF OpenSubs
<1>2. QED
  BY <1>1

LEMMA LessOpen ==
  ASSUME NEW S
  PROVE  Cardinality(OpenSubs \ S) = Cardinality(OpenSubs) - Cardinality(S \cap OpenSubs)
<1>1. IsFiniteSet(OpenSubs) /\ OpenSubs \cap S = S \cap OpenSubs
  BY FS_Subset, HintsAssumption DEF OpenSubs
<1>2. QED
  BY <1>1, FS_Difference

LEMMA CancelAllKeeps ==
  ASSUME TypeOK, NEW S \in SUBSET Streams, CancelAll(S)
  PROVE  /\ stream' \in [Streams -> StreamType] /\ count' = Cardinality(OpenSubs')
         /\ \A s \in Streams :
              /\ stream'[s].pc = stream[s].pc /\ stream'[s].slot = stream[s].slot
              /\ stream'[s].epoch = stream[s].epoch
              /\ stream'[s].latest = stream[s].latest /\ stream'[s].greeted = stream[s].greeted
              /\ stream'[s].sub = stream[s].sub \/ ~stream'[s].sub.open
<1>0. /\ stream \in [Streams -> StreamType] /\ count = Cardinality(OpenSubs)
      /\ stream' = [s \in Streams |->
                      IF s \in S
                      THEN [stream[s] EXCEPT !.closed = TRUE, !.sub = NoSubscription]
                      ELSE stream[s]]
      /\ count' = count - Cardinality(S \cap OpenSubs)
  <2>1. \A s \in Streams : stream[s] \in StreamType
    BY DEF TypeOK
  <2>2. \A s \in Streams : [stream[s] EXCEPT !.closed = TRUE, !.sub = Closed(@)]
                           = [stream[s] EXCEPT !.closed = TRUE, !.sub = NoSubscription]
    BY <2>1 DEF Closed, StreamType
  <2>3. QED
    BY <2>2 DEF TypeOK, CancelAll
<1>1. stream' \in [Streams -> StreamType]
  <2>1. ASSUME NEW s \in Streams
        PROVE  [stream[s] EXCEPT !.closed = TRUE, !.sub = NoSubscription] \in StreamType
    BY <1>0, FreshSubscription DEF StreamType
  <2>2. ASSUME NEW s \in Streams PROVE stream[s] \in StreamType
    BY <1>0
  <2>3. QED
    BY <1>0, <2>1, <2>2
<1>2. \A s \in Streams :
        /\ stream'[s].pc = stream[s].pc /\ stream'[s].slot = stream[s].slot
        /\ stream'[s].epoch = stream[s].epoch
        /\ stream'[s].latest = stream[s].latest /\ stream'[s].greeted = stream[s].greeted
        /\ stream'[s].sub = IF s \in S THEN NoSubscription ELSE stream[s].sub
  BY <1>0 DEF StreamType
<1>3. \A s \in Streams : stream'[s].sub.open <=> s \notin S /\ stream[s].sub.open
  BY <1>2, FreshSubscription
<1>4. OpenSubs' = OpenSubs \ S
  BY <1>3 DEF OpenSubs
<1>5. count' = Cardinality(OpenSubs')
  BY <1>0, <1>4, LessOpen
<1>6. QED
  BY <1>1, <1>2, <1>5, FreshSubscription

\* The thread of one stream goes on, and nothing else changes but what it has told.
LEMMA StreamMoves ==
  ASSUME IInv, NEW s \in Streams, NEW new \in StreamType,
         stream' = [stream EXCEPT ![s] = new],
         UNCHANGED <<head, outbox, revoker, closer, admission, request>>,
         told' \in [Streams -> Cursor], count' = Cardinality(OpenSubs'),
         Seen(s)', Registered(s)', Barred(s)', Counted(s)'
  PROVE  IInv'
<1>1. stream' \in [Streams -> StreamType] /\ \A t \in Streams \ {s} : stream'[t] = stream[t]
  BY DEF IInv, TypeOK
<1>2. TypeOK' /\ Shape' /\ Turns'
  BY <1>1 DEF IInv, TypeOK, Shape, Turns
<1>3. \A t \in Streams \ {s} : Seen(t)' /\ Registered(t)' /\ Barred(t)' /\ Counted(t)'
  BY <1>1 DEF IInv, Seen, Registered, Barred, Counted, Writing
<1>4. QED
  BY <1>2, <1>3 DEF IInv

-----------------------------------------------------------------------------
(* The thread of a stream                                                   *)

LEMMA AuthenticateKeeps == ASSUME IInv, NEW s \in Streams, Authenticate(s) PROVE IInv'
<1> DEFINE new == [stream[s] EXCEPT !.pc = "known"]
<1>1. stream[s] \in StreamType /\ stream \in [Streams -> StreamType]
  BY DEF IInv, TypeOK
<1>2. new \in StreamType
  BY <1>1 DEF StreamType, Steps
<1>3. stream' = [stream EXCEPT ![s] = new]
  BY <1>1 DEF Authenticate, Step, StreamType
<1>4. count' = Cardinality(OpenSubs')
  <2>1. new.sub.open = stream[s].sub.open
    BY <1>1 DEF StreamType
  <2>2. \A t \in Streams : stream'[t].sub.open = stream[t].sub.open
    BY <1>1, <1>3, <2>1
  <2>3. QED
    BY <2>2, SameCount DEF Authenticate, IInv, TypeOK
<1>5. /\ new.pc = "known"
      /\ new.epoch = stream[s].epoch /\ new.slot = stream[s].slot /\ new.sub = stream[s].sub
  BY <1>1 DEF StreamType
<1> HIDE DEF new
<1>6. Seen(s)' /\ Registered(s)' /\ Barred(s)' /\ Counted(s)'
  BY <1>1, <1>3, <1>5 DEF Authenticate, IInv, Seen, Registered, Barred, Counted, Writing
<1>7. UNCHANGED <<head, outbox, revoker, closer, admission, request>> /\ told' \in [Streams -> Cursor]
  BY <1>1 DEF Authenticate, IInv, TypeOK
<1>8. QED
  BY <1>2, <1>3, <1>4, <1>6, <1>7, StreamMoves

LEMMA NoteEpochKeeps == ASSUME IInv, NEW s \in Streams, NoteEpoch(s) PROVE IInv'
<1> DEFINE new == [stream[s] EXCEPT !.pc = "noted", !.epoch = admission.epoch]
<1>1. stream[s] \in StreamType /\ stream \in [Streams -> StreamType] /\ admission.epoch \in Nat
  BY DEF IInv, TypeOK
<1>2. new \in StreamType
  BY <1>1 DEF StreamType, Steps
<1>3. stream' = [stream EXCEPT ![s] = new]
  BY <1>1 DEF NoteEpoch, Step, StreamType
<1>4. count' = Cardinality(OpenSubs')
  <2>1. new.sub.open = stream[s].sub.open
    BY <1>1 DEF StreamType
  <2>2. \A t \in Streams : stream'[t].sub.open = stream[t].sub.open
    BY <1>1, <1>3, <2>1
  <2>3. QED
    BY <2>2, SameCount DEF NoteEpoch, IInv, TypeOK
<1>5. /\ new.pc = "noted"
      /\ new.epoch = admission.epoch /\ new.slot = stream[s].slot /\ new.sub = stream[s].sub
  BY <1>1 DEF StreamType
<1> HIDE DEF new
<1>6. Seen(s)' /\ Registered(s)' /\ Barred(s)' /\ Counted(s)'
  BY <1>1, <1>3, <1>5 DEF NoteEpoch, IInv, Seen, Registered, Barred, Counted, Writing
<1>7. UNCHANGED <<head, outbox, revoker, closer, admission, request>> /\ told' \in [Streams -> Cursor]
  BY <1>1 DEF NoteEpoch, IInv, TypeOK
<1>8. QED
  BY <1>2, <1>3, <1>4, <1>6, <1>7, StreamMoves

LEMMA ReserveKeeps == ASSUME IInv, NEW s \in Streams, Reserve(s) PROVE IInv'
<1> DEFINE new == [stream[s] EXCEPT !.pc = "reserved", !.slot = "token"]
<1>1. stream[s] \in StreamType /\ stream \in [Streams -> StreamType]
  BY DEF IInv, TypeOK
<1>2. new \in StreamType
  BY <1>1 DEF StreamType, Steps
<1>3. stream' = [stream EXCEPT ![s] = new]
  BY <1>1 DEF Reserve, Step, StreamType
<1>4. count' = Cardinality(OpenSubs')
  <2>1. new.sub.open = stream[s].sub.open
    BY <1>1 DEF StreamType
  <2>2. \A t \in Streams : stream'[t].sub.open = stream[t].sub.open
    BY <1>1, <1>3, <2>1
  <2>3. QED
    BY <2>2, SameCount DEF Reserve, IInv, TypeOK
<1>5. /\ new.pc = "reserved" /\ new.slot = "token"
      /\ new.epoch = stream[s].epoch /\ new.sub = stream[s].sub
  BY <1>1 DEF StreamType
<1> HIDE DEF new
<1>6. Seen(s)' /\ Registered(s)' /\ Barred(s)' /\ Counted(s)'
  BY <1>1, <1>3, <1>5 DEF Reserve, IInv, Seen, Registered, Barred, Counted, Writing, Fenced
<1>7. UNCHANGED <<head, outbox, revoker, closer, admission, request>> /\ told' \in [Streams -> Cursor]
  BY <1>1 DEF Reserve, IInv, TypeOK
<1>8. QED
  BY <1>2, <1>3, <1>4, <1>6, <1>7, StreamMoves

LEMMA SubscribeKeeps == ASSUME IInv, NEW s \in Streams, Subscribe(s) PROVE IInv'
<1> DEFINE new == [stream[s] EXCEPT !.pc = "subscribed", !.sub = NewSubscription]
<1>1. stream[s] \in StreamType /\ stream \in [Streams -> StreamType]
  BY DEF IInv, TypeOK
<1>2. new \in StreamType
  BY <1>1, FreshSubscription DEF StreamType, Steps
<1>3. stream' = [stream EXCEPT ![s] = new]
  BY <1>1 DEF Subscribe, Step, StreamType
<1>4. count' = Cardinality(OpenSubs')
  <2>1. ~stream[s].sub.open
    BY DEF IInv, Seen, Subscribe
  <2>2. \A t \in Streams : stream'[t].sub.open <=> t = s \/ stream[t].sub.open
    BY <1>1, <1>3, FreshSubscription DEF StreamType
  <2>3. OpenSubs' = OpenSubs \cup {s}
    BY <2>2 DEF OpenSubs
  <2>4. IsFiniteSet(OpenSubs) /\ s \notin OpenSubs
    BY <2>1, FS_Subset, HintsAssumption DEF OpenSubs
  <2>5. QED
    BY <2>3, <2>4, FS_AddElement DEF Subscribe, IInv, TypeOK
<1>5. /\ new.pc = "subscribed" /\ new.sub = NewSubscription /\ new.slot = stream[s].slot
      /\ new.epoch = stream[s].epoch
  BY <1>1 DEF StreamType
<1> HIDE DEF new
<1>6. Seen(s)' /\ Registered(s)' /\ Barred(s)' /\ Counted(s)'
  BY <1>1, <1>3, <1>5, FreshSubscription DEF Subscribe, IInv, Seen, Registered, Barred, Counted, Writing, Member
<1>7. UNCHANGED <<head, outbox, revoker, closer, admission, request>> /\ told' \in [Streams -> Cursor]
  BY <1>1 DEF Subscribe, IInv, TypeOK
<1>8. QED
  BY <1>2, <1>3, <1>4, <1>6, <1>7, StreamMoves

LEMMA ReadSnapshotKeeps == ASSUME IInv, NEW s \in Streams, ReadSnapshot(s) PROVE IInv'
<1> DEFINE new == [stream[s] EXCEPT !.pc = "read", !.latest = head]
<1>1. stream[s] \in StreamType /\ stream \in [Streams -> StreamType] /\ head \in Cursor
  BY DEF IInv, TypeOK
<1>2. new \in StreamType
  BY <1>1 DEF StreamType, Steps
<1>3. stream' = [stream EXCEPT ![s] = new]
  BY <1>1 DEF ReadSnapshot, Step, StreamType
<1>4. count' = Cardinality(OpenSubs')
  <2>1. new.sub.open = stream[s].sub.open
    BY <1>1 DEF StreamType
  <2>2. \A t \in Streams : stream'[t].sub.open = stream[t].sub.open
    BY <1>1, <1>3, <2>1
  <2>3. QED
    BY <2>2, SameCount DEF ReadSnapshot, IInv, TypeOK
<1>5. /\ new.pc = "read" /\ new.slot = stream[s].slot
      /\ new.epoch = stream[s].epoch /\ new.sub = stream[s].sub
  BY <1>1 DEF StreamType
<1> HIDE DEF new
<1>6. Seen(s)' /\ Registered(s)' /\ Barred(s)' /\ Counted(s)'
  BY <1>1, <1>3, <1>5 DEF ReadSnapshot, IInv, Seen, Registered, Barred, Counted, Writing, Member
<1>7. UNCHANGED <<head, outbox, revoker, closer, admission, request>> /\ told' \in [Streams -> Cursor]
  BY <1>1 DEF ReadSnapshot, IInv, TypeOK
<1>8. QED
  BY <1>2, <1>3, <1>4, <1>6, <1>7, StreamMoves

LEMMA SeedKeeps == ASSUME IInv, NEW s \in Streams, Seed(s) PROVE IInv'
<1> DEFINE new == [stream[s] EXCEPT !.pc = "seeded", !.sub = Seeded(stream[s].sub, stream[s].latest)]
<1>1. stream[s] \in StreamType /\ stream \in [Streams -> StreamType]
  BY DEF IInv, TypeOK
<1>0. /\ Seeded(stream[s].sub, stream[s].latest) \in Subscription
      /\ Seeded(stream[s].sub, stream[s].latest).open = stream[s].sub.open
      /\ Seeded(stream[s].sub, stream[s].latest).latest \in Cursor
  BY <1>1, SeededKeeps DEF StreamType
<1>2. new \in StreamType
  BY <1>1, <1>0 DEF StreamType, Steps
<1>3. stream' = [stream EXCEPT ![s] = new]
  BY <1>1 DEF Seed, Step, StreamType
<1>4. count' = Cardinality(OpenSubs')
  <2>1. new.sub.open = stream[s].sub.open
    BY <1>1, <1>0 DEF StreamType
  <2>2. \A t \in Streams : stream'[t].sub.open = stream[t].sub.open
    BY <1>1, <1>3, <2>1
  <2>3. QED
    BY <2>2, SameCount DEF Seed, IInv, TypeOK
<1>5. /\ new.pc = "seeded" /\ new.sub = Seeded(stream[s].sub, stream[s].latest) /\ new.slot = stream[s].slot
      /\ new.epoch = stream[s].epoch
  BY <1>1 DEF StreamType
<1> HIDE DEF new
<1>6. Seen(s)' /\ Registered(s)' /\ Barred(s)' /\ Counted(s)'
  BY <1>1, <1>3, <1>5, <1>0 DEF Seed, IInv, Seen, Registered, Barred, Counted, Writing
<1>7. UNCHANGED <<head, outbox, revoker, closer, admission, request>> /\ told' \in [Streams -> Cursor]
  BY <1>1 DEF Seed, IInv, TypeOK
<1>8. QED
  BY <1>2, <1>3, <1>4, <1>6, <1>7, StreamMoves

LEMMA RegisterKeeps == ASSUME IInv, NEW s \in Streams, Register(s) PROVE IInv'
<1> DEFINE new == [stream[s] EXCEPT !.pc = "registered", !.slot = "lease"]
<1>1. stream[s] \in StreamType /\ stream \in [Streams -> StreamType]
  BY DEF IInv, TypeOK
<1>2. new \in StreamType
  BY <1>1 DEF StreamType, Steps
<1>3. stream' = [stream EXCEPT ![s] = new]
  BY <1>1 DEF Register, Step, StreamType
<1>4. count' = Cardinality(OpenSubs')
  <2>1. new.sub.open = stream[s].sub.open
    BY <1>1 DEF StreamType
  <2>2. \A t \in Streams : stream'[t].sub.open = stream[t].sub.open
    BY <1>1, <1>3, <2>1
  <2>3. QED
    BY <2>2, SameCount DEF Register, IInv, TypeOK
<1>5. /\ new.pc = "registered" /\ new.slot = "lease"
      /\ new.epoch = stream[s].epoch /\ new.sub = stream[s].sub
  BY <1>1 DEF StreamType
<1> HIDE DEF new
<1>6. Seen(s)' /\ Registered(s)' /\ Barred(s)' /\ Counted(s)'
  BY <1>1, <1>3, <1>5 DEF Register, IInv, Seen, Registered, Barred, Counted, Writing
<1>7. UNCHANGED <<head, outbox, revoker, closer, admission, request>> /\ told' \in [Streams -> Cursor]
  BY <1>1 DEF Register, IInv, TypeOK
<1>8. QED
  BY <1>2, <1>3, <1>4, <1>6, <1>7, StreamMoves

LEMMA AdmitKeeps == ASSUME IInv, NEW s \in Streams, Admit(s) PROVE IInv'
<1> DEFINE new == [stream[s] EXCEPT !.pc = "ready"]
<1>1. stream[s] \in StreamType /\ stream \in [Streams -> StreamType]
  BY DEF IInv, TypeOK
<1>2. new \in StreamType
  BY <1>1 DEF StreamType, Steps
<1>3. stream' = [stream EXCEPT ![s] = new]
  BY <1>1 DEF Admit, Step, StreamType
<1>4. count' = Cardinality(OpenSubs')
  <2>1. new.sub.open = stream[s].sub.open
    BY <1>1 DEF StreamType
  <2>2. \A t \in Streams : stream'[t].sub.open = stream[t].sub.open
    BY <1>1, <1>3, <2>1
  <2>3. QED
    BY <2>2, SameCount DEF Admit, IInv, TypeOK
<1>5. /\ new.pc = "ready" /\ new.slot = stream[s].slot
      /\ new.epoch = stream[s].epoch /\ new.sub = stream[s].sub
  BY <1>1 DEF StreamType
<1> HIDE DEF new
<1>6. Seen(s)' /\ Registered(s)' /\ Barred(s)' /\ Counted(s)'
  BY <1>1, <1>3, <1>5 DEF Admit, IInv, Seen, Registered, Barred, Counted, Writing, Authorized
<1>7. UNCHANGED <<head, outbox, revoker, closer, admission, request>> /\ told' \in [Streams -> Cursor]
  BY <1>1 DEF Admit, IInv, TypeOK
<1>8. QED
  BY <1>2, <1>3, <1>4, <1>6, <1>7, StreamMoves

LEMMA CheckAuthorityKeeps == ASSUME IInv, NEW s \in Streams, CheckAuthority(s) PROVE IInv'
<1> DEFINE new == [stream[s] EXCEPT !.pc = "checked"]
<1>1. stream[s] \in StreamType /\ stream \in [Streams -> StreamType]
  BY DEF IInv, TypeOK
<1>2. new \in StreamType
  BY <1>1 DEF StreamType, Steps
<1>3. stream' = [stream EXCEPT ![s] = new]
  BY <1>1 DEF CheckAuthority, Step, StreamType
<1>4. count' = Cardinality(OpenSubs')
  <2>1. new.sub.open = stream[s].sub.open
    BY <1>1 DEF StreamType
  <2>2. \A t \in Streams : stream'[t].sub.open = stream[t].sub.open
    BY <1>1, <1>3, <2>1
  <2>3. QED
    BY <2>2, SameCount DEF CheckAuthority, IInv, TypeOK
<1>5. /\ new.pc = "checked" /\ new.slot = stream[s].slot
      /\ new.epoch = stream[s].epoch /\ new.sub = stream[s].sub
  BY <1>1 DEF StreamType
<1> HIDE DEF new
<1>6. Seen(s)' /\ Registered(s)' /\ Barred(s)' /\ Counted(s)'
  BY <1>1, <1>3, <1>5 DEF CheckAuthority, IInv, Seen, Registered, Barred, Counted, Writing, Authorized, Admitted, Member, Turns
<1>7. UNCHANGED <<head, outbox, revoker, closer, admission, request>> /\ told' \in [Streams -> Cursor]
  BY <1>1 DEF CheckAuthority, IInv, TypeOK
<1>8. QED
  BY <1>2, <1>3, <1>4, <1>6, <1>7, StreamMoves

LEMMA StartWriteKeeps == ASSUME IInv, NEW s \in Streams, StartWrite(s) PROVE IInv'
<1> DEFINE new == [stream[s] EXCEPT !.pc = "writing"]
<1>1. stream[s] \in StreamType /\ stream \in [Streams -> StreamType]
  BY DEF IInv, TypeOK
<1>2. new \in StreamType
  BY <1>1 DEF StreamType, Steps
<1>3. stream' = [stream EXCEPT ![s] = new]
  BY <1>1 DEF StartWrite, Step, StreamType
<1>4. count' = Cardinality(OpenSubs')
  <2>1. new.sub.open = stream[s].sub.open
    BY <1>1 DEF StreamType
  <2>2. \A t \in Streams : stream'[t].sub.open = stream[t].sub.open
    BY <1>1, <1>3, <2>1
  <2>3. QED
    BY <2>2, SameCount DEF StartWrite, IInv, TypeOK
<1>5. /\ new.pc = "writing" /\ new.slot = stream[s].slot
      /\ new.epoch = stream[s].epoch /\ new.sub = stream[s].sub
  BY <1>1 DEF StreamType
<1> HIDE DEF new
<1>6. Seen(s)' /\ Registered(s)' /\ Barred(s)' /\ Counted(s)'
  BY <1>1, <1>3, <1>5 DEF StartWrite, IInv, Seen, Registered, Barred, Counted, Writing
<1>7. UNCHANGED <<head, outbox, revoker, closer, admission, request>> /\ told' \in [Streams -> Cursor]
  BY <1>1 DEF StartWrite, IInv, TypeOK
<1>8. QED
  BY <1>2, <1>3, <1>4, <1>6, <1>7, StreamMoves

LEMMA EndWriteKeeps == ASSUME IInv, NEW s \in Streams, EndWrite(s) PROVE IInv'
<1> DEFINE new == [stream[s] EXCEPT !.pc = "waiting", !.greeted = TRUE]
<1>1. stream[s] \in StreamType /\ stream \in [Streams -> StreamType]
  BY DEF IInv, TypeOK
<1>2. new \in StreamType
  BY <1>1 DEF StreamType, Steps
<1>3. stream' = [stream EXCEPT ![s] = new]
  BY <1>1 DEF EndWrite, Step, StreamType
<1>4. count' = Cardinality(OpenSubs')
  <2>1. new.sub.open = stream[s].sub.open
    BY <1>1 DEF StreamType
  <2>2. \A t \in Streams : stream'[t].sub.open = stream[t].sub.open
    BY <1>1, <1>3, <2>1
  <2>3. QED
    BY <2>2, SameCount DEF EndWrite, IInv, TypeOK
<1>5. /\ new.pc = "waiting" /\ new.slot = stream[s].slot
      /\ new.epoch = stream[s].epoch /\ new.sub = stream[s].sub
  BY <1>1 DEF StreamType
<1> HIDE DEF new
<1>6. Seen(s)' /\ Registered(s)' /\ Barred(s)' /\ Counted(s)'
  BY <1>1, <1>3, <1>5 DEF EndWrite, IInv, Seen, Registered, Barred, Counted, Writing
<1>7. UNCHANGED <<head, outbox, revoker, closer, admission, request>> /\ told' \in [Streams -> Cursor]
  BY <1>1 DEF EndWrite, IInv, TypeOK, StreamType
<1>8. QED
  BY <1>2, <1>3, <1>4, <1>6, <1>7, StreamMoves

LEMMA TakeKeeps == ASSUME IInv, NEW s \in Streams, Take(s) PROVE IInv'
<1> DEFINE sub == stream[s].sub
           quiet == Taken(sub)
           new == IF sub.latest = stream[s].latest
                  THEN [stream[s] EXCEPT !.sub = quiet]
                  ELSE [stream[s] EXCEPT !.pc = "ready", !.sub = quiet, !.latest = sub.latest]
<1>1. /\ stream[s] \in StreamType /\ stream \in [Streams -> StreamType]
      /\ sub \in Subscription /\ sub.latest \in Cursor
  BY DEF IInv, TypeOK, StreamType, Seen, Take
<1>2. quiet \in Subscription /\ quiet.open = sub.open /\ quiet.latest = sub.latest
  BY <1>1 DEF Taken, Subscription
<1>3. stream' = [stream EXCEPT ![s] = new]
  BY <1>1 DEF Take, Step, StreamType
<1> HIDE DEF quiet
<1>4. new \in StreamType
  BY <1>1, <1>2 DEF StreamType, Steps
<1>5. /\ new.pc \in {"ready", "waiting"} /\ new.slot = stream[s].slot
      /\ new.epoch = stream[s].epoch /\ new.sub = quiet
  BY <1>1 DEF StreamType, Take
<1> HIDE DEF new
<1>6. count' = Cardinality(OpenSubs')
  <2>1. \A t \in Streams : stream'[t].sub.open = stream[t].sub.open
    BY <1>1, <1>2, <1>3, <1>5
  <2>2. QED
    BY <2>1, SameCount DEF Take, IInv, TypeOK
<1>7. Seen(s)' /\ Registered(s)' /\ Barred(s)' /\ Counted(s)'
  BY <1>1, <1>2, <1>3, <1>5 DEF Take, IInv, Seen, Registered, Barred, Counted, Writing
<1>8. UNCHANGED <<head, outbox, revoker, closer, admission, request>> /\ told' \in [Streams -> Cursor]
  BY DEF Take, IInv, TypeOK
<1>9. QED
  BY <1>3, <1>4, <1>6, <1>7, <1>8, StreamMoves

LEMMA FailsKeeps == ASSUME IInv, NEW s \in Streams, Fails(s) PROVE IInv'
<1> DEFINE new == [stream[s] EXCEPT !.pc = "ending"]
<1>1. stream[s] \in StreamType /\ stream \in [Streams -> StreamType]
  BY DEF IInv, TypeOK
<1>2. new \in StreamType
  BY <1>1 DEF StreamType, Steps
<1>3. stream' = [stream EXCEPT ![s] = new]
  BY <1>1 DEF Fails, Step, StreamType
<1>4. count' = Cardinality(OpenSubs')
  <2>1. new.sub.open = stream[s].sub.open
    BY <1>1 DEF StreamType
  <2>2. \A t \in Streams : stream'[t].sub.open = stream[t].sub.open
    BY <1>1, <1>3, <2>1
  <2>3. QED
    BY <2>2, SameCount DEF Fails, IInv, TypeOK
<1>5. /\ new.pc = "ending" /\ new.slot = stream[s].slot
      /\ new.epoch = stream[s].epoch /\ new.sub = stream[s].sub
  BY <1>1 DEF StreamType
<1> HIDE DEF new
<1>6. Seen(s)' /\ Registered(s)' /\ Barred(s)' /\ Counted(s)'
  BY <1>1, <1>3, <1>5 DEF Fails, IInv, Seen, Registered, Barred, Counted, Writing
<1>7. UNCHANGED <<head, outbox, revoker, closer, admission, request>> /\ told' \in [Streams -> Cursor]
  BY <1>1 DEF Fails, IInv, TypeOK
<1>8. QED
  BY <1>2, <1>3, <1>4, <1>6, <1>7, StreamMoves

LEMMA EndsKeeps == ASSUME IInv, NEW s \in Streams, Ends(s) PROVE IInv'
<1> DEFINE new == [NewStream EXCEPT !.pc = "ended"]
<1>1. stream' = [stream EXCEPT ![s] = new]
  BY DEF Ends
<1>2. /\ new \in StreamType /\ ~new.sub.open
      /\ new.pc = "ended" /\ new.slot = "none"
  BY FreshSubscription DEF StreamType, Steps, NewStream, Zero, Cursor
<1> HIDE DEF new
<1>3. count' = Cardinality(OpenSubs')
  <2>1. \A t \in Streams : stream'[t].sub.open <=> t \notin {s} /\ stream[t].sub.open
    BY <1>1, <1>2 DEF IInv, TypeOK
  <2>2. OpenSubs' = OpenSubs \ {s}
    BY <2>1 DEF OpenSubs
  <2>3. QED
    BY <2>2, LessOpen DEF Ends, IInv, TypeOK
<1>4. Seen(s)' /\ Registered(s)' /\ Barred(s)' /\ Counted(s)'
  BY <1>1, <1>2 DEF Ends, IInv, TypeOK, Seen, Registered, Barred, Counted, Writing
<1>5. UNCHANGED <<head, outbox, revoker, closer, admission, request>> /\ told' \in [Streams -> Cursor]
  BY DEF Ends, IInv, TypeOK
<1>6. QED
  BY <1>1, <1>2, <1>3, <1>4, <1>5, StreamMoves

-----------------------------------------------------------------------------
(* Commits and publications                                                 *)

\* The other steps leave every thread where it is.
LEMMA ThreadsStay ==
  ASSUME IInv, TypeOK', Shape', UNCHANGED <<revoker, closer, admission>>,
         \A s \in Streams :
           /\ stream'[s].pc = stream[s].pc /\ stream'[s].slot = stream[s].slot
           /\ stream'[s].epoch = stream[s].epoch
           /\ stream'[s].sub.open => stream[s].sub.open
           /\ stream'[s].sub.open /\ stream[s].sub.latest \in Cursor
                => stream'[s].sub.latest \in Cursor
  PROVE  IInv'
<1>1. Turns'
  BY DEF IInv, Turns
<1>2. \A s \in Streams : Seen(s)' /\ Registered(s)' /\ Barred(s)' /\ Counted(s)'
  BY DEF IInv, Seen, Registered, Barred, Counted, Writing
<1>3. QED
  BY <1>1, <1>2 DEF IInv

LEMMA CommitKeeps == ASSUME IInv, NEW l \in Lanes, Commit(l) PROVE IInv'
<1>1. /\ head' \in Cursor /\ \A k \in Lanes : head'[k] <= MaxHead[k] /\ head[k] <= head'[k]
      /\ head'[l] = head[l] + 1 /\ head'[l] \in Nat
  <2>1. head \in [Lanes -> Nat] /\ MaxHead \in [Lanes -> Nat] /\ \A k \in Lanes : head[k] <= MaxHead[k]
    BY HintsAssumption DEF IInv, TypeOK, Cursor
  <2>2. head' = [head EXCEPT ![l] = @ + 1] /\ head[l] < MaxHead[l]
    BY DEF Commit
  <2>3. QED
    BY <2>1, <2>2 DEF Cursor
<1> DEFINE new == [lane |-> l, of |-> head[l] + 1,
                   seq |-> IF l = "mail" THEN head[l] + 1 ELSE Unknown]
<1>2. new \in Change /\ new.of \in 1 .. head'[l] /\ (new.seq = Unknown \/ new.seq \in new.of .. head'[l])
  BY <1>1 DEF Change, IInv, TypeOK, Cursor
<1>3. outbox' = outbox \cup {new} /\ new.lane = l
  BY DEF Commit
<1> HIDE DEF new
<1>4. \A p \in outbox' :
        /\ p \in Change /\ p.of \in 1 .. head'[p.lane]
        /\ p.seq = Unknown \/ p.seq \in p.of .. head'[p.lane]
  BY <1>1, <1>2, <1>3 DEF IInv, TypeOK, Shape, Change, Cursor, Unknown
<1>5. OpenSubs' = OpenSubs
  BY DEF Commit, OpenSubs
<1>6. TypeOK' /\ Shape'
  BY <1>1, <1>4, <1>5 DEF Commit, IInv, TypeOK, Shape, Change
<1>7. QED
  BY <1>6, ThreadsStay DEF Commit

LEMMA ReadHeadKeeps == ASSUME IInv, NEW p \in outbox, ReadHead(p) PROVE IInv'
<1> DEFINE new == [p EXCEPT !.seq = head[p.lane]]
<1>1. /\ new \in Change /\ new.lane = p.lane
      /\ new.of \in 1 .. head[p.lane] /\ new.seq \in new.of .. head[p.lane]
  BY DEF IInv, TypeOK, Shape, Change, Cursor
<1>2. outbox' = (outbox \ {p}) \cup {new}
  BY DEF ReadHead
<1> HIDE DEF new
<1>3. OpenSubs' = OpenSubs
  BY DEF ReadHead, OpenSubs
<1>4. TypeOK' /\ Shape'
  BY <1>1, <1>2, <1>3 DEF ReadHead, IInv, TypeOK, Shape, Change
<1>5. QED
  BY <1>4, ThreadsStay DEF ReadHead

LEMMA PublishKeeps == ASSUME IInv, NEW p \in outbox, Publish(p) PROVE IInv'
<1> DEFINE sub(s) == Published(stream[s].sub, p.lane, p.seq)
<1>1. p.lane \in Lanes /\ p.seq \in Nat
  BY DEF Publish, IInv, Shape, Change
<1>2. \A s \in Streams :
        /\ stream[s] \in StreamType /\ sub(s) \in Subscription
        /\ sub(s).open = stream[s].sub.open
        /\ stream[s].sub.latest \in Cursor => sub(s).latest \in Cursor
  BY <1>1, PublishedKeeps DEF IInv, TypeOK, StreamType
<1>3. stream' = [s \in Streams |-> [stream[s] EXCEPT !.sub = sub(s)]]
  BY <1>2 DEF Publish
<1> HIDE DEF sub
<1>4. stream' \in [Streams -> StreamType]
  BY <1>2, <1>3 DEF StreamType
<1>5. \A s \in Streams :
        /\ stream'[s].pc = stream[s].pc /\ stream'[s].slot = stream[s].slot
        /\ stream'[s].epoch = stream[s].epoch /\ stream'[s].sub = sub(s)
  BY <1>2, <1>3 DEF StreamType
<1>6. count' = Cardinality(OpenSubs')
  BY <1>2, <1>5, SameCount DEF Publish, IInv, TypeOK
<1>7. TypeOK' /\ Shape'
  BY <1>4, <1>6 DEF Publish, IInv, TypeOK, Shape
<1>8. QED
  BY <1>2, <1>5, <1>7, ThreadsStay DEF Publish

LEMMA PublicationFailsKeeps == ASSUME IInv, NEW p \in outbox, PublicationFails(p) PROVE IInv'
<1>1. \A s \in Streams : stream[s] \in StreamType
  BY DEF IInv, TypeOK
<1>2. stream' = [s \in Streams |-> [stream[s] EXCEPT !.sub = NoSubscription]]
  BY <1>1 DEF PublicationFails, Closed
<1>3. stream' \in [Streams -> StreamType]
  BY <1>1, <1>2, FreshSubscription DEF StreamType
<1>4. \A s \in Streams :
        /\ stream'[s].pc = stream[s].pc /\ stream'[s].slot = stream[s].slot
        /\ stream'[s].epoch = stream[s].epoch /\ ~stream'[s].sub.open
  BY <1>1, <1>2, FreshSubscription DEF StreamType
<1>5. count' = Cardinality(OpenSubs')
  <2>1. OpenSubs' = OpenSubs \ OpenSubs
    BY <1>4 DEF OpenSubs
  <2>2. QED
    BY <2>1, LessOpen DEF PublicationFails, IInv, TypeOK
<1>6. TypeOK' /\ Shape'
  BY <1>3, <1>5 DEF PublicationFails, IInv, TypeOK, Shape
<1>7. QED
  BY <1>4, <1>6, ThreadsStay DEF PublicationFails

LEMMA RequestKeeps ==
  ASSUME IInv, NEW r \in Requests, EnterRequest(r) \/ EnterOperation(r) \/ Answer(r)
  PROVE  IInv'
<1>1. /\ \E w \in {"none", "entered", "served", "counted"} : request' = [request EXCEPT ![r] = w]
      /\ UNCHANGED <<head, outbox, count, stream, told, revoker, closer, admission>>
  BY DEF Answer, EnterRequest, EnterOperation, AdmitRequest, ReleaseRequest, LeaveRequest
<1>2. OpenSubs' = OpenSubs
  BY <1>1 DEF OpenSubs
<1>3. TypeOK' /\ Shape'
  BY <1>1, <1>2 DEF IInv, TypeOK, Shape
<1>4. QED
  BY <1>1, <1>3, ThreadsStay

-----------------------------------------------------------------------------
(* Revocation and maintenance                                               *)

\* Some steps only advance the closing thread itself.

LEMMA RevokeCredentialKeeps == ASSUME IInv, RevokeCredential PROVE IInv'
<1>1. /\ revoker'.pc = "credential" /\ revoker'.todo = revoker.todo /\ revoker'.at = revoker.at
      /\ revoker' \in Walk
  BY DEF RevokeCredential, IInv, Shape, Walk, Places
<1>2. OpenSubs' = OpenSubs
  BY DEF RevokeCredential, OpenSubs
<1>3. UNCHANGED admission
  BY DEF RevokeCredential
<1>4. Turns'
  BY <1>1, <1>3 DEF RevokeCredential, IInv, Turns
<1>5. TypeOK' /\ Shape'
  BY <1>1, <1>2, <1>3 DEF RevokeCredential, IInv, TypeOK, Shape, Walk, OpenSubs
<1>6. \A s \in Streams : Seen(s)' /\ Registered(s)' /\ Barred(s)' /\ Counted(s)'
  BY <1>1, <1>2, <1>3 DEF RevokeCredential, IInv, TypeOK, StreamType, Turns, Seen, Registered, Barred, Counted, Writing
<1>7. QED
  BY <1>4, <1>5, <1>6 DEF IInv

LEMMA RevokeFenceKeeps == ASSUME IInv, RevokeFence PROVE IInv'
<1>1. /\ revoker'.pc = "fenced" /\ revoker'.todo = revoker.todo /\ revoker'.at = revoker.at
      /\ revoker' \in Walk
  BY DEF RevokeFence, IInv, Shape, Walk, Places
<1>2. OpenSubs' = OpenSubs
  BY DEF RevokeFence, OpenSubs
<1>3. UNCHANGED admission
  BY DEF RevokeFence
<1>4. Turns'
  BY <1>1, <1>3 DEF RevokeFence, IInv, Turns
<1>5. TypeOK' /\ Shape'
  BY <1>1, <1>2, <1>3 DEF RevokeFence, IInv, TypeOK, Shape, Walk, OpenSubs
<1>6. \A s \in Streams : Seen(s)' /\ Registered(s)' /\ Barred(s)' /\ Counted(s)'
  BY <1>1, <1>2, <1>3 DEF RevokeFence, IInv, TypeOK, StreamType, Turns, Seen, Registered, Barred, Counted, Writing
<1>7. QED
  BY <1>4, <1>5, <1>6 DEF IInv

LEMMA RevokeCollectKeeps == ASSUME IInv, RevokeCollect PROVE IInv'
<1>1. /\ revoker'.pc = "closing" /\ revoker'.todo = Leases /\ revoker'.at = revoker.at
      /\ revoker' \in Walk
  BY DEF RevokeCollect, IInv, Shape, Walk, Places, Leases
<1>2. OpenSubs' = OpenSubs
  BY DEF RevokeCollect, OpenSubs
<1>3. UNCHANGED admission
  BY DEF RevokeCollect
<1>4. Turns'
  BY <1>1, <1>3 DEF RevokeCollect, IInv, Turns
<1>5. TypeOK' /\ Shape'
  BY <1>1, <1>2, <1>3 DEF RevokeCollect, IInv, TypeOK, Shape, Walk, OpenSubs
<1>6. \A s \in Streams : Seen(s)' /\ Registered(s)' /\ Barred(s)' /\ Counted(s)'
  BY <1>1, <1>2, <1>3 DEF RevokeCollect, IInv, TypeOK, StreamType, Turns, Seen, Registered, Barred, Counted, Writing, Leases
<1>7. QED
  BY <1>4, <1>5, <1>6 DEF IInv

LEMMA RevokeWaitKeeps == ASSUME IInv, RevokeWait PROVE IInv'
<1>1. /\ revoker'.pc = "waiting" /\ revoker'.todo = revoker.todo /\ revoker'.at = revoker.at
      /\ revoker' \in Walk
  BY DEF RevokeWait, IInv, Shape, Walk, Places
<1>2. OpenSubs' = OpenSubs
  BY DEF RevokeWait, OpenSubs
<1>3. UNCHANGED admission
  BY DEF RevokeWait
<1>4. Turns'
  BY <1>1, <1>3 DEF RevokeWait, IInv, Turns
<1>5. TypeOK' /\ Shape'
  BY <1>1, <1>2, <1>3 DEF RevokeWait, IInv, TypeOK, Shape, Walk, OpenSubs
<1>6. \A s \in Streams : Seen(s)' /\ Registered(s)' /\ Barred(s)' /\ Counted(s)'
  BY <1>1, <1>2, <1>3 DEF RevokeWait, IInv, TypeOK, StreamType, Turns, Seen, Registered, Barred, Counted, Writing
<1>7. QED
  BY <1>4, <1>5, <1>6 DEF IInv

LEMMA RevokeDrainKeeps == ASSUME IInv, RevokeDrain PROVE IInv'
<1>1. /\ revoker'.pc = "draining" /\ revoker'.todo = revoker.todo /\ revoker'.at = revoker.at
      /\ revoker' \in Walk
  BY DEF RevokeDrain, IInv, Shape, Walk, Places
<1>2. OpenSubs' = OpenSubs
  BY DEF RevokeDrain, OpenSubs
<1>3. UNCHANGED admission
  BY DEF RevokeDrain
<1>4. Turns'
  BY <1>1, <1>3 DEF RevokeDrain, IInv, Turns
<1>5. TypeOK' /\ Shape'
  BY <1>1, <1>2, <1>3 DEF RevokeDrain, IInv, TypeOK, Shape, Walk, OpenSubs
<1>6. \A s \in Streams : Seen(s)' /\ Registered(s)' /\ Barred(s)' /\ Counted(s)'
  BY <1>1, <1>2, <1>3 DEF RevokeDrain, IInv, TypeOK, StreamType, Turns, Seen, Registered, Barred, Counted, Writing, Held
<1>7. QED
  BY <1>4, <1>5, <1>6 DEF IInv

LEMMA RevokeReturnsKeeps == ASSUME IInv, RevokeReturns PROVE IInv'
<1>1. /\ revoker'.pc = "returned" /\ revoker'.todo = revoker.todo /\ revoker'.at = revoker.at
      /\ revoker' \in Walk
  BY DEF RevokeReturns, IInv, Shape, Walk, Places
<1>2. OpenSubs' = OpenSubs
  BY DEF RevokeReturns, OpenSubs
<1>3. UNCHANGED admission
  BY DEF RevokeReturns
<1>4. Turns'
  BY <1>1, <1>3 DEF RevokeReturns, IInv, Turns
<1>5. TypeOK' /\ Shape'
  BY <1>1, <1>2, <1>3 DEF RevokeReturns, IInv, TypeOK, Shape, Walk, OpenSubs
<1>6. \A s \in Streams : Seen(s)' /\ Registered(s)' /\ Barred(s)' /\ Counted(s)'
  BY <1>1, <1>2, <1>3 DEF RevokeReturns, IInv, TypeOK, StreamType, Turns, Seen, Registered, Barred, Counted, Writing
<1>7. QED
  BY <1>4, <1>5, <1>6 DEF IInv

LEMMA CloseAdmissionKeeps == ASSUME IInv, CloseAdmission PROVE IInv'
<1>1. /\ closer'.pc = "fenced" /\ closer'.todo = closer.todo /\ closer'.at = closer.at
      /\ closer' \in Walk
  BY DEF CloseAdmission, IInv, Shape, Walk, Places
<1>2. admission' = [epoch |-> admission.epoch + 1, closed |-> TRUE]
  BY DEF CloseAdmission
<1>3. admission'.epoch \in 0 .. 2 * MaxClosures
  BY <1>2, HintsAssumption DEF CloseAdmission, IInv, TypeOK, Turns
<1>4. Turns'
  BY <1>1, <1>2 DEF CloseAdmission, IInv, TypeOK, Turns
<1>5. TypeOK' /\ Shape'
  BY <1>1, <1>2, <1>3 DEF CloseAdmission, IInv, TypeOK, Shape, Walk, OpenSubs
<1>6. \A s \in Streams : Seen(s)' /\ Registered(s)' /\ Barred(s)' /\ Counted(s)'
  BY <1>1, <1>2, <1>3 DEF CloseAdmission, IInv, TypeOK, StreamType, Turns, Seen, Registered, Barred, Counted, Writing
<1>7. QED
  BY <1>4, <1>5, <1>6 DEF IInv

LEMMA CloseCollectKeeps == ASSUME IInv, CloseCollect PROVE IInv'
<1>1. /\ closer'.pc = "closing" /\ closer'.todo = Leases /\ closer'.at = closer.at
      /\ closer' \in Walk
  BY DEF CloseCollect, IInv, Shape, Walk, Places, Leases
<1>2. OpenSubs' = OpenSubs
  BY DEF CloseCollect, OpenSubs
<1>3. UNCHANGED admission
  BY DEF CloseCollect
<1>4. Turns'
  BY <1>1, <1>3 DEF CloseCollect, IInv, Turns
<1>5. TypeOK' /\ Shape'
  BY <1>1, <1>2, <1>3 DEF CloseCollect, IInv, TypeOK, Shape, Walk, OpenSubs
<1>6. \A s \in Streams : Seen(s)' /\ Registered(s)' /\ Barred(s)' /\ Counted(s)'
  BY <1>1, <1>2, <1>3 DEF CloseCollect, IInv, TypeOK, StreamType, Turns, Seen, Registered, Barred, Counted, Writing, Leases
<1>7. QED
  BY <1>4, <1>5, <1>6 DEF IInv

LEMMA CloseReturnsKeeps == ASSUME IInv, CloseReturns PROVE IInv'
<1>1. /\ closer'.pc = "closed" /\ closer'.todo = closer.todo /\ closer'.at = closer.at
      /\ closer' \in Walk
  BY DEF CloseReturns, IInv, Shape, Walk, Places
<1>2. OpenSubs' = OpenSubs
  BY DEF CloseReturns, OpenSubs
<1>3. UNCHANGED admission
  BY DEF CloseReturns
<1>4. Turns'
  BY <1>1, <1>3 DEF CloseReturns, IInv, Turns
<1>5. TypeOK' /\ Shape'
  BY <1>1, <1>2, <1>3 DEF CloseReturns, IInv, TypeOK, Shape, Walk, OpenSubs
<1>a. \A s \in Streams : ~Writing(s)
  BY HintsAssumption DEF CloseReturns, IInv, Counted
<1>6. \A s \in Streams : Seen(s)' /\ Registered(s)' /\ Barred(s)' /\ Counted(s)'
  BY <1>1, <1>2, <1>3, <1>a DEF CloseReturns, IInv, Seen, Registered, Barred, Counted, Writing
<1>7. QED
  BY <1>4, <1>5, <1>6 DEF IInv

LEMMA ReopenKeeps == ASSUME IInv, Reopen PROVE IInv'
<1>1. /\ closer'.pc = "none" /\ closer'.todo = closer.todo /\ closer'.at = closer.at
      /\ closer' \in Walk
  BY DEF Reopen, IInv, Shape, Walk, Places
<1>2. admission' = [epoch |-> admission.epoch + 1, closed |-> FALSE]
  BY DEF Reopen
<1>3. admission'.epoch \in 0 .. 2 * MaxClosures
  BY <1>2, HintsAssumption DEF Reopen, IInv, TypeOK, Turns
<1>4. Turns'
  <2>1. PICK k \in Nat : admission.epoch = 2 * k + 1
    BY DEF Reopen, IInv, Turns
  <2>2. k + 1 \in Nat /\ admission'.epoch = 2 * (k + 1)
    BY <1>2, <2>1
  <2>3. QED
    BY <1>1, <1>2, <2>2 DEF Turns
<1>5. TypeOK' /\ Shape'
  BY <1>1, <1>2, <1>3 DEF Reopen, IInv, TypeOK, Shape, Walk, OpenSubs
<1>6. \A s \in Streams : Seen(s)' /\ Registered(s)' /\ Barred(s)' /\ Counted(s)'
  BY <1>1, <1>2, <1>3 DEF Reopen, IInv, TypeOK, StreamType, Turns, Seen, Registered, Barred, Counted, Writing
<1>7. QED
  BY <1>4, <1>5, <1>6 DEF IInv

\* The others close subscriptions or take a stream out of the registry.

LEMMA NotifyRevokedKeeps == ASSUME IInv, NotifyRevoked PROVE IInv'
<1>1. CancelAll(Serving) /\ Serving \subseteq Streams
  BY DEF NotifyRevoked, AbortServed, Serving
<1> DEFINE S == Serving
<1>2. S \in SUBSET Streams /\ CancelAll(S)
  BY <1>1 DEF IInv, TypeOK
<1> HIDE DEF S
<1>3. /\ stream' \in [Streams -> StreamType] /\ count' = Cardinality(OpenSubs')
      /\ \A t \in Streams :
           /\ stream'[t].pc = stream[t].pc /\ stream'[t].slot = stream[t].slot
           /\ stream'[t].epoch = stream[t].epoch
           /\ stream'[t].sub = stream[t].sub \/ ~stream'[t].sub.open
  BY <1>2, CancelAllKeeps DEF IInv
<1>4. revoker'.pc = "notified" /\ revoker'.todo = revoker.todo /\ revoker'.at = revoker.at /\ revoker' \in Walk
  BY <1>1 DEF NotifyRevoked, IInv, TypeOK, Shape, Walk, Places
<1>5. TypeOK' /\ Shape'
  BY <1>3, <1>4 DEF NotifyRevoked, IInv, TypeOK, Shape, Walk
<1>6. Turns'
  BY <1>4 DEF NotifyRevoked, IInv, Turns
<1>7. \A t \in Streams : Seen(t)' /\ Registered(t)' /\ Barred(t)' /\ Counted(t)'
  BY <1>3, <1>4 DEF NotifyRevoked, IInv, Seen, Registered, Barred, Counted, Writing
<1>8. QED
  BY <1>5, <1>6, <1>7 DEF IInv

LEMMA RevokeCancelKeeps == ASSUME IInv, RevokeCancel PROVE IInv'
<1>1. PICK s \in revoker.todo : CancelAll({s}) /\ revoker' = [revoker EXCEPT !.at = s, !.todo = @ \ {s}]
  BY DEF RevokeCancel
<1> DEFINE S == {s}
<1>2. S \in SUBSET Streams /\ CancelAll(S)
  BY <1>1 DEF IInv, TypeOK
<1> HIDE DEF S
<1>3. /\ stream' \in [Streams -> StreamType] /\ count' = Cardinality(OpenSubs')
      /\ \A t \in Streams :
           /\ stream'[t].pc = stream[t].pc /\ stream'[t].slot = stream[t].slot
           /\ stream'[t].epoch = stream[t].epoch
           /\ stream'[t].sub = stream[t].sub \/ ~stream'[t].sub.open
  BY <1>2, CancelAllKeeps DEF IInv
<1>4. revoker'.pc = revoker.pc /\ revoker'.at = s /\ revoker'.todo = revoker.todo \ {s} /\ s \in revoker.todo /\ revoker.at = None /\ revoker' \in Walk
  BY <1>1 DEF RevokeCancel, IInv, TypeOK, Shape, Walk, Places
<1>5. TypeOK' /\ Shape'
  BY <1>3, <1>4 DEF RevokeCancel, IInv, TypeOK, Shape, Walk
<1>6. Turns'
  BY <1>4 DEF RevokeCancel, IInv, Turns
<1>7. \A t \in Streams : Seen(t)' /\ Registered(t)' /\ Barred(t)' /\ Counted(t)'
  BY <1>3, <1>4 DEF RevokeCancel, IInv, Seen, Registered, Barred, Counted, Writing
<1>8. QED
  BY <1>5, <1>6, <1>7 DEF IInv

LEMMA CloseGatewayKeeps == ASSUME IInv, CloseGateway PROVE IInv'
<1>1. CancelAll(Serving) /\ Serving \subseteq Streams
  BY DEF CloseGateway, AbortServed, Serving
<1> DEFINE S == Serving
<1>2. S \in SUBSET Streams /\ CancelAll(S)
  BY <1>1 DEF IInv, TypeOK
<1> HIDE DEF S
<1>3. /\ stream' \in [Streams -> StreamType] /\ count' = Cardinality(OpenSubs')
      /\ \A t \in Streams :
           /\ stream'[t].pc = stream[t].pc /\ stream'[t].slot = stream[t].slot
           /\ stream'[t].epoch = stream[t].epoch
           /\ stream'[t].sub = stream[t].sub \/ ~stream'[t].sub.open
  BY <1>2, CancelAllKeeps DEF IInv
<1>4. closer'.pc = "collecting" /\ closer'.todo = closer.todo /\ closer'.at = closer.at /\ closer' \in Walk
  BY <1>1 DEF CloseGateway, IInv, TypeOK, Shape, Walk, Places
<1>5. TypeOK' /\ Shape'
  BY <1>3, <1>4 DEF CloseGateway, IInv, TypeOK, Shape, Walk
<1>6. Turns'
  BY <1>4 DEF CloseGateway, IInv, Turns
<1>7. \A t \in Streams : Seen(t)' /\ Registered(t)' /\ Barred(t)' /\ Counted(t)'
  BY <1>3, <1>4 DEF CloseGateway, IInv, Seen, Registered, Barred, Counted, Writing
<1>8. QED
  BY <1>5, <1>6, <1>7 DEF IInv

LEMMA CloseCancelKeeps == ASSUME IInv, CloseCancel PROVE IInv'
<1>1. PICK s \in closer.todo : CancelAll({s}) /\ closer' = [closer EXCEPT !.at = s, !.todo = @ \ {s}]
  BY DEF CloseCancel
<1> DEFINE S == {s}
<1>2. S \in SUBSET Streams /\ CancelAll(S)
  BY <1>1 DEF IInv, TypeOK
<1> HIDE DEF S
<1>3. /\ stream' \in [Streams -> StreamType] /\ count' = Cardinality(OpenSubs')
      /\ \A t \in Streams :
           /\ stream'[t].pc = stream[t].pc /\ stream'[t].slot = stream[t].slot
           /\ stream'[t].epoch = stream[t].epoch
           /\ stream'[t].sub = stream[t].sub \/ ~stream'[t].sub.open
  BY <1>2, CancelAllKeeps DEF IInv
<1>4. closer'.pc = closer.pc /\ closer'.at = s /\ closer'.todo = closer.todo \ {s} /\ s \in closer.todo /\ closer.at = None /\ closer' \in Walk
  BY <1>1 DEF CloseCancel, IInv, TypeOK, Shape, Walk, Places
<1>5. TypeOK' /\ Shape'
  BY <1>3, <1>4 DEF CloseCancel, IInv, TypeOK, Shape, Walk
<1>6. Turns'
  BY <1>4 DEF CloseCancel, IInv, Turns
<1>7. \A t \in Streams : Seen(t)' /\ Registered(t)' /\ Barred(t)' /\ Counted(t)'
  BY <1>3, <1>4, HintsAssumption DEF CloseCancel, IInv, Seen, Registered, Barred, Counted, Writing
<1>8. QED
  BY <1>5, <1>6, <1>7 DEF IInv

LEMMA RevokeRetireKeeps == ASSUME IInv, RevokeRetire PROVE IInv'
<1>a. PICK s \in Streams : s = revoker.at
  BY DEF RevokeRetire, IInv, TypeOK
<1> DEFINE new == [stream[s] EXCEPT !.slot = "none"]
<1>1. stream[s] \in StreamType /\ ~Writing(s)
  BY <1>a DEF RevokeRetire, Drained, IInv, TypeOK
<1>2. /\ new \in StreamType /\ new.slot = "none" /\ new.pc = stream[s].pc
      /\ new.epoch = stream[s].epoch /\ new.sub = stream[s].sub
  BY <1>1 DEF StreamType
<1>3. stream' = [stream EXCEPT ![s] = new]
  BY <1>a DEF RevokeRetire, RetireAt, IInv, TypeOK
<1> HIDE DEF new
<1>4. stream' \in [Streams -> StreamType] /\ count' = Cardinality(OpenSubs')
  <2>1. stream' \in [Streams -> StreamType]
    BY <1>2, <1>3 DEF IInv, TypeOK
  <2>2. \A t \in Streams : stream'[t].sub.open = stream[t].sub.open
    BY <1>1, <1>2, <1>3 DEF IInv, TypeOK
  <2>3. QED
    BY <2>1, <2>2, SameCount DEF RevokeRetire, IInv, TypeOK
<1>5. TypeOK' /\ Shape'
  BY <1>4 DEF RevokeRetire, IInv, TypeOK, Shape, Walk
<1>6. Turns'
  BY DEF RevokeRetire, IInv, Shape, Walk, Turns
<1>7. /\ revoker'.pc = revoker.pc /\ revoker'.todo = revoker.todo /\ revoker'.at = None
      /\ stream'[s] = new /\ \A t \in Streams \ {s} : stream'[t] = stream[t]
  BY <1>1, <1>3 DEF RevokeRetire, IInv, TypeOK, Shape, Walk
<1>8. Seen(s)' /\ Registered(s)' /\ Barred(s)' /\ Counted(s)'
  BY <1>a, <1>1, <1>2, <1>7, HintsAssumption DEF RevokeRetire, IInv, Seen, Registered, Barred, Counted, Writing
<1>9. ASSUME NEW t \in Streams \ {s}
      PROVE  Seen(t)' /\ Registered(t)' /\ Barred(t)' /\ Counted(t)'
  BY <1>a, <1>7, <1>9, HintsAssumption DEF RevokeRetire, IInv, Seen, Registered, Barred, Counted, Writing
<1>10. QED
  BY <1>5, <1>6, <1>8, <1>9 DEF IInv

LEMMA CloseRetireKeeps == ASSUME IInv, CloseRetire PROVE IInv'
<1>a. PICK s \in Streams : s = closer.at
  BY DEF CloseRetire, IInv, TypeOK
<1> DEFINE new == [stream[s] EXCEPT !.slot = "none"]
<1>1. stream[s] \in StreamType /\ ~Writing(s)
  BY <1>a DEF CloseRetire, Drained, IInv, TypeOK
<1>2. /\ new \in StreamType /\ new.slot = "none" /\ new.pc = stream[s].pc
      /\ new.epoch = stream[s].epoch /\ new.sub = stream[s].sub
  BY <1>1 DEF StreamType
<1>3. stream' = [stream EXCEPT ![s] = new]
  BY <1>a DEF CloseRetire, RetireAt, IInv, TypeOK
<1> HIDE DEF new
<1>4. stream' \in [Streams -> StreamType] /\ count' = Cardinality(OpenSubs')
  <2>1. stream' \in [Streams -> StreamType]
    BY <1>2, <1>3 DEF IInv, TypeOK
  <2>2. \A t \in Streams : stream'[t].sub.open = stream[t].sub.open
    BY <1>1, <1>2, <1>3 DEF IInv, TypeOK
  <2>3. QED
    BY <2>1, <2>2, SameCount DEF CloseRetire, IInv, TypeOK
<1>5. TypeOK' /\ Shape'
  BY <1>4 DEF CloseRetire, IInv, TypeOK, Shape, Walk
<1>6. Turns'
  BY DEF CloseRetire, IInv, Shape, Walk, Turns
<1>7. /\ closer'.pc = closer.pc /\ closer'.todo = closer.todo /\ closer'.at = None
      /\ stream'[s] = new /\ \A t \in Streams \ {s} : stream'[t] = stream[t]
  BY <1>1, <1>3 DEF CloseRetire, IInv, TypeOK, Shape, Walk
<1>8. Seen(s)' /\ Registered(s)' /\ Barred(s)' /\ Counted(s)'
  BY <1>a, <1>1, <1>2, <1>7, HintsAssumption DEF CloseRetire, IInv, Seen, Registered, Barred, Counted, Writing
<1>9. ASSUME NEW t \in Streams \ {s}
      PROVE  Seen(t)' /\ Registered(t)' /\ Barred(t)' /\ Counted(t)'
  BY <1>a, <1>7, <1>9, HintsAssumption DEF CloseRetire, IInv, Seen, Registered, Barred, Counted, Writing
<1>10. QED
  BY <1>5, <1>6, <1>8, <1>9 DEF IInv

-----------------------------------------------------------------------------
(* The theorems                                                             *)

LEMMA InitInv == Init => IInv
<1> SUFFICES ASSUME Init PROVE IInv
  OBVIOUS
<1>1. Zero \in Cursor /\ NewStream \in StreamType /\ OpenSubs = {}
  BY FreshSubscription DEF Zero, Cursor, NewStream, StreamType, Steps, Init, OpenSubs
<1>2. TypeOK
  BY <1>1, HintsAssumption, FS_EmptySet DEF Init, TypeOK, Zero, Cursor
<1>3. Shape
  BY DEF Init, Shape, Walk, Places
<1>4. Turns
  BY DEF Init, Turns
<1>5. \A s \in Streams : Seen(s) /\ Registered(s) /\ Barred(s) /\ Counted(s)
  BY HintsAssumption, FreshSubscription
     DEF Init, NewStream, Seen, Registered, Barred, Counted, Writing
<1>6. QED
  BY <1>2, <1>3, <1>4, <1>5 DEF IInv

LEMMA NextKeeps == ASSUME IInv, [Next]_vars PROVE IInv'
<1>1. CASE \E l \in Lanes : Commit(l)
  BY <1>1, CommitKeeps
<1>2. CASE \E p \in outbox : Announce(p)
  BY <1>2, ReadHeadKeeps, PublishKeeps, PublicationFailsKeeps DEF Announce
<1>3. CASE \E s \in Streams : Authenticate(s) \/ Serve(s) \/ Fails(s)
  <2>1. PICK s \in Streams : Authenticate(s) \/ Serve(s) \/ Fails(s)
    BY <1>3
  <2>2. CASE NoteEpoch(s) \/ Reserve(s) \/ Subscribe(s) \/ ReadSnapshot(s) \/ Seed(s) \/ Register(s)
    BY <2>2, NoteEpochKeeps, ReserveKeeps, SubscribeKeeps, ReadSnapshotKeeps, SeedKeeps, RegisterKeeps
  <2>3. CASE Admit(s) \/ CheckAuthority(s) \/ StartWrite(s) \/ EndWrite(s) \/ Take(s) \/ Ends(s)
    BY <2>3, AdmitKeeps, CheckAuthorityKeeps, StartWriteKeeps, EndWriteKeeps, TakeKeeps, EndsKeeps
  <2>4. QED
    BY <2>1, <2>2, <2>3, AuthenticateKeeps, FailsKeeps DEF Serve
<1>4. CASE RevokeCredential \/ Revoke
  BY <1>4, RevokeCredentialKeeps, NotifyRevokedKeeps, RevokeFenceKeeps, RevokeCollectKeeps,
     RevokeCancelKeeps, RevokeRetireKeeps, RevokeWaitKeeps, RevokeDrainKeeps,
     RevokeReturnsKeeps DEF Revoke
<1>5. CASE CloseAdmission \/ Close \/ Reopen
  BY <1>5, CloseAdmissionKeeps, CloseGatewayKeeps, CloseCollectKeeps, CloseCancelKeeps,
     CloseRetireKeeps, CloseReturnsKeeps, ReopenKeeps DEF Close
<1>6. CASE UNCHANGED vars
  BY <1>6 DEF vars, IInv, TypeOK, StreamType, OpenSubs, Shape, Turns, Seen, Registered, Barred,
     Counted, Writing
<1>7. CASE \E r \in Requests : EnterRequest(r) \/ EnterOperation(r) \/ Answer(r)
  BY <1>7, RequestKeeps
<1>8. QED
  BY <1>1, <1>2, <1>3, <1>4, <1>5, <1>6, <1>7 DEF Next

LEMMA Inductive == Spec => []IInv
<1>1. QED
  BY InitInv, NextKeeps, PTL DEF Spec

\* Every reachable state has its type, and the count of the broker is that of the
\* open subscriptions, so its capacity is neither leaked nor given back twice.
THEOREM TypeCorrect == Spec => []TypeOK
<1>1. IInv => TypeOK
  BY DEF IInv
<1>2. QED
  BY <1>1, Inductive, PTL

\* When the call that ends an authority has returned, nothing is written under it
\* any more (revoke_peer, close_host_admission).
THEOREM SilentAfterwards == Spec => SilentOnceEnded
<1> DEFINE Silent == \A s \in Streams : told'[s] # told[s] =>
             /\ revoker.pc # "returned"
             /\ closer.pc \in {"closed", "none"} => stream[s].epoch = admission.epoch
<1>1. ASSUME IInv, [Next]_vars PROVE [Silent]_vars
  <2>1. SUFFICES ASSUME NEW s \in Streams, told'[s] # told[s]
                 PROVE  /\ revoker.pc # "returned"
                        /\ closer.pc \in {"closed", "none"} => stream[s].epoch = admission.epoch
    BY Zenon
  <2>2. stream[s].pc = "writing"
    BY <1>1, <2>1 DEF Next, vars, Commit, Announce, ReadHead, Publish, PublicationFails,
       Authenticate, Serve, NoteEpoch, Reserve, Subscribe, ReadSnapshot, Seed, Register, Admit,
       CheckAuthority, StartWrite, EndWrite, Take, Ends, Fails, RevokeCredential, Revoke,
       NotifyRevoked, RevokeFence, RevokeCollect, RevokeCancel, RevokeRetire, RevokeWait,
       RevokeDrain, RevokeReturns, EnterRequest, EnterOperation, Answer, AdmitRequest,
       ReleaseRequest, LeaveRequest, CloseAdmission, Close, CloseGateway, CloseCollect, CloseCancel,
       CloseRetire, CloseReturns, Reopen, IInv, TypeOK
  <2>3. QED
    BY <1>1, <2>2 DEF IInv, Registered, Barred, Counted, Writing
<1>2. QED
  BY <1>1, Inductive, PTL DEF Spec, SilentOnceEnded

-----------------------------------------------------------------------------
(* What a stream knows of the head                                          *)

Synced == {"seeded", "registered", "ready", "checked", "writing", "waiting"}

\* A change of lane l that is newer than n is still to be published, if there is one.
Upcoming(l, n) == n = head[l] \/ \E p \in outbox : p.lane = l /\ p.of = head[l]

\* What the thread is about to tell is committed, and newer than what it told before.
Telling(s) ==
  /\ stream[s].pc \in {"idle", "known", "noted", "reserved", "subscribed", "read", "seeded", "registered"}
       => ~stream[s].greeted /\ told[s] = Zero
  /\ stream[s].pc \in {"read"} \cup Synced =>
       AtLeast(head, stream[s].latest) /\ AtLeast(stream[s].latest, told[s])
  /\ stream[s].pc \in {"ready", "checked", "writing"} /\ stream[s].greeted
       => stream[s].latest # told[s]
  /\ stream[s].pc = "waiting" => stream[s].latest = told[s]

\* What an open subscription holds is behind the head only while a publication of
\* the head is under way, and the thread lacks nothing of it unless that is pending.
Reaching(s) ==
  stream[s].sub.open =>
    /\ \A l \in Lanes : stream[s].sub.latest[l] <= head[l]
    /\ stream[s].pc = "read" =>
         \A l \in Lanes : Upcoming(l, Later(stream[s].sub.latest[l], stream[s].latest[l]))
    /\ stream[s].pc \in Synced =>
         /\ \A l \in Lanes : /\ stream[s].latest[l] <= stream[s].sub.latest[l]
                             /\ Upcoming(l, stream[s].sub.latest[l])
         /\ ~stream[s].sub.pending => stream[s].latest = stream[s].sub.latest

Known == \A s \in Streams : Telling(s) /\ Reaching(s)

\* A step at which a stream neither learns nor tells anything; it may be cut off.
Onward(s) ==
  LET from == stream[s].pc
      to == stream'[s].pc
  IN /\ stream'[s].latest = stream[s].latest /\ stream'[s].greeted = stream[s].greeted
     /\ stream'[s].sub = stream[s].sub \/ ~stream'[s].sub.open
     /\ \/ to = from
        \/ to = "ending" /\ from # "ended"
        \/ from \in {"idle", "known", "noted", "reserved"} /\ to \in {"known", "noted", "reserved"}
        \/ from \in {"seeded", "registered"} /\ to \in {"registered", "ready"}
        \/ from \in {"ready", "checked", "writing"} /\ to \in {"ready", "checked", "writing"}

LEMMA OnwardKnown ==
  ASSUME Known, UNCHANGED <<head, outbox, told>>, \A s \in Streams : Onward(s)
  PROVE  Known'
<1> SUFFICES ASSUME NEW s \in Streams PROVE Telling(s)' /\ Reaching(s)'
  BY DEF Known
<1>1. Telling(s)'
  BY DEF Known, Onward, Telling, Synced, AtLeast
<1>2. Reaching(s)'
  BY DEF Known, Onward, Reaching, Synced, Upcoming
<1>3. QED
  BY <1>1, <1>2

\* The thread of one stream learns or tells something.
LEMMA OneKnown ==
  ASSUME Known, IInv, NEW s \in Streams, NEW new, stream' = [stream EXCEPT ![s] = new],
         UNCHANGED <<head, outbox>>, \A t \in Streams \ {s} : told'[t] = told[t],
         Telling(s)', Reaching(s)'
  PROVE  Known'
<1>1. \A t \in Streams \ {s} : stream'[t] = stream[t]
  BY DEF IInv, TypeOK
<1>2. \A t \in Streams \ {s} : Telling(t)' /\ Reaching(t)'
  BY <1>1 DEF Known, Telling, Reaching, AtLeast, Upcoming, Synced
<1>3. QED
  BY <1>2 DEF Known

LEMMA PassesOn ==
  ASSUME IInv, NEW s \in Streams,
         \/ Authenticate(s) \/ NoteEpoch(s) \/ Reserve(s) \/ Register(s) \/ Admit(s)
         \/ CheckAuthority(s) \/ StartWrite(s) \/ Fails(s)
  PROVE  UNCHANGED <<head, outbox, told>> /\ \A t \in Streams : Onward(t)
<1> USE DEF IInv, TypeOK, StreamType, Onward, Step
<1>1. CASE Authenticate(s) \/ NoteEpoch(s) \/ Reserve(s)
  BY <1>1 DEF Authenticate, NoteEpoch, Reserve
<1>2. CASE Register(s) \/ Admit(s)
  BY <1>2 DEF Register, Admit
<1>3. CASE CheckAuthority(s) \/ StartWrite(s) \/ Fails(s)
  BY <1>3 DEF CheckAuthority, StartWrite, Fails
<1>4. QED
  BY <1>1, <1>2, <1>3

LEMMA ClosesOn ==
  ASSUME IInv, RevokeCredential \/ Revoke \/ CloseAdmission \/ Close \/ Reopen
  PROVE  UNCHANGED <<head, outbox, told>> /\ \A t \in Streams : Onward(t)
<1>1. ASSUME NEW S \in SUBSET Streams, CancelAll(S) PROVE \A t \in Streams : Onward(t)
  BY <1>1, CancelAllKeeps DEF IInv, Onward
<1>2. ASSUME NEW s \in Streams, RetireAt(s) PROVE \A t \in Streams : Onward(t)
  BY <1>2 DEF RetireAt, IInv, TypeOK, StreamType, Onward
<1>3. ASSUME UNCHANGED stream PROVE \A t \in Streams : Onward(t)
  BY <1>3 DEF Onward
<1>4. CASE NotifyRevoked \/ CloseGateway
  <2>1. Serving \in SUBSET Streams
    BY DEF Serving
  <2>2. QED
    BY <1>1, <1>4, <2>1 DEF NotifyRevoked, CloseGateway, AbortServed
<1>5. CASE RevokeCancel \/ CloseCancel
  <2>1. revoker.todo \subseteq Streams /\ closer.todo \subseteq Streams
    BY DEF IInv, TypeOK
  <2>2. QED
    BY <1>1, <1>5, <2>1 DEF RevokeCancel, CloseCancel
<1>6. CASE RevokeRetire \/ CloseRetire
  BY <1>2, <1>6 DEF RevokeRetire, CloseRetire, IInv, TypeOK
<1>7. CASE \/ RevokeCredential \/ RevokeFence \/ RevokeCollect \/ RevokeWait \/ RevokeDrain
           \/ RevokeReturns
           \/ CloseAdmission \/ CloseCollect \/ CloseReturns \/ Reopen
  BY <1>3, <1>7 DEF RevokeCredential, RevokeFence, RevokeCollect, RevokeWait, RevokeDrain, RevokeReturns,
     CloseAdmission, CloseCollect, CloseReturns, Reopen
<1>8. QED
  BY <1>4, <1>5, <1>6, <1>7 DEF Revoke, Close

LEMMA RequestOn ==
  ASSUME NEW r \in Requests, EnterRequest(r) \/ EnterOperation(r) \/ Answer(r)
  PROVE  UNCHANGED <<head, outbox, told>> /\ \A t \in Streams : Onward(t)
BY DEF Answer, EnterRequest, EnterOperation, AdmitRequest, ReleaseRequest, LeaveRequest, Onward

LEMMA SubscribeKnown == ASSUME IInv, Known, NEW s \in Streams, Subscribe(s) PROVE Known'
<1>1. stream[s] \in StreamType /\ stream \in [Streams -> StreamType]
  BY DEF IInv, TypeOK
<1> DEFINE new == [stream[s] EXCEPT !.pc = "subscribed", !.sub = NewSubscription]
<1>2. stream' = [stream EXCEPT ![s] = new]
  BY <1>1 DEF Subscribe, Step, StreamType
<1>3. /\ new.pc = "subscribed" /\ new.sub = NewSubscription
      /\ new.latest = stream[s].latest /\ new.greeted = stream[s].greeted
  BY <1>1 DEF StreamType
<1> HIDE DEF new
<1>4. stream'[s] = new /\ UNCHANGED <<head, outbox, told>> /\ stream[s].pc = "reserved"
  BY <1>1, <1>2 DEF Subscribe
<1>5. Telling(s)'
  BY <1>3, <1>4 DEF Known, Telling, Synced
<1>6. Reaching(s)'
  <2>1. \A l \in Lanes : head[l] \in Nat
    BY DEF IInv, TypeOK, Cursor
  <2>2. QED
    BY <1>3, <1>4, <2>1 DEF Reaching, Synced, NewSubscription, Unknown
<1>7. QED
  BY <1>2, <1>4, <1>5, <1>6, OneKnown

LEMMA ReadSnapshotKnown == ASSUME IInv, Known, NEW s \in Streams, ReadSnapshot(s) PROVE Known'
<1>1. stream[s] \in StreamType /\ stream \in [Streams -> StreamType]
  BY DEF IInv, TypeOK
<1> DEFINE new == [stream[s] EXCEPT !.pc = "read", !.latest = head]
<1>2. stream' = [stream EXCEPT ![s] = new]
  BY <1>1 DEF ReadSnapshot, Step, StreamType
<1>3. /\ new.pc = "read" /\ new.latest = head
      /\ new.sub = stream[s].sub /\ new.greeted = stream[s].greeted
  BY <1>1 DEF StreamType
<1> HIDE DEF new
<1>4. stream'[s] = new /\ UNCHANGED <<head, outbox, told>> /\ stream[s].pc = "subscribed"
  BY <1>1, <1>2 DEF ReadSnapshot
<1>5. \A l \in Lanes : head[l] \in Nat
  BY DEF IInv, TypeOK, Cursor
<1>6. Telling(s)'
  BY <1>3, <1>4, <1>5 DEF Known, Telling, Synced, AtLeast, Zero
<1>7. Reaching(s)'
  <2>1. \A l \in Lanes : stream[s].sub.latest[l] \in Nat \cup {Unknown}
    BY <1>1 DEF StreamType, Subscription
  <2>2. QED
    BY <1>3, <1>4, <1>5, <2>1 DEF Known, Reaching, Synced, Upcoming, Later, Unknown
<1>8. QED
  BY <1>2, <1>4, <1>6, <1>7, OneKnown

LEMMA SeedKnown == ASSUME IInv, Known, NEW s \in Streams, Seed(s) PROVE Known'
<1>1. stream[s] \in StreamType /\ stream \in [Streams -> StreamType]
  BY DEF IInv, TypeOK
<1>0. PICK sub, c : sub = stream[s].sub /\ c = stream[s].latest
  OBVIOUS
<1> DEFINE new == [stream[s] EXCEPT !.pc = "seeded", !.sub = Seeded(sub, c)]
<1>2. stream' = [stream EXCEPT ![s] = new]
  BY <1>0, <1>1 DEF Seed, Step, StreamType
<1>3. /\ new.pc = "seeded" /\ new.sub = Seeded(sub, c)
      /\ new.latest = c /\ new.greeted = stream[s].greeted
  BY <1>0, <1>1 DEF StreamType
<1>4. /\ Seeded(sub, c).latest = [l \in Lanes |-> Later(sub.latest[l], c[l])]
      /\ Seeded(sub, c).pending = \E l \in Lanes : sub.latest[l] > c[l]
      /\ c \in [Lanes -> Nat] /\ \A l \in Lanes : sub.latest[l] \in Nat \cup {Unknown}
  BY <1>0, <1>1 DEF StreamType, Subscription, Seeded, Cursor
<1> HIDE DEF new
<1>5. stream'[s] = new /\ UNCHANGED <<head, outbox, told>> /\ stream[s].pc = "read" /\ sub.open
  BY <1>0, <1>1, <1>2 DEF Seed
<1>6. \A l \in Lanes : head[l] \in Nat
  BY DEF IInv, TypeOK, Cursor
<1>7. /\ AtLeast(head, c) /\ AtLeast(c, told[s]) /\ ~stream[s].greeted /\ told[s] = Zero
      /\ \A l \in Lanes : sub.latest[l] <= head[l] /\ Upcoming(l, Later(sub.latest[l], c[l]))
  BY <1>0, <1>5 DEF Known, Telling, Reaching, Synced
<1>8. Telling(s)'
  BY <1>3, <1>5, <1>7 DEF Telling, Synced, AtLeast
<1>9. Reaching(s)'
  <2>1. \A l \in Lanes :
          /\ Later(sub.latest[l], c[l]) <= head[l] /\ c[l] <= Later(sub.latest[l], c[l])
    <3> SUFFICES ASSUME NEW l \in Lanes
                 PROVE  Later(sub.latest[l], c[l]) <= head[l] /\ c[l] <= Later(sub.latest[l], c[l])
      OBVIOUS
    <3>1. /\ sub.latest[l] \in Nat \cup {Unknown} /\ c[l] \in Nat /\ head[l] \in Nat
          /\ sub.latest[l] <= head[l] /\ c[l] <= head[l]
      BY <1>4, <1>6, <1>7 DEF AtLeast
    <3>2. QED
      BY <3>1 DEF Later, Unknown
  <2>2. ~Seeded(sub, c).pending => \A l \in Lanes : Later(sub.latest[l], c[l]) = c[l]
    <3> SUFFICES ASSUME ~Seeded(sub, c).pending, NEW l \in Lanes
                 PROVE  Later(sub.latest[l], c[l]) = c[l]
      OBVIOUS
    <3>1. sub.latest[l] \in Nat \cup {Unknown} /\ c[l] \in Nat /\ ~(sub.latest[l] > c[l])
      BY <1>4
    <3>2. QED
      BY <3>1 DEF Later, Unknown
  <2>3. ~Seeded(sub, c).pending => c = Seeded(sub, c).latest
    BY <1>4, <2>2
  <2>4. \A l \in Lanes : /\ Seeded(sub, c).latest[l] <= head[l] /\ c[l] <= Seeded(sub, c).latest[l]
                        /\ Upcoming(l, Seeded(sub, c).latest[l])
    BY <1>4, <1>7, <2>1
  <2>5. \A l \in Lanes : Upcoming(l, Seeded(sub, c).latest[l])'
    BY <1>5, <2>4 DEF Upcoming
  <2>6. QED
    BY <1>3, <1>5, <2>3, <2>4, <2>5 DEF Reaching
<1>10. QED
  BY <1>2, <1>5, <1>8, <1>9, OneKnown

LEMMA EndWriteKnown == ASSUME IInv, Known, NEW s \in Streams, EndWrite(s) PROVE Known'
<1>1. stream[s] \in StreamType /\ stream \in [Streams -> StreamType] /\ told \in [Streams -> Cursor]
  BY DEF IInv, TypeOK
<1> DEFINE new == [stream[s] EXCEPT !.pc = "waiting", !.greeted = TRUE]
<1>2. stream' = [stream EXCEPT ![s] = new]
  BY <1>1 DEF EndWrite, Step, StreamType
<1>3. /\ new.pc = "waiting" /\ new.greeted
      /\ new.latest = stream[s].latest /\ new.sub = stream[s].sub
  BY <1>1 DEF StreamType
<1> HIDE DEF new
<1>4. /\ stream'[s] = new /\ UNCHANGED <<head, outbox>> /\ stream[s].pc = "writing"
      /\ told'[s] = stream[s].latest /\ \A t \in Streams \ {s} : told'[t] = told[t]
  BY <1>1, <1>2 DEF EndWrite
<1>5. \A l \in Lanes : stream[s].latest[l] \in Nat
  BY <1>1 DEF StreamType, Cursor
<1>6. Telling(s)'
  BY <1>3, <1>4, <1>5 DEF Known, Telling, Synced, AtLeast
<1>7. Reaching(s)'
  BY <1>3, <1>4 DEF Known, Reaching, Synced, Upcoming
<1>8. QED
  BY <1>2, <1>4, <1>6, <1>7, OneKnown

LEMMA TakeKnown == ASSUME IInv, Known, NEW s \in Streams, Take(s) PROVE Known'
<1>1. stream[s] \in StreamType /\ stream \in [Streams -> StreamType]
  BY DEF IInv, TypeOK
<1> DEFINE sub == stream[s].sub
           same == sub.latest = stream[s].latest
           new == [stream[s] EXCEPT !.pc = IF same THEN "waiting" ELSE "ready",
                                    !.sub = Taken(sub), !.latest = sub.latest]
<1>2. stream' = [stream EXCEPT ![s] = new]
  <2>1. CASE same
    <3>1. new = [stream[s] EXCEPT !.sub = Taken(sub)]
      BY <1>1, <2>1 DEF Take, StreamType
    <3>2. QED
      BY <1>1, <2>1, <3>1 DEF Take
  <2>2. CASE ~same
    BY <1>1, <2>2 DEF Take, Step, StreamType
  <2>3. QED
    BY <2>1, <2>2
<1>3. /\ new.pc = (IF same THEN "waiting" ELSE "ready") /\ new.sub = Taken(sub)
      /\ new.latest = sub.latest /\ new.greeted = stream[s].greeted
      /\ new.sub.latest = sub.latest /\ new.sub.open = sub.open
  BY <1>1 DEF StreamType, Subscription, Taken
<1> HIDE DEF new
<1>4. /\ stream'[s] = new /\ UNCHANGED <<head, outbox, told>> /\ stream[s].pc = "waiting"
      /\ sub.open
  BY <1>1, <1>2 DEF Take
<1>5. /\ stream[s].latest = told[s] /\ AtLeast(head, stream[s].latest)
      /\ \A l \in Lanes : /\ sub.latest[l] <= head[l] /\ stream[s].latest[l] <= sub.latest[l]
                          /\ Upcoming(l, sub.latest[l])
  BY <1>4 DEF Known, Telling, Reaching, Synced
<1>6. \A l \in Lanes : sub.latest[l] \in Int
  BY <1>1 DEF StreamType, Subscription, Unknown
<1>7. Telling(s)'
  BY <1>3, <1>4, <1>5 DEF Telling, Synced, AtLeast
<1>8. Reaching(s)'
  BY <1>3, <1>4, <1>5, <1>6 DEF Reaching, Synced, Upcoming
<1>9. QED
  BY <1>2, <1>4, <1>7, <1>8, OneKnown

LEMMA EndsKnown == ASSUME IInv, Known, NEW s \in Streams, Ends(s) PROVE Known'
<1>1. /\ stream' = [stream EXCEPT ![s] = [NewStream EXCEPT !.pc = "ended"]]
      /\ UNCHANGED <<head, outbox, told>>
  BY DEF Ends
<1>2. stream'[s].pc = "ended" /\ ~stream'[s].sub.open
  BY <1>1, FreshSubscription DEF NewStream, IInv, TypeOK
<1>3. Telling(s)' /\ Reaching(s)'
  BY <1>2 DEF Telling, Reaching, Synced
<1>4. QED
  BY <1>1, <1>3, OneKnown

\* What is committed is also about to be published.
LEMMA CommitKnown == ASSUME IInv, Known, NEW l \in Lanes, Commit(l) PROVE Known'
<1>1. head \in [Lanes -> Nat] /\ UNCHANGED <<stream, told>>
      /\ head'[l] = head[l] + 1 /\ \A k \in Lanes \ {l} : head'[k] = head[k]
  BY DEF IInv, TypeOK, Cursor, Commit
<1>2. \A k \in Lanes, n \in Int : n <= head[k] => n <= head'[k]
  BY <1>1
<1>3. outbox \subseteq outbox' /\ \E p \in outbox' : p.lane = l /\ p.of = head'[l]
  <2>1. PICK seq : outbox' = outbox \cup {[lane |-> l, of |-> head[l] + 1, seq |-> seq]}
    BY DEF Commit
  <2>2. [lane |-> l, of |-> head[l] + 1, seq |-> seq] \in outbox'
    BY <2>1
  <2>3. QED
    BY <1>1, <2>1, <2>2
<1>4. \A k \in Lanes : \A n : Upcoming(k, n) => Upcoming(k, n)'
  BY <1>1, <1>3 DEF Upcoming
<1> SUFFICES ASSUME NEW s \in Streams PROVE Telling(s)' /\ Reaching(s)'
  BY DEF Known
<1>5. /\ stream[s].latest \in [Lanes -> Nat]
      /\ \A k \in Lanes : stream[s].sub.latest[k] \in Int
  BY DEF IInv, TypeOK, StreamType, Subscription, Cursor, Unknown
<1>6. Telling(s)'
  BY <1>1, <1>2, <1>5 DEF Known, Telling, AtLeast
<1>7. Reaching(s)'
  <2>1. \A k \in Lanes : Upcoming(k, Later(stream[s].sub.latest[k], stream[s].latest[k])) =>
                        Upcoming(k, Later(stream[s].sub.latest[k], stream[s].latest[k]))'
    BY <1>1, <1>4
  <2>2. \A k \in Lanes : Upcoming(k, stream[s].sub.latest[k]) => Upcoming(k, stream[s].sub.latest[k])'
    BY <1>1, <1>4
  <2>3. \A k \in Lanes : stream[s].sub.latest[k] <= head[k] => stream'[s].sub.latest[k] <= head'[k]
    BY <1>1, <1>2, <1>5
  <2>4. QED
    BY <1>1, <2>1, <2>2, <2>3 DEF Known, Reaching
<1>8. QED
  BY <1>6, <1>7

LEMMA ReadHeadKnown == ASSUME IInv, Known, NEW p \in outbox, ReadHead(p) PROVE Known'
<1> DEFINE new == [p EXCEPT !.seq = head[p.lane]]
<1>1. UNCHANGED <<head, stream, told>> /\ outbox' = (outbox \ {p}) \cup {new}
      /\ new.lane = p.lane /\ new.of = p.of
  BY DEF ReadHead, IInv, Shape, Change
<1> HIDE DEF new
<1>2. \A l \in Lanes : \A n : Upcoming(l, n) => Upcoming(l, n)'
  BY <1>1 DEF Upcoming
<1>3. ASSUME NEW s \in Streams PROVE Telling(s)' /\ Reaching(s)'
  <2>1. Telling(s)'
    BY <1>1 DEF Known, Telling, AtLeast
  <2>2. Reaching(s)'
    BY <1>1, <1>2 DEF Known, Reaching
  <2>3. QED
    BY <2>1, <2>2
<1>4. QED
  BY <1>3 DEF Known

\* A publication of the head reaches all open subscriptions; another one leaves
\* that of the head in the outbox.
LEMMA PublishKnown == ASSUME IInv, Known, NEW p \in outbox, Publish(p) PROVE Known'
<1>1. /\ p.lane \in Lanes /\ p.seq \in Nat /\ p.of \in Nat /\ p.of <= p.seq
      /\ p.seq <= head[p.lane] /\ head[p.lane] \in Nat
  BY DEF Publish, IInv, TypeOK, Shape, Change, Cursor
<1>2. /\ UNCHANGED <<head, told>> /\ outbox' = outbox \ {p}
      /\ stream' = [s \in Streams |-> [stream[s] EXCEPT !.sub = Published(@, p.lane, p.seq)]]
  BY DEF Publish
<1> SUFFICES ASSUME NEW s \in Streams PROVE Telling(s)' /\ Reaching(s)'
  BY DEF Known
<1>0. PICK old, sub : old = stream[s].sub /\ sub = Published(stream[s].sub, p.lane, p.seq)
  OBVIOUS
<1>3. stream[s] \in StreamType
  BY DEF IInv, TypeOK
<1>4. /\ stream'[s].pc = stream[s].pc /\ stream'[s].latest = stream[s].latest
      /\ stream'[s].greeted = stream[s].greeted /\ stream'[s].sub = sub
  BY <1>0, <1>2, <1>3 DEF StreamType
<1>5. Telling(s)'
  BY <1>2, <1>4 DEF Known, Telling, AtLeast
<1>6. ASSUME old.open
      PROVE  /\ \A l \in Lanes \ {p.lane} : sub.latest[l] = old.latest[l]
             /\ sub.latest[p.lane] = Later(old.latest[p.lane], p.seq)
             /\ sub.pending \/ sub = old
             /\ \A l \in Lanes : old.latest[l] \in Int /\ stream[s].latest[l] \in Int
  BY <1>0, <1>1, <1>3, <1>6 DEF StreamType, Subscription, Published, Later, Unknown, Cursor
<1>7. sub.open => old.open
  BY <1>0, <1>3 DEF StreamType, Subscription, Published
<1>8. ASSUME sub.open PROVE Reaching(s)'
  <2>1. /\ old.open /\ \A l \in Lanes : old.latest[l] <= head[l]
        /\ stream[s].pc = "read" => \A l \in Lanes : /\ Upcoming(l, Later(old.latest[l], stream[s].latest[l]))
                                                     /\ stream[s].latest[l] <= head[l]
        /\ stream[s].pc \in Synced =>
             /\ \A l \in Lanes : stream[s].latest[l] <= old.latest[l] /\ Upcoming(l, old.latest[l])
             /\ ~old.pending => stream[s].latest = old.latest
    BY <1>0, <1>7, <1>8 DEF Known, Reaching, Telling, AtLeast
  <2>2. \A l \in Lanes : sub.latest[l] <= head[l] /\ old.latest[l] <= sub.latest[l]
    <3> SUFFICES ASSUME NEW l \in Lanes PROVE sub.latest[l] <= head[l] /\ old.latest[l] <= sub.latest[l]
      OBVIOUS
    <3>1. old.latest[l] \in Int /\ old.latest[l] <= head[l]
      BY <1>6, <2>1
    <3>2. CASE l = p.lane
      BY <1>1, <1>6, <2>1, <3>1, <3>2 DEF Later
    <3>3. CASE l # p.lane
      BY <1>6, <2>1, <3>1, <3>3
    <3>4. QED
      BY <3>2, <3>3
  <2>3. ASSUME NEW l \in Lanes, l # p.lane \/ p.of # head[l]
        PROVE  \A n : Upcoming(l, n) => Upcoming(l, n)'
    BY <1>2, <2>3 DEF Upcoming
  <2>4. p.of = head[p.lane] => sub.latest[p.lane] = head[p.lane]
    BY <1>1, <1>6, <2>1 DEF Later
  <2>5. ASSUME NEW l \in Lanes, Upcoming(l, old.latest[l]) PROVE Upcoming(l, sub.latest[l])'
    <3>1. CASE l = p.lane
      <4>1. CASE p.of = head[l]
        BY <1>2, <1>4, <2>4, <3>1, <4>1 DEF Upcoming
      <4>2. CASE p.of # head[l] /\ old.latest[l] = head[l]
        <5>1. sub.latest[l] = head[l]
          BY <1>1, <1>6, <2>1, <3>1, <4>2 DEF Later
        <5>2. QED
          BY <1>2, <1>4, <5>1 DEF Upcoming
      <4>3. CASE p.of # head[l] /\ old.latest[l] # head[l]
        BY <1>2, <2>5, <4>3 DEF Upcoming
      <4>4. QED
        BY <4>1, <4>2, <4>3
    <3>2. CASE l # p.lane
      <4>1. sub.latest[l] = old.latest[l]
        BY <1>6, <2>1, <3>2
      <4>2. QED
        BY <1>2, <2>5, <3>2, <4>1 DEF Upcoming
    <3>3. QED
      BY <3>1, <3>2
  <2>6. ASSUME NEW l \in Lanes, stream[s].pc = "read"
        PROVE  Upcoming(l, Later(sub.latest[l], stream[s].latest[l]))'
    <3>1. /\ Upcoming(l, Later(old.latest[l], stream[s].latest[l]))
          /\ stream[s].latest[l] <= head[l] /\ sub.latest[l] <= head[l] /\ old.latest[l] <= sub.latest[l]
          /\ old.latest[l] \in Int /\ stream[s].latest[l] \in Int
      BY <1>6, <2>1, <2>2, <2>6
    <3>2. CASE l = p.lane
      <4>1. sub.latest[l] = Later(old.latest[l], p.seq)
        BY <1>6, <2>1, <3>2
      <4>2. CASE p.of = head[l] \/ Later(old.latest[l], stream[s].latest[l]) = head[l]
        <5>1. Later(sub.latest[l], stream[s].latest[l]) = head[l]
          BY <1>1, <3>1, <3>2, <4>1, <4>2 DEF Later
        <5>2. QED
          BY <1>2, <1>4, <5>1 DEF Upcoming
      <4>3. CASE p.of # head[l] /\ Later(old.latest[l], stream[s].latest[l]) # head[l]
        BY <1>2, <3>1, <4>3 DEF Upcoming
      <4>4. QED
        BY <4>2, <4>3
    <3>3. CASE l # p.lane
      <4>1. sub.latest[l] = old.latest[l]
        BY <1>6, <2>1, <3>3
      <4>2. CASE Later(old.latest[l], stream[s].latest[l]) = head[l]
        BY <1>2, <1>4, <4>1, <4>2 DEF Upcoming
      <4>3. CASE Later(old.latest[l], stream[s].latest[l]) # head[l]
        BY <1>2, <3>1, <3>3, <4>3 DEF Upcoming
      <4>4. QED
        BY <4>2, <4>3
    <3>4. QED
      BY <3>2, <3>3
  <2>7. ASSUME stream[s].pc \in Synced
        PROVE  /\ \A l \in Lanes : stream[s].latest[l] <= sub.latest[l] /\ Upcoming(l, sub.latest[l])'
               /\ ~sub.pending => stream[s].latest = sub.latest
    <3>1. \A l \in Lanes : stream[s].latest[l] <= old.latest[l] /\ old.latest[l] <= sub.latest[l]
      BY <2>1, <2>2, <2>7
    <3>2. \A l \in Lanes : old.latest[l] \in Int /\ stream[s].latest[l] \in Int /\ sub.latest[l] \in Int
      <4> SUFFICES ASSUME NEW l \in Lanes
                   PROVE  old.latest[l] \in Int /\ stream[s].latest[l] \in Int /\ sub.latest[l] \in Int
        OBVIOUS
      <4>1. old.latest[l] \in Int /\ stream[s].latest[l] \in Int
        BY <1>6, <2>1
      <4>2. CASE l = p.lane
        BY <1>1, <1>6, <2>1, <4>1, <4>2 DEF Later
      <4>3. CASE l # p.lane
        BY <1>6, <2>1, <4>1, <4>3
      <4>4. QED
        BY <4>1, <4>2, <4>3
    <3>3. \A l \in Lanes : stream[s].latest[l] <= sub.latest[l]
      <4> SUFFICES ASSUME NEW l \in Lanes PROVE stream[s].latest[l] <= sub.latest[l]
        OBVIOUS
      <4>1. /\ stream[s].latest[l] <= old.latest[l] /\ old.latest[l] <= sub.latest[l]
            /\ old.latest[l] \in Int /\ stream[s].latest[l] \in Int /\ sub.latest[l] \in Int
        BY <3>1, <3>2
      <4>2. QED
        BY <4>1
    <3>4. \A l \in Lanes : Upcoming(l, sub.latest[l])'
      BY <2>1, <2>5, <2>7
    <3>5. QED
      BY <1>6, <2>1, <2>7, <3>3, <3>4
  <2>8. Reaching(s)'
    <3>1. \A l \in Lanes : stream'[s].sub.latest[l] <= head'[l]
      BY <1>2, <1>4, <2>2
    <3>2. stream'[s].pc = "read" =>
            \A l \in Lanes : Upcoming(l, Later(stream[s].sub.latest[l], stream[s].latest[l]))'
      BY <1>4, <2>6
    <3>3. stream'[s].pc \in Synced =>
            /\ \A l \in Lanes : /\ stream'[s].latest[l] <= stream'[s].sub.latest[l]
                                /\ Upcoming(l, stream[s].sub.latest[l])'
            /\ ~stream'[s].sub.pending => stream'[s].latest = stream'[s].sub.latest
      BY <1>4, <2>7
    <3>4. QED
      BY <3>1, <3>2, <3>3 DEF Reaching
  <2>9. QED
    BY <2>8
<1>9. QED
  <2>1. CASE ~sub.open
    BY <1>4, <1>5, <2>1 DEF Reaching
  <2>2. QED
    BY <1>5, <1>8, <2>1

LEMMA PublicationFailsKnown ==
  ASSUME IInv, Known, NEW p \in outbox, PublicationFails(p)
  PROVE  Known'
<1>1. /\ UNCHANGED <<head, told>>
      /\ \A s \in Streams : /\ stream'[s].pc = stream[s].pc /\ stream'[s].latest = stream[s].latest
                            /\ stream'[s].greeted = stream[s].greeted /\ ~stream'[s].sub.open
  BY FreshSubscription DEF PublicationFails, Closed, IInv, TypeOK, StreamType
<1>2. \A s \in Streams : Telling(s)' /\ Reaching(s)'
  BY <1>1 DEF Known, Telling, Reaching, AtLeast
<1>3. QED
  BY <1>2 DEF Known

LEMMA NextKnown == ASSUME IInv, Known, [Next]_vars PROVE Known'
<1>1. CASE UNCHANGED vars
  BY <1>1, OnwardKnown DEF vars, Onward
<1>2. CASE \E l \in Lanes : Commit(l)
  BY <1>2, CommitKnown
<1>3. CASE \E p \in outbox : Announce(p)
  BY <1>3, ReadHeadKnown, PublishKnown, PublicationFailsKnown DEF Announce
<1>4. CASE \E s \in Streams : Authenticate(s) \/ Serve(s) \/ Fails(s)
  <2>1. PICK s \in Streams : Authenticate(s) \/ Serve(s) \/ Fails(s)
    BY <1>4
  <2>2. CASE Subscribe(s) \/ ReadSnapshot(s) \/ Seed(s) \/ EndWrite(s) \/ Take(s) \/ Ends(s)
    BY <2>2, SubscribeKnown, ReadSnapshotKnown, SeedKnown, EndWriteKnown, TakeKnown, EndsKnown
  <2>3. CASE \/ Authenticate(s) \/ NoteEpoch(s) \/ Reserve(s) \/ Register(s) \/ Admit(s) \/ CheckAuthority(s)
             \/ StartWrite(s) \/ Fails(s)
    BY <2>3, PassesOn, OnwardKnown
  <2>4. QED
    BY <2>1, <2>2, <2>3 DEF Serve
<1>5. CASE RevokeCredential \/ Revoke \/ CloseAdmission \/ Close \/ Reopen
  BY <1>5, ClosesOn, OnwardKnown
<1>6. CASE \E r \in Requests : EnterRequest(r) \/ EnterOperation(r) \/ Answer(r)
  BY <1>6, RequestOn, OnwardKnown
<1>7. QED
  BY <1>1, <1>2, <1>3, <1>4, <1>5, <1>6 DEF Next

LEMMA AlwaysKnown == Spec => []Known
<1>1. Init => Known
  BY FreshSubscription DEF Init, Known, Telling, Reaching, NewStream, Synced
<1>2. QED
  BY <1>1, NextKnown, Inductive, PTL DEF Spec

\* A stream that waits for a hint has told all there is, but for changes somebody is
\* still about to publish (subscribe before the snapshot, seed, publish after commit).
THEOREM WaitingIsCurrent == Spec => []QuietMeansCurrent
<1>1. IInv /\ Known => QuietMeansCurrent
  <2> SUFFICES ASSUME IInv, Known, NEW s \in Streams, NEW l \in Lanes,
                      stream[s].pc = "waiting", stream[s].sub.open, ~stream[s].sub.pending,
                      told[s][l] # head[l]
               PROVE  \E p \in outbox : p.lane = l /\ p.of > told[s][l]
    BY DEF QuietMeansCurrent
  <2>1. stream[s].latest = told[s] /\ stream[s].latest = stream[s].sub.latest
        /\ stream[s].latest[l] <= head[l] /\ Upcoming(l, stream[s].sub.latest[l])
    BY DEF Known, Telling, Reaching, Synced, AtLeast
  <2>2. told[s][l] \in Nat /\ head[l] \in Nat
    BY DEF IInv, TypeOK, Cursor
  <2>3. QED
    BY <2>1, <2>2 DEF Upcoming
<1>2. QED
  BY <1>1, Inductive, AlwaysKnown, PTL

-----------------------------------------------------------------------------
(* The promise to the client                                                *)

\* A step that tells no client anything and moves none from one phase to another.
LEMMA SamePhases ==
  ASSUME UNCHANGED <<head, told>>, \A s \in Streams : Phase(s)' = Phase(s)
  PROVE  UNCHANGED Client!vars
BY DEF Client!vars

LEMMA OnwardPhases ==
  ASSUME UNCHANGED <<head, told>>, \A s \in Streams : Onward(s)
  PROVE  UNCHANGED Client!vars
<1>1. \A s \in Streams : Phase(s)' = Phase(s)
  BY DEF Onward, Phase
<1>2. QED
  BY <1>1, SamePhases

LEMMA SubscribesPhases ==
  ASSUME IInv, NEW s \in Streams, Subscribe(s) \/ ReadSnapshot(s) \/ Seed(s) \/ Take(s)
  PROVE  UNCHANGED Client!vars
<1>1. UNCHANGED <<head, told>>
  BY DEF Subscribe, ReadSnapshot, Seed, Take
<1>2. \A t \in Streams : Phase(t)' = Phase(t)
  BY DEF Subscribe, ReadSnapshot, Seed, Take, Step, IInv, TypeOK, StreamType, Phase
<1>3. QED
  BY <1>1, <1>2, SamePhases

LEMMA AnnouncesPhases ==
  ASSUME IInv, NEW p \in outbox, Announce(p)
  PROVE  UNCHANGED Client!vars
<1>1. UNCHANGED <<head, told>>
  BY DEF Announce, ReadHead, Publish, PublicationFails
<1>2. \A t \in Streams : stream'[t].pc = stream[t].pc /\ stream'[t].greeted = stream[t].greeted
  <2>1. \A t \in Streams : stream[t] \in StreamType
    BY DEF IInv, TypeOK
  <2>2. QED
    BY <2>1 DEF Announce, ReadHead, Publish, PublicationFails, StreamType
<1>3. \A t \in Streams : Phase(t)' = Phase(t)
  BY <1>2 DEF Phase
<1>4. QED
  BY <1>1, <1>3, SamePhases

LEMMA EndWriteTells ==
  ASSUME IInv, Known, NEW s \in Streams, EndWrite(s)
  PROVE  Client!Tell(s)
<1>1. /\ stream[s].pc = "writing" /\ stream'[s].pc = "waiting" /\ stream'[s].greeted
      /\ UNCHANGED head /\ told' = [told EXCEPT ![s] = stream[s].latest]
      /\ \A t \in Streams \ {s} : stream'[t] = stream[t]
  BY DEF EndWrite, Step, IInv, TypeOK, StreamType
<1>2. told \in [Streams -> [Lanes -> Nat]] /\ stream[s].latest \in [Lanes -> Nat]
  BY DEF IInv, TypeOK, StreamType, Cursor
<1>3. /\ Phase(s) = (IF stream[s].greeted THEN "open" ELSE "before") /\ Phase(s)' = "open"
      /\ \A t \in Streams \ {s} : Phase(t)' = Phase(t)
  BY <1>1 DEF Phase
<1>4. AtLeast(head, stream[s].latest) /\ AtLeast(stream[s].latest, told[s])
      /\ (stream[s].greeted => stream[s].latest # told[s])
  BY <1>1 DEF Known, Telling, Synced
<1> DEFINE phase == [t \in Streams |-> Phase(t)]
<1>5. phase' = [phase EXCEPT ![s] = "open"]
  BY <1>3
<1>6. phase[s] \in {"before", "open"} /\ (phase[s] = "open" => stream[s].greeted)
  BY <1>3
<1>7. \A l \in Lanes : told[s][l] <= told'[s][l] /\ told'[s][l] <= head[l]
  BY <1>1, <1>2, <1>4 DEF AtLeast
<1>8. QED
  BY <1>1, <1>2, <1>4, <1>5, <1>6, <1>7 DEF Client!Tell

LEMMA EndsClient ==
  ASSUME IInv, NEW s \in Streams, Ends(s)
  PROVE  Client!End(s)
<1>1. /\ stream[s].pc = "ending" /\ stream'[s].pc = "ended" /\ ~stream'[s].greeted
      /\ UNCHANGED <<head, told>> /\ \A t \in Streams \ {s} : stream'[t] = stream[t]
  BY DEF Ends, NewStream, IInv, TypeOK
<1>2. /\ Phase(s) # "ended" /\ Phase(s)' = "ended"
      /\ \A t \in Streams \ {s} : Phase(t)' = Phase(t)
  BY <1>1 DEF Phase
<1> DEFINE phase == [t \in Streams |-> Phase(t)]
<1>3. phase' = [phase EXCEPT ![s] = "ended"] /\ phase[s] # "ended"
  BY <1>2
<1>4. QED
  BY <1>1, <1>3 DEF Client!End

LEMMA CommitsClient ==
  ASSUME NEW l \in Lanes, Commit(l)
  PROVE  Client!Commit(l)
<1>1. head' = [head EXCEPT ![l] = @ + 1] /\ UNCHANGED <<stream, told>>
  BY DEF Commit
<1>2. [s \in Streams |-> Phase(s)]' = [s \in Streams |-> Phase(s)]
  BY <1>1 DEF Phase
<1>3. QED
  BY <1>1, <1>2 DEF Client!Commit

LEMMA StepsClient == ASSUME IInv, Known, [Next]_vars PROVE [Client!Next]_(Client!vars)
<1>1. CASE UNCHANGED vars
  BY <1>1, OnwardPhases DEF vars, Onward
<1>2. CASE \E l \in Lanes : Commit(l)
  BY <1>2, CommitsClient DEF Client!Next
<1>3. CASE \E p \in outbox : Announce(p)
  BY <1>3, AnnouncesPhases
<1>4. CASE \E s \in Streams : Authenticate(s) \/ Serve(s) \/ Fails(s)
  <2>1. PICK s \in Streams : Authenticate(s) \/ Serve(s) \/ Fails(s)
    BY <1>4
  <2>2. CASE Subscribe(s) \/ ReadSnapshot(s) \/ Seed(s) \/ Take(s)
    BY <2>2, SubscribesPhases
  <2>3. CASE EndWrite(s)
    BY <2>3, EndWriteTells DEF Client!Next
  <2>4. CASE Ends(s)
    BY <2>4, EndsClient DEF Client!Next
  <2>5. CASE \/ Authenticate(s) \/ NoteEpoch(s) \/ Reserve(s) \/ Register(s) \/ Admit(s) \/ CheckAuthority(s)
             \/ StartWrite(s) \/ Fails(s)
    BY <2>5, PassesOn, OnwardPhases
  <2>6. QED
    BY <2>1, <2>2, <2>3, <2>4, <2>5 DEF Serve
<1>5. CASE RevokeCredential \/ Revoke \/ CloseAdmission \/ Close \/ Reopen
  BY <1>5, ClosesOn, OnwardPhases
<1>6. CASE \E r \in Requests : EnterRequest(r) \/ EnterOperation(r) \/ Answer(r)
  BY <1>6, RequestOn, OnwardPhases
<1>7. QED
  BY <1>1, <1>2, <1>3, <1>4, <1>5, <1>6 DEF Next

\* The streams of a hub keep the promise of HintStream, for any number of streams and
\* changes: a snapshot, then newer cursors only, and nothing that is not committed.
THEOREM Refinement == Spec => Client!Safety
<1>1. Init => Client!Init
  <2>1. ASSUME Init PROVE \A s \in Streams : Phase(s) = "before"
    BY <2>1 DEF Init, NewStream, Phase
  <2>2. QED
    BY <2>1 DEF Init, Zero, Client!Init
<1>2. IInv /\ Known /\ [Next]_vars => [Client!Next]_(Client!vars)
  BY StepsClient
<1>3. QED
  BY <1>1, <1>2, Inductive, AlwaysKnown, PTL DEF Spec, Client!Safety

=============================================================================
