--------------------------- MODULE TurnQueueProofs ---------------------------
(* Proofs about TurnQueue, for any messages and any bounds, when no crash   *)
(* tears a batch of the journal.                                            *)
EXTENDS TurnQueue, TurnJournalProofs

-----------------------------------------------------------------------------
(* The invariant                                                            *)

\* The row that the native lane has taken out of the queue.
Steered == IF send.pc \in Detached THEN {send.msg} ELSE {}

\* What TypeOK leaves open of the records of an operation in progress.
Shape ==
  /\ admit.pc = "idle" <=> admit.msg = None
  /\ turn.state # "idle" => turn.msg \in Msgs
  /\ admit.pc = "started" => turn.state = "idle"
  /\ send.pc # "none" => send.msg \in Msgs
  /\ send.pc \in Detached \cup Replacing => send.index >= 1
  /\ starter = "admitting" => admit.pc # "idle"

\* A message waits once in the queue, and once in the journal.
Orderly == Sound(journal, Msgs) /\ IsInjective(queue)

\* The places of a message in the server exclude each other.
Disjoint ==
  /\ runNow \notin Rows /\ admit.msg \notin Rows
  /\ runNow # None => runNow # admit.msg
  /\ Steered \cap (Rows \cup {runNow, admit.msg}) = {}
  /\ turn.state # "idle" =>
       turn.msg \notin Waiting(journal) \cup Rows \cup Steered \cup {runNow, admit.msg}

\* While Run Now replaces the live turn its row is the promoted one, and neither
\* an admission nor a Stop gets in between.
Exclusive ==
  send.pc \in Replacing => runNow = send.msg /\ stop = "no" /\ admit.pc = "idle"

\* A row whose start was recorded may be back in the queue, if it was not launched.
Accepted(m) == fate[m] \in {"waiting", "started"}

\* Where the journal and the server keep a message agrees with what became of it.
Fates ==
  /\ \A m \in Msgs : fate[m] = "waiting" => m \in Waiting(journal)
  /\ \A m \in Waiting(journal) \cup Rows \cup Steered \cup ({runNow} \ {None}) : Accepted(m)
  /\ admit.pc = "reserved" =>
       IF starter = "admitting" THEN Accepted(admit.msg) ELSE fate[admit.msg] = "new"
  /\ admit.pc = "started" => fate[admit.msg] = "started" /\ admit.msg \notin Waiting(journal)
  /\ turn.state # "idle" => fate[turn.msg] = "started"
  /\ send.pc # "none" => fate[send.msg] # "new"

\* The server has what waits in the journal, but for deliveries that are uncertain.
Kept ==
  Waiting(journal) \ journal.fenced \subseteq Rows \cup Steered \cup {runNow, admit.msg}

\* A fence is also a hold, and is written before the provider is asked.
Fences ==
  /\ row.fenced \subseteq row.held
  /\ send.pc \in {"fenced", "sent"} => send.msg \in journal.fenced

\* Whatever may still be given to the provider has not been given yet.
Ungiven(m) ==
  \/ fate[m] = "new"
  \/ m \in Waiting(journal) \ journal.fenced
  \/ m \in Steered /\ send.pc # "sent"
  \/ m \in Rows \ row.fenced
  \/ m \in {runNow, admit.msg}
  \/ turn.state = "starting" /\ turn.msg = m

GivenOnce == \A m \in Msgs : given[m] <= 1 /\ (Ungiven(m) => given[m] = 0)

\* A message that a Stop recorded is held in the journal and in the server.
Recorded ==
  \A m \in Msgs : parked[m] = "recorded" =>
    /\ fate[m] # "new"
    /\ m \notin Steered \cup {runNow, admit.msg}
    /\ ~(turn.state = "starting" /\ turn.msg = m)
    /\ m \in Rows => m \in row.held
    /\ m \in Waiting(journal) => m \in journal.held

\* A remembered success is of a row that nobody holds, and of no request under way.
Remembered ==
  /\ \A m \in cached : fate[m] # "new" /\ ~(m \in row.held /\ m \in Rows \cup {runNow})
  /\ send.pc # "none" => send.msg \notin cached
  /\ starter = "admitting" => admit.msg \notin row.held

IInv ==
  /\ TypeOK /\ Shape /\ Orderly /\ Disjoint /\ Exclusive
  /\ Fates /\ Kept /\ Fences
  /\ GivenOnce /\ Recorded /\ Remembered

-----------------------------------------------------------------------------
(* What the invariant says of the data                                      *)

LEMMA Sets ==
  ASSUME IInv
  PROVE  /\ Sound(journal, Msgs) /\ queue \in Seq(Msgs) /\ IsInjective(queue)
         /\ Rows \subseteq Msgs /\ Waiting(journal) \subseteq Msgs
         /\ journal.held \subseteq Waiting(journal) /\ journal.fenced \subseteq journal.held
         /\ Steered \subseteq Msgs /\ cached \subseteq Msgs /\ runNow \in Msgs \cup {None}
BY Elements DEF IInv, TypeOK, Orderly, Sound, Rows, Waiting, Shape, Steered, Detached, Msg

\* Only TurnQueue's assumption gives: None is no message.
LEMMA NoneIsNoMessage == None \notin Msgs
BY TurnQueueAssumption

LEMMA Within ==
  ASSUME used \in Uses
  PROVE  /\ used.stops < MaxStops /\ Spend("stops") => used' \in Uses
         /\ used.sends < MaxSends /\ Spend("sends") => used' \in Uses
         /\ used.moves < MaxMoves /\ Spend("moves") => used' \in Uses
         /\ used.crashes < MaxCrashes /\ Spend("crashes") => used' \in Uses
         /\ Fault => used' \in Uses
BY TurnQueueAssumption DEF Uses, Spend, Fault

LEMMA SendMoves ==
  ASSUME send \in Sends, NEW pc \in {"settle"} \cup Detached \cup Replacing, SendGoesTo(pc)
  PROVE  /\ send' \in Sends /\ send'.pc = pc /\ send'.msg = send.msg /\ send'.index = send.index
BY DEF Sends, SendGoesTo

LEMMA NoSendIs == NoSend \in Sends /\ NoSend.pc = "none" /\ NoSend.msg = None
BY DEF NoSend, Sends, Msg

LEMMA NoAdmissionIs == NoAdmission \in Admissions /\ NoAdmission.pc = "idle" /\ NoAdmission.msg = None
BY DEF NoAdmission, Admissions, Msg

LEMMA NoTurnIs == NoTurn \in Turns /\ NoTurn.state = "idle" /\ NoTurn.msg = None
BY DEF NoTurn, Turns, Msg

LEMMA Unmarks ==
  ASSUME row \in Marks, NEW ms
  PROVE  /\ Unmarked(ms) \in Marks
         /\ Unmarked(ms).held = row.held \ ms /\ Unmarked(ms).fenced = row.fenced \ ms
         /\ Released(ms) \in Marks
         /\ Released(ms).held = row.held \ ms /\ Released(ms).fenced = row.fenced
BY DEF Marks, Unmarked, Released

LEMMA Gives ==
  ASSUME given \in [Msgs -> Nat], NEW m \in Msgs, Give(m)
  PROVE  /\ given' \in [Msgs -> Nat] /\ given'[m] = given[m] + 1
         /\ \A x \in Msgs : x # m => given'[x] = given[x]
BY DEF Give

\* What a message becomes, and how the journal loses it.
Becomes(m, what) ==
  /\ fate' \in [Msgs -> {"new", "waiting", "started", "removed"}]
  /\ fate'[m] = what /\ \A x \in Msgs : x # m => fate'[x] = fate[x]

LEMMA FateBecomes ==
  ASSUME fate \in [Msgs -> {"new", "waiting", "started", "removed"}], NEW m \in Msgs,
         NEW what \in {"new", "waiting", "started", "removed"}, fate' = [fate EXCEPT ![m] = what]
  PROVE  Becomes(m, what)
BY DEF Becomes

JournalWithout(m) ==
  /\ Sound(journal', Msgs) /\ Waiting(journal') = Waiting(journal) \ {m}
  /\ journal'.held = journal.held \ {m} /\ journal'.fenced = journal.fenced \ {m}

\* A step that changes only wake and the fences of promotion keeps the invariant.
Undisturbed ==
  /\ UNCHANGED <<journal, queue, runNow, row, turn, admit, send, cached, stop, fate, given, parked>>
  /\ wake' \in BOOLEAN /\ steering' \in {"no", "send", "waiter"} /\ used' \in Uses
  /\ starter' \in {"none", "waiting", "admitting"}
  /\ starter' = "admitting" <=> starter = "admitting"

LEMMA UndisturbedKeeps ==
  ASSUME IInv, Undisturbed
  PROVE  IInv'
<1> USE DEF Undisturbed
<1>1. UNCHANGED <<Rows, Waiting(journal), Steered>>
  BY DEF Rows, Steered
<1>2. TypeOK'
  BY <1>1 DEF IInv, TypeOK
<1>3. Shape' /\ Orderly' /\ Disjoint' /\ Exclusive' /\ Kept' /\ Fences'
  BY <1>1 DEF IInv, Shape, Orderly, Disjoint, Exclusive, Kept, Fences
<1>4. Fates'
  BY <1>1 DEF IInv, Fates, Accepted
<1>5. GivenOnce' /\ Recorded' /\ Remembered'
  BY <1>1 DEF IInv, GivenOnce, Ungiven, Recorded, Remembered
<1>6. QED
  BY <1>2, <1>3, <1>4, <1>5 DEF IInv

-----------------------------------------------------------------------------
(* One lemma per action                                                     *)

LEMMA ProviderReadyKeeps ==
  ASSUME IInv, ProviderReady
  PROVE  IInv'
<1>1. /\ turn.state = "starting" /\ turn.msg \in Msgs
      /\ turn' \in Turns /\ turn'.state = "ready" /\ turn'.msg = turn.msg
      /\ given' \in [Msgs -> Nat] /\ given'[turn.msg] = given[turn.msg] + 1
      /\ \A x \in Msgs : x # turn.msg => given'[x] = given[x]
  BY Gives DEF IInv, TypeOK, Shape, ProviderReady, Turns
<1>2. UNCHANGED <<journal, queue, Rows, Waiting(journal), runNow, row, steering, admit, starter, wake, send, Steered, cached, stop, fate, parked, used>>
  BY <1>1 DEF ProviderReady, live, ghosts, Rows, Steered, Detached, Turns
<1>3. TypeOK'
  BY <1>1, <1>2 DEF IInv, TypeOK
<1>4. Shape' /\ Exclusive'
  BY <1>1, <1>2, NoneIsNoMessage DEF IInv, Shape, Exclusive, Detached, Replacing
<1>5. Orderly' /\ Fences'
  BY <1>1, <1>2 DEF IInv, Orderly, Fences
<1>6. Kept'
  BY <1>1, <1>2, NoneIsNoMessage, Sets DEF IInv, Kept
<1>7. Disjoint'
  BY <1>1, <1>2, NoneIsNoMessage, Sets DEF IInv, Disjoint
<1>8. Fates'
  BY <1>1, <1>2, NoneIsNoMessage, Sets DEF IInv, Fates, Accepted
<1>9. GivenOnce'
  BY <1>1, <1>2, NoneIsNoMessage, Sets DEF IInv, Disjoint, Fates, GivenOnce, Ungiven
<1>10. Recorded'
  BY <1>1, <1>2, NoneIsNoMessage, Sets DEF IInv, Recorded
<1>11. Remembered'
  BY <1>1, <1>2, NoneIsNoMessage, Sets DEF IInv, Remembered
<1>12. QED
  BY <1>3, <1>4, <1>5, <1>6, <1>7, <1>8, <1>9, <1>10, <1>11 DEF IInv

LEMMA BeginPromotionKeeps ==
  ASSUME IInv, BeginPromotion
  PROVE  IInv'
<1>1. Undisturbed
  BY DEF IInv, TypeOK, BeginPromotion, Undisturbed, live, ghosts, Repaired
<1>2. QED
  BY <1>1, UndisturbedKeeps

LEMMA CommitTurnKeeps ==
  ASSUME IInv, CommitTurn
  PROVE  IInv'
<1>1. /\ admit.pc = "started" /\ admit.msg \in Msgs /\ turn.state = "idle"
      /\ turn' \in Turns /\ turn'.state = "starting" /\ turn'.msg = admit.msg
      /\ admit' \in Admissions /\ admit'.pc = "idle" /\ admit'.msg = None
      /\ starter' \in {"none", "waiting", "admitting"} /\ starter' # "admitting"
  BY NoAdmissionIs DEF IInv, TypeOK, Shape, CommitTurn, Admissions, Turns, Msg
<1>2. UNCHANGED <<journal, queue, Rows, Waiting(journal), runNow, row, steering, wake, send, Steered, cached, stop, fate, given, parked, used>>
  BY <1>1 DEF CommitTurn, live, ghosts, Rows, Steered, Detached, Admissions, Turns, Msg
<1>3. TypeOK'
  BY <1>1, <1>2 DEF IInv, TypeOK
<1>4. Shape' /\ Exclusive'
  BY <1>1, <1>2, NoneIsNoMessage DEF IInv, Shape, Exclusive, Detached, Replacing
<1>5. Orderly' /\ Fences'
  BY <1>1, <1>2 DEF IInv, Orderly, Fences
<1>6. Kept'
  BY <1>1, <1>2, NoneIsNoMessage, Sets DEF IInv, Kept, Fates
<1>7. Disjoint'
  BY <1>1, <1>2, NoneIsNoMessage, Sets DEF IInv, Disjoint, Fates
<1>8. Fates'
  BY <1>1, <1>2, NoneIsNoMessage, Sets DEF IInv, Fates, Accepted
<1>9. GivenOnce'
  BY <1>1, <1>2, NoneIsNoMessage, Sets DEF IInv, Disjoint, Fates, GivenOnce, Ungiven
<1>10. Recorded'
  BY <1>1, <1>2, NoneIsNoMessage, Sets DEF IInv, Recorded
<1>11. Remembered'
  BY <1>1, <1>2, NoneIsNoMessage, Sets DEF IInv, Remembered
<1>12. QED
  BY <1>3, <1>4, <1>5, <1>6, <1>7, <1>8, <1>9, <1>10, <1>11 DEF IInv

LEMMA TurnOverKeeps ==
  ASSUME IInv, TurnOver
  PROVE  IInv'
<1>1. /\ turn.state # "idle"
      /\ turn' \in Turns /\ turn'.state = "over" /\ turn'.msg = turn.msg
  BY DEF IInv, TypeOK, Shape, TurnOver, Turns
<1>2. UNCHANGED <<journal, queue, Rows, Waiting(journal), runNow, row, steering, admit, starter, wake, send, Steered, cached, stop, fate, given, parked, used>>
  BY <1>1 DEF TurnOver, live, ghosts, Rows, Steered, Detached, Turns
<1>3. TypeOK'
  BY <1>1, <1>2 DEF IInv, TypeOK
<1>4. Shape' /\ Exclusive'
  BY <1>1, <1>2, NoneIsNoMessage DEF IInv, Shape, Exclusive, Detached, Replacing
<1>5. Orderly' /\ Fences'
  BY <1>1, <1>2 DEF IInv, Orderly, Fences
<1>6. Kept'
  BY <1>1, <1>2, NoneIsNoMessage, Sets DEF IInv, Kept
<1>7. Disjoint'
  BY <1>1, <1>2, NoneIsNoMessage, Sets DEF IInv, Disjoint
<1>8. Fates'
  BY <1>1, <1>2, NoneIsNoMessage, Sets DEF IInv, Fates, Accepted
<1>9. GivenOnce'
  BY <1>1, <1>2, NoneIsNoMessage, Sets DEF IInv, Disjoint, Fates, GivenOnce, Ungiven
<1>10. Recorded'
  BY <1>1, <1>2, NoneIsNoMessage, Sets DEF IInv, Recorded
<1>11. Remembered'
  BY <1>1, <1>2, NoneIsNoMessage, Sets DEF IInv, Remembered
<1>12. QED
  BY <1>3, <1>4, <1>5, <1>6, <1>7, <1>8, <1>9, <1>10, <1>11 DEF IInv

LEMMA ReleaseSlotKeeps ==
  ASSUME IInv, ReleaseSlot
  PROVE  IInv'
<1>1. /\ turn.state = "over"
      /\ turn' \in Turns /\ turn'.state = "idle" /\ turn'.msg = None
      /\ wake' = TRUE
  BY NoTurnIs DEF IInv, TypeOK, Shape, ReleaseSlot
<1>2. UNCHANGED <<journal, queue, Rows, Waiting(journal), runNow, row, steering, admit, starter, send, Steered, cached, stop, fate, given, parked, used>>
  BY <1>1 DEF ReleaseSlot, live, ghosts, Rows, Steered, Detached
<1>3. TypeOK'
  BY <1>1, <1>2 DEF IInv, TypeOK
<1>4. Shape' /\ Exclusive'
  BY <1>1, <1>2, NoneIsNoMessage DEF IInv, Shape, Exclusive, Detached, Replacing
<1>5. Orderly' /\ Fences'
  BY <1>1, <1>2 DEF IInv, Orderly, Fences
<1>6. Kept'
  BY <1>1, <1>2, NoneIsNoMessage, Sets DEF IInv, Kept
<1>7. Disjoint'
  BY <1>1, <1>2, NoneIsNoMessage, Sets DEF IInv, Disjoint
<1>8. Fates'
  BY <1>1, <1>2, NoneIsNoMessage, Sets DEF IInv, Fates, Accepted
<1>9. GivenOnce'
  BY <1>1, <1>2, NoneIsNoMessage, Sets DEF IInv, Disjoint, Fates, GivenOnce, Ungiven
<1>10. Recorded'
  BY <1>1, <1>2, NoneIsNoMessage, Sets DEF IInv, Recorded
<1>11. Remembered'
  BY <1>1, <1>2, NoneIsNoMessage, Sets DEF IInv, Remembered
<1>12. QED
  BY <1>3, <1>4, <1>5, <1>6, <1>7, <1>8, <1>9, <1>10, <1>11 DEF IInv

LEMMA RunNowKeeps ==
  ASSUME IInv, NEW m \in Msgs, RunNow(m)
  PROVE  IInv'
<1>1. /\ send.pc = "none" /\ m \notin cached /\ fate[m] # "new"
      /\ send' \in Sends /\ send'.pc = "probe" /\ send'.msg = m
      /\ used' \in Uses
  BY Within DEF IInv, TypeOK, Shape, RunNow, Sends, NoSend, Msg
<1>2. UNCHANGED <<journal, queue, Rows, Waiting(journal), runNow, row, steering, turn, admit, starter, wake, Steered, cached, stop, fate, given, parked>>
  BY <1>1 DEF RunNow, live, ghosts, Rows, Steered, Detached, Sends, NoSend, Msg
<1>3. TypeOK'
  BY <1>1, <1>2 DEF IInv, TypeOK
<1>4. Shape' /\ Exclusive'
  BY <1>1, <1>2, NoneIsNoMessage DEF IInv, Shape, Exclusive, Detached, Replacing
<1>5. Orderly' /\ Fences'
  BY <1>1, <1>2 DEF IInv, Orderly, Fences
<1>6. Kept'
  BY <1>1, <1>2, NoneIsNoMessage, Sets DEF IInv, Kept
<1>7. Disjoint'
  BY <1>1, <1>2, NoneIsNoMessage, Sets DEF IInv, Disjoint
<1>8. Fates'
  BY <1>1, <1>2, NoneIsNoMessage, Sets DEF IInv, Fates, Accepted
<1>9. GivenOnce'
  BY <1>1, <1>2, NoneIsNoMessage, Sets DEF IInv, Disjoint, Fates, GivenOnce, Ungiven
<1>10. Recorded'
  BY <1>1, <1>2, NoneIsNoMessage, Sets DEF IInv, Recorded
<1>11. Remembered'
  BY <1>1, <1>2, NoneIsNoMessage, Sets DEF IInv, Remembered
<1>12. QED
  BY <1>3, <1>4, <1>5, <1>6, <1>7, <1>8, <1>9, <1>10, <1>11 DEF IInv

LEMMA RefuseKeeps ==
  ASSUME IInv, Refuse
  PROVE  IInv'
<1>1. /\ send.pc \in {"probe", "lock"}
      /\ send' \in Sends /\ send'.pc = "none" /\ send'.msg = None
  BY NoSendIs DEF IInv, TypeOK, Shape, Refuse, Probing
<1>2. UNCHANGED <<journal, queue, Rows, Waiting(journal), runNow, row, steering, turn, admit, starter, wake, Steered, cached, stop, fate, given, parked, used>>
  BY <1>1 DEF Refuse, live, ghosts, Rows, Steered, Detached, Probing
<1>3. TypeOK'
  BY <1>1, <1>2 DEF IInv, TypeOK
<1>4. Shape' /\ Exclusive'
  BY <1>1, <1>2, NoneIsNoMessage DEF IInv, Shape, Exclusive, Detached, Replacing
<1>5. Orderly' /\ Fences'
  BY <1>1, <1>2 DEF IInv, Orderly, Fences
<1>6. Kept'
  BY <1>1, <1>2, NoneIsNoMessage, Sets DEF IInv, Kept
<1>7. Disjoint'
  BY <1>1, <1>2, NoneIsNoMessage, Sets DEF IInv, Disjoint
<1>8. Fates'
  BY <1>1, <1>2, NoneIsNoMessage, Sets DEF IInv, Fates, Accepted
<1>9. GivenOnce'
  BY <1>1, <1>2, NoneIsNoMessage, Sets DEF IInv, Disjoint, Fates, GivenOnce, Ungiven
<1>10. Recorded'
  BY <1>1, <1>2, NoneIsNoMessage, Sets DEF IInv, Recorded
<1>11. Remembered'
  BY <1>1, <1>2, NoneIsNoMessage, Sets DEF IInv, Remembered
<1>12. QED
  BY <1>3, <1>4, <1>5, <1>6, <1>7, <1>8, <1>9, <1>10, <1>11 DEF IInv

LEMMA ProbeNonNativeKeeps ==
  ASSUME IInv, ProbeNonNative
  PROVE  IInv'
<1>1. /\ send.pc = "probe"
      /\ send' \in Sends /\ send'.pc = "lock" /\ send'.msg = send.msg
  BY DEF IInv, TypeOK, Shape, ProbeNonNative, Sends
<1>2. UNCHANGED <<journal, queue, Rows, Waiting(journal), runNow, row, steering, turn, admit, starter, wake, Steered, cached, stop, fate, given, parked, used>>
  BY <1>1 DEF ProbeNonNative, live, ghosts, Rows, Steered, Detached, Sends
<1>3. TypeOK'
  BY <1>1, <1>2 DEF IInv, TypeOK
<1>4. Shape' /\ Exclusive'
  BY <1>1, <1>2, NoneIsNoMessage DEF IInv, Shape, Exclusive, Detached, Replacing
<1>5. Orderly' /\ Fences'
  BY <1>1, <1>2 DEF IInv, Orderly, Fences
<1>6. Kept'
  BY <1>1, <1>2, NoneIsNoMessage, Sets DEF IInv, Kept
<1>7. Disjoint'
  BY <1>1, <1>2, NoneIsNoMessage, Sets DEF IInv, Disjoint
<1>8. Fates'
  BY <1>1, <1>2, NoneIsNoMessage, Sets DEF IInv, Fates, Accepted
<1>9. GivenOnce'
  BY <1>1, <1>2, NoneIsNoMessage, Sets DEF IInv, Disjoint, Fates, GivenOnce, Ungiven
<1>10. Recorded'
  BY <1>1, <1>2, NoneIsNoMessage, Sets DEF IInv, Recorded
<1>11. Remembered'
  BY <1>1, <1>2, NoneIsNoMessage, Sets DEF IInv, Remembered
<1>12. QED
  BY <1>3, <1>4, <1>5, <1>6, <1>7, <1>8, <1>9, <1>10, <1>11 DEF IInv

LEMMA AcceptKeeps ==
  ASSUME IInv, Accept
  PROVE  IInv'
<1>1. /\ send.pc = "offered"
      /\ send' \in Sends /\ send'.pc = "accepted" /\ send'.msg = send.msg /\ send'.index = send.index
  BY SendMoves DEF IInv, TypeOK, Shape, Accept, Detached
<1>2. UNCHANGED <<journal, queue, Rows, Waiting(journal), runNow, row, steering, turn, admit, starter, wake, Steered, cached, stop, fate, given, parked, used>>
  BY <1>1 DEF Accept, live, ghosts, Rows, Steered, Detached, Detached
<1>3. TypeOK'
  BY <1>1, <1>2 DEF IInv, TypeOK
<1>4. Shape' /\ Exclusive'
  BY <1>1, <1>2, NoneIsNoMessage DEF IInv, Shape, Exclusive, Detached, Replacing
<1>5. Orderly' /\ Fences'
  BY <1>1, <1>2 DEF IInv, Orderly, Fences
<1>6. Kept'
  BY <1>1, <1>2, NoneIsNoMessage, Sets DEF IInv, Kept
<1>7. Disjoint'
  BY <1>1, <1>2, NoneIsNoMessage, Sets DEF IInv, Disjoint
<1>8. Fates'
  BY <1>1, <1>2, NoneIsNoMessage, Sets DEF IInv, Fates, Accepted
<1>9. GivenOnce'
  BY <1>1, <1>2, NoneIsNoMessage, Sets DEF IInv, Disjoint, Fates, GivenOnce, Ungiven
<1>10. Recorded'
  BY <1>1, <1>2, NoneIsNoMessage, Sets DEF IInv, Recorded
<1>11. Remembered'
  BY <1>1, <1>2, NoneIsNoMessage, Sets DEF IInv, Remembered
<1>12. QED
  BY <1>3, <1>4, <1>5, <1>6, <1>7, <1>8, <1>9, <1>10, <1>11 DEF IInv

LEMMA RejectSafelyKeeps ==
  ASSUME IInv, RejectSafely
  PROVE  IInv'
<1>1. /\ send.pc \in {"offered", "accepted", "fenced"}
      /\ send' \in Sends /\ send'.pc = "rejected" /\ send'.msg = send.msg /\ send'.index = send.index
  BY SendMoves DEF IInv, TypeOK, Shape, RejectSafely, Detached
<1>2. UNCHANGED <<journal, queue, Rows, Waiting(journal), runNow, row, steering, turn, admit, starter, wake, Steered, cached, stop, fate, given, parked, used>>
  BY <1>1 DEF RejectSafely, live, ghosts, Rows, Steered, Detached, Detached
<1>3. TypeOK'
  BY <1>1, <1>2 DEF IInv, TypeOK
<1>4. Shape' /\ Exclusive'
  BY <1>1, <1>2, NoneIsNoMessage DEF IInv, Shape, Exclusive, Detached, Replacing
<1>5. Orderly' /\ Fences'
  BY <1>1, <1>2 DEF IInv, Orderly, Fences
<1>6. Kept'
  BY <1>1, <1>2, NoneIsNoMessage, Sets DEF IInv, Kept
<1>7. Disjoint'
  BY <1>1, <1>2, NoneIsNoMessage, Sets DEF IInv, Disjoint
<1>8. Fates'
  BY <1>1, <1>2, NoneIsNoMessage, Sets DEF IInv, Fates, Accepted
<1>9. GivenOnce'
  BY <1>1, <1>2, NoneIsNoMessage, Sets DEF IInv, Disjoint, Fates, GivenOnce, Ungiven
<1>10. Recorded'
  BY <1>1, <1>2, NoneIsNoMessage, Sets DEF IInv, Recorded
<1>11. Remembered'
  BY <1>1, <1>2, NoneIsNoMessage, Sets DEF IInv, Remembered
<1>12. QED
  BY <1>3, <1>4, <1>5, <1>6, <1>7, <1>8, <1>9, <1>10, <1>11 DEF IInv

LEMMA SteerKeeps ==
  ASSUME IInv, Steer
  PROVE  IInv'
<1>1. /\ send.pc = "fenced" /\ send.msg \in Msgs /\ Steered = {send.msg}
      /\ send' \in Sends /\ send'.pc = "sent" /\ send'.msg = send.msg /\ send'.index = send.index
      /\ given' \in [Msgs -> Nat] /\ given'[send.msg] = given[send.msg] + 1
      /\ \A x \in Msgs : x # send.msg => given'[x] = given[x]
  BY SendMoves, Gives DEF IInv, TypeOK, Shape, Steer, Detached, Steered
<1>2. UNCHANGED <<journal, queue, Rows, Waiting(journal), runNow, row, steering, turn, admit, starter, wake, Steered, cached, stop, fate, parked, used>>
  BY <1>1 DEF Steer, live, ghosts, Rows, Steered, Detached, Detached
<1>3. TypeOK'
  BY <1>1, <1>2 DEF IInv, TypeOK
<1>4. Shape' /\ Exclusive'
  BY <1>1, <1>2, NoneIsNoMessage DEF IInv, Shape, Exclusive, Detached, Replacing
<1>5. Orderly' /\ Fences'
  BY <1>1, <1>2 DEF IInv, Orderly, Fences
<1>6. Kept'
  BY <1>1, <1>2, NoneIsNoMessage, Sets DEF IInv, Kept
<1>7. Disjoint'
  BY <1>1, <1>2, NoneIsNoMessage, Sets DEF IInv, Disjoint
<1>8. Fates'
  BY <1>1, <1>2, NoneIsNoMessage, Sets DEF IInv, Fates, Accepted
<1>9. GivenOnce'
  BY <1>1, <1>2, NoneIsNoMessage, Sets DEF IInv, Disjoint, Fates, GivenOnce, Ungiven, Fences
<1>10. Recorded'
  BY <1>1, <1>2, NoneIsNoMessage, Sets DEF IInv, Recorded
<1>11. Remembered'
  BY <1>1, <1>2, NoneIsNoMessage, Sets DEF IInv, Remembered
<1>12. QED
  BY <1>3, <1>4, <1>5, <1>6, <1>7, <1>8, <1>9, <1>10, <1>11 DEF IInv

LEMMA InterruptKeeps ==
  ASSUME IInv, Interrupt
  PROVE  IInv'
<1>1. /\ send.pc = "stopping"
      /\ turn' \in Turns /\ turn'.state = turn.state /\ turn'.msg = turn.msg
      /\ send' \in Sends /\ send'.pc = "interrupting" /\ send'.msg = send.msg /\ send'.index = send.index
  BY SendMoves DEF IInv, TypeOK, Shape, Interrupt, Replacing, Turns
<1>2. UNCHANGED <<journal, queue, Rows, Waiting(journal), runNow, row, steering, admit, starter, wake, Steered, cached, stop, fate, given, parked, used>>
  BY <1>1 DEF Interrupt, live, ghosts, Rows, Steered, Detached, Replacing, Turns
<1>3. TypeOK'
  BY <1>1, <1>2 DEF IInv, TypeOK
<1>4. Shape' /\ Exclusive'
  BY <1>1, <1>2, NoneIsNoMessage DEF IInv, Shape, Exclusive, Detached, Replacing
<1>5. Orderly' /\ Fences'
  BY <1>1, <1>2 DEF IInv, Orderly, Fences
<1>6. Kept'
  BY <1>1, <1>2, NoneIsNoMessage, Sets DEF IInv, Kept
<1>7. Disjoint'
  BY <1>1, <1>2, NoneIsNoMessage, Sets DEF IInv, Disjoint
<1>8. Fates'
  BY <1>1, <1>2, NoneIsNoMessage, Sets DEF IInv, Fates, Accepted
<1>9. GivenOnce'
  BY <1>1, <1>2, NoneIsNoMessage, Sets DEF IInv, Disjoint, Fates, GivenOnce, Ungiven
<1>10. Recorded'
  BY <1>1, <1>2, NoneIsNoMessage, Sets DEF IInv, Recorded
<1>11. Remembered'
  BY <1>1, <1>2, NoneIsNoMessage, Sets DEF IInv, Remembered
<1>12. QED
  BY <1>3, <1>4, <1>5, <1>6, <1>7, <1>8, <1>9, <1>10, <1>11 DEF IInv

LEMMA SlotFreeKeeps ==
  ASSUME IInv, SlotFree
  PROVE  IInv'
<1>1. /\ send.pc \in {"stopping", "interrupting"}
      /\ send' \in Sends /\ send'.pc = "promoting" /\ send'.msg = send.msg /\ send'.index = send.index
  BY SendMoves DEF IInv, TypeOK, Shape, SlotFree, Replacing
<1>2. UNCHANGED <<journal, queue, Rows, Waiting(journal), runNow, row, steering, turn, admit, starter, wake, Steered, cached, stop, fate, given, parked, used>>
  BY <1>1 DEF SlotFree, live, ghosts, Rows, Steered, Detached, Replacing
<1>3. TypeOK'
  BY <1>1, <1>2 DEF IInv, TypeOK
<1>4. Shape' /\ Exclusive'
  BY <1>1, <1>2, NoneIsNoMessage DEF IInv, Shape, Exclusive, Detached, Replacing
<1>5. Orderly' /\ Fences'
  BY <1>1, <1>2 DEF IInv, Orderly, Fences
<1>6. Kept'
  BY <1>1, <1>2, NoneIsNoMessage, Sets DEF IInv, Kept
<1>7. Disjoint'
  BY <1>1, <1>2, NoneIsNoMessage, Sets DEF IInv, Disjoint
<1>8. Fates'
  BY <1>1, <1>2, NoneIsNoMessage, Sets DEF IInv, Fates, Accepted
<1>9. GivenOnce'
  BY <1>1, <1>2, NoneIsNoMessage, Sets DEF IInv, Disjoint, Fates, GivenOnce, Ungiven
<1>10. Recorded'
  BY <1>1, <1>2, NoneIsNoMessage, Sets DEF IInv, Recorded
<1>11. Remembered'
  BY <1>1, <1>2, NoneIsNoMessage, Sets DEF IInv, Remembered
<1>12. QED
  BY <1>3, <1>4, <1>5, <1>6, <1>7, <1>8, <1>9, <1>10, <1>11 DEF IInv

LEMMA WaiterDoneKeeps ==
  ASSUME IInv, WaiterDone
  PROVE  IInv'
<1>1. Undisturbed
  BY DEF IInv, TypeOK, WaiterDone, Undisturbed, live, ghosts, Busy
<1>2. QED
  BY <1>1, UndisturbedKeeps

LEMMA SettleKeeps ==
  ASSUME IInv, Settle
  PROVE  IInv'
<1>1. /\ send.pc = "settle" /\ send.msg \in Msgs
      /\ send' \in Sends /\ send'.pc = "none" /\ send'.msg = None
      /\ cached' \subseteq cached \cup {send.msg}
      /\ send.msg \in cached' => ~(send.msg \in row.held /\ send.msg \in Rows \cup {runNow})
  BY NoSendIs DEF IInv, TypeOK, Shape, Settle, HeldByStop, Remembered
<1>2. UNCHANGED <<journal, queue, Rows, Waiting(journal), runNow, row, steering, turn, admit, starter, wake, Steered, stop, fate, given, parked, used>>
  BY <1>1 DEF Settle, live, ghosts, Rows, Steered, Detached, HeldByStop
<1>3. TypeOK'
  BY <1>1, <1>2 DEF IInv, TypeOK
<1>4. Shape' /\ Exclusive'
  BY <1>1, <1>2, NoneIsNoMessage DEF IInv, Shape, Exclusive, Detached, Replacing
<1>5. Orderly' /\ Fences'
  BY <1>1, <1>2 DEF IInv, Orderly, Fences
<1>6. Kept'
  BY <1>1, <1>2, NoneIsNoMessage, Sets DEF IInv, Kept
<1>7. Disjoint'
  BY <1>1, <1>2, NoneIsNoMessage, Sets DEF IInv, Disjoint
<1>8. Fates'
  BY <1>1, <1>2, NoneIsNoMessage, Sets DEF IInv, Fates, Accepted
<1>9. GivenOnce'
  BY <1>1, <1>2, NoneIsNoMessage, Sets DEF IInv, Disjoint, Fates, GivenOnce, Ungiven
<1>10. Recorded'
  BY <1>1, <1>2, NoneIsNoMessage, Sets DEF IInv, Recorded
<1>11. Remembered'
  BY <1>1, <1>2, NoneIsNoMessage, Sets DEF IInv, Remembered, Fates
<1>12. QED
  BY <1>3, <1>4, <1>5, <1>6, <1>7, <1>8, <1>9, <1>10, <1>11 DEF IInv

LEMMA ForgetKeeps ==
  ASSUME IInv, NEW m \in Msgs, Forget(m)
  PROVE  IInv'
<1>1. /\ cached' \subseteq cached
  BY DEF IInv, TypeOK, Shape, Forget
<1>2. UNCHANGED <<journal, queue, Rows, Waiting(journal), runNow, row, steering, turn, admit, starter, wake, send, Steered, stop, fate, given, parked, used>>
  BY <1>1 DEF Forget, live, ghosts, Rows, Steered, Detached
<1>3. TypeOK'
  BY <1>1, <1>2 DEF IInv, TypeOK
<1>4. Shape' /\ Exclusive'
  BY <1>1, <1>2, NoneIsNoMessage DEF IInv, Shape, Exclusive, Detached, Replacing
<1>5. Orderly' /\ Fences'
  BY <1>1, <1>2 DEF IInv, Orderly, Fences
<1>6. Kept'
  BY <1>1, <1>2, NoneIsNoMessage, Sets DEF IInv, Kept
<1>7. Disjoint'
  BY <1>1, <1>2, NoneIsNoMessage, Sets DEF IInv, Disjoint
<1>8. Fates'
  BY <1>1, <1>2, NoneIsNoMessage, Sets DEF IInv, Fates, Accepted
<1>9. GivenOnce'
  BY <1>1, <1>2, NoneIsNoMessage, Sets DEF IInv, Disjoint, Fates, GivenOnce, Ungiven
<1>10. Recorded'
  BY <1>1, <1>2, NoneIsNoMessage, Sets DEF IInv, Recorded
<1>11. Remembered'
  BY <1>1, <1>2, NoneIsNoMessage, Sets DEF IInv, Remembered
<1>12. QED
  BY <1>3, <1>4, <1>5, <1>6, <1>7, <1>8, <1>9, <1>10, <1>11 DEF IInv

LEMMA BeginStopKeeps ==
  ASSUME IInv, BeginStop
  PROVE  IInv'
<1>1. /\ stop = "no" /\ admit.pc = "idle" /\ send.pc \notin Replacing /\ stop' = "fenced" /\ used' \in Uses
      /\ turn' \in Turns /\ turn'.state = turn.state /\ turn'.msg = turn.msg
  BY Within DEF IInv, TypeOK, Shape, BeginStop, Locked, Turns
<1>2. UNCHANGED <<journal, queue, Rows, Waiting(journal), runNow, row, steering, admit, starter, wake, send, Steered, cached, fate, given, parked>>
  BY <1>1 DEF BeginStop, live, ghosts, Rows, Steered, Detached, Locked, Turns
<1>3. TypeOK'
  BY <1>1, <1>2 DEF IInv, TypeOK
<1>4. Shape' /\ Exclusive'
  BY <1>1, <1>2, NoneIsNoMessage DEF IInv, Shape, Exclusive, Detached, Replacing
<1>5. Orderly' /\ Fences'
  BY <1>1, <1>2 DEF IInv, Orderly, Fences
<1>6. Kept'
  BY <1>1, <1>2, NoneIsNoMessage, Sets DEF IInv, Kept
<1>7. Disjoint'
  BY <1>1, <1>2, NoneIsNoMessage, Sets DEF IInv, Disjoint
<1>8. Fates'
  BY <1>1, <1>2, NoneIsNoMessage, Sets DEF IInv, Fates, Accepted
<1>9. GivenOnce'
  BY <1>1, <1>2, NoneIsNoMessage, Sets DEF IInv, Disjoint, Fates, GivenOnce, Ungiven
<1>10. Recorded'
  BY <1>1, <1>2, NoneIsNoMessage, Sets DEF IInv, Recorded
<1>11. Remembered'
  BY <1>1, <1>2, NoneIsNoMessage, Sets DEF IInv, Remembered
<1>12. QED
  BY <1>3, <1>4, <1>5, <1>6, <1>7, <1>8, <1>9, <1>10, <1>11 DEF IInv

LEMMA FinishStopKeeps ==
  ASSUME IInv, FinishStop
  PROVE  IInv'
<1>1. /\ stop' = "no" /\ wake' = TRUE /\ send.pc \notin Replacing
  BY DEF IInv, TypeOK, Shape, FinishStop, Locked
<1>2. UNCHANGED <<journal, queue, Rows, Waiting(journal), runNow, row, steering, turn, admit, starter, send, Steered, cached, fate, given, parked, used>>
  BY <1>1 DEF FinishStop, live, ghosts, Rows, Steered, Detached, Locked
<1>3. TypeOK'
  BY <1>1, <1>2 DEF IInv, TypeOK
<1>4. Shape' /\ Exclusive'
  BY <1>1, <1>2, NoneIsNoMessage DEF IInv, Shape, Exclusive, Detached, Replacing
<1>5. Orderly' /\ Fences'
  BY <1>1, <1>2 DEF IInv, Orderly, Fences
<1>6. Kept'
  BY <1>1, <1>2, NoneIsNoMessage, Sets DEF IInv, Kept
<1>7. Disjoint'
  BY <1>1, <1>2, NoneIsNoMessage, Sets DEF IInv, Disjoint
<1>8. Fates'
  BY <1>1, <1>2, NoneIsNoMessage, Sets DEF IInv, Fates, Accepted
<1>9. GivenOnce'
  BY <1>1, <1>2, NoneIsNoMessage, Sets DEF IInv, Disjoint, Fates, GivenOnce, Ungiven
<1>10. Recorded'
  BY <1>1, <1>2, NoneIsNoMessage, Sets DEF IInv, Recorded
<1>11. Remembered'
  BY <1>1, <1>2, NoneIsNoMessage, Sets DEF IInv, Remembered
<1>12. QED
  BY <1>3, <1>4, <1>5, <1>6, <1>7, <1>8, <1>9, <1>10, <1>11 DEF IInv

LEMMA PollKeeps ==
  ASSUME IInv, Poll
  PROVE  IInv'
<1>1. Undisturbed
  BY DEF IInv, TypeOK, Poll, Undisturbed, live, ghosts, Busy, Runnable
<1>2. QED
  BY <1>1, UndisturbedKeeps

LEMMA PromoteKeeps ==
  ASSUME IInv, Promote
  PROVE  IInv'
<1>1. /\ admit.pc = "idle" /\ send.pc \notin Replacing
      /\ queue' \in Seq(Msgs) /\ IsInjective(queue') /\ Rows' \subseteq Rows \cup {runNow}
      /\ Rows \cup {runNow} \subseteq Rows' \cup {runNow', admit'.msg, None}
      /\ runNow' \in {None, runNow} /\ runNow' \notin Rows'
      /\ admit' \in Admissions /\ (admit'.pc = "idle" <=> admit'.msg = None) /\ admit'.pc # "started"
      /\ admit'.msg \notin Rows' /\ (runNow' # None => runNow' # admit'.msg)
      /\ admit'.msg # None => admit'.msg \in Rows \cup {runNow} /\ admit'.msg \notin row.held
      /\ runNow \in Rows' => runNow \in row.held
      /\ starter' \in {"none", "admitting"} /\ (starter' = "admitting" <=> admit'.pc # "idle")
  <2>1. /\ admit \in Admissions /\ admit.pc = "idle" /\ admit.msg = None /\ send.pc \notin Replacing
        /\ runNow \in Msg /\ runNow \notin Rows
    BY DEF IInv, TypeOK, Shape, Disjoint, Promote, Locked
  <2>2. CASE GiveUp /\ UNCHANGED <<queue, runNow>>
    <3>1. Rows' = Rows /\ queue' = queue /\ runNow' = runNow /\ admit' = admit /\ starter' = "none"
      BY <2>2 DEF Rows, GiveUp
    <3>2. QED
      BY <2>1, <3>1, Sets, NoneIsNoMessage
  <2>3. CASE runNow \in row.held /\ runNow' = None /\ queue' = <<runNow>> \o queue /\ GiveUp
    <3>1. runNow \in Msgs
      BY <2>1, <2>3, NoneIsNoMessage DEF IInv, TypeOK, Marks
    <3>2. queue' \in Seq(Msgs) /\ Rows' = Rows \cup {runNow} /\ IsInjective(queue')
      BY <2>1, <2>3, <3>1, Sets, PrependKeeps DEF Rows
    <3>3. QED
      BY <2>1, <2>3, <3>1, <3>2, Sets, NoneIsNoMessage DEF IInv, TypeOK, GiveUp
  <2>4. CASE Runnable(runNow) /\ Admit(runNow) /\ runNow' = None /\ UNCHANGED queue
    BY <2>1, <2>4, Sets, NoneIsNoMessage DEF Runnable, Admit, Admissions, Msg, Rows
  <2>5. CASE runNow = None /\ UNCHANGED runNow /\ Runnable(Head1) /\ Admit(Head1) /\ queue' = Tail(queue)
    <3>1. queue # <<>> /\ Head1 = Head(queue)
      BY <2>5 DEF Runnable, Head1
    <3>2. queue' \in Seq(Msgs) /\ IsInjective(queue') /\ Head1 \in Rows /\ Rows' = Rows \ {Head1}
      BY <2>5, <3>1, Sets, TailKeeps DEF Rows
    <3>3. QED
      BY <2>1, <2>5, <3>2, Sets, NoneIsNoMessage DEF Runnable, Admit, Admissions, Msg
  <2>6. TakeNext
    BY DEF Promote
  <2>7. QED
    BY <2>2, <2>3, <2>4, <2>5, <2>6 DEF TakeNext, live
<1>2. UNCHANGED <<journal, Waiting(journal), row, steering, turn, wake, send, Steered, cached, stop, fate, given, parked, used>>
  BY <1>1 DEF Promote, live, ghosts, Rows, Steered, Detached, TakeNext
<1>3. TypeOK'
  BY <1>1, <1>2 DEF IInv, TypeOK, Msg
<1>4. Shape' /\ Exclusive'
  BY <1>1, <1>2, NoneIsNoMessage DEF IInv, Shape, Exclusive, Detached, Replacing
<1>5. Orderly' /\ Fences'
  BY <1>1, <1>2 DEF IInv, Orderly, Fences
<1>6. Kept'
  BY <1>1, <1>2, NoneIsNoMessage, Sets DEF IInv, Kept, Shape
<1>7. Disjoint'
  BY <1>1, <1>2, NoneIsNoMessage, Sets DEF IInv, Disjoint, Shape
<1>8. Fates'
  BY <1>1, <1>2, NoneIsNoMessage, Sets DEF IInv, Fates, Accepted
<1>9. GivenOnce'
  BY <1>1, <1>2, NoneIsNoMessage, Sets DEF IInv, Disjoint, Fates, GivenOnce, Ungiven, Fences
<1>10. Recorded'
  BY <1>1, <1>2, NoneIsNoMessage, Sets DEF IInv, Recorded
<1>11. Remembered'
  BY <1>1, <1>2, NoneIsNoMessage, Sets DEF IInv, Remembered
<1>12. QED
  BY <1>3, <1>4, <1>5, <1>6, <1>7, <1>8, <1>9, <1>10, <1>11 DEF IInv

LEMMA PlaceInQueue ==
  ASSUME queue \in Seq(Msgs), IsInjective(queue), send.index \in Nat \ {0}, send.msg \in Msgs \ Rows
  PROVE  /\ PutBack(queue) \in Seq(Msgs) /\ IsInjective(PutBack(queue))
         /\ ToSet(PutBack(queue)) = Rows \cup {send.msg}
         /\ PutAtIndex(queue) \in Seq(Msgs) /\ IsInjective(PutAtIndex(queue))
         /\ ToSet(PutAtIndex(queue)) = Rows \cup {send.msg}
<1> DEFINE last == IF send.index > Len(queue) THEN Len(queue) + 1 ELSE send.index
           at == IF Place(queue, send.after) # 0 THEN Place(queue, send.after)
                 ELSE IF Place(queue, send.before) # 0 THEN Place(queue, send.before) + 1
                 ELSE last
<1>1. PutBack(queue) = InsertAt(queue, at, send.msg) /\ PutAtIndex(queue) = InsertAt(queue, last, send.msg)
  BY DEF PutBack, PutAtIndex
<1>2. Len(queue) \in Nat
  BY Elements
<1>3. \A m : Place(queue, m) \in 0 .. Len(queue)
  BY <1>2, PlaceIs
<1>4. at \in 1 .. Len(queue) + 1 /\ last \in 1 .. Len(queue) + 1
  BY <1>2, <1>3
<1> HIDE DEF at, last
<1>5. QED
  BY <1>1, <1>4, InsertKeeps DEF Rows

\* The admission is over, and a promoted row is back in the queue.
BackInQueue ==
  /\ admit.pc # "idle"
  /\ admit' = NoAdmission
  /\ starter' = IF starter = "admitting" THEN "none" ELSE starter
  /\ queue' = IF starter = "admitting" THEN <<admit.msg>> \o queue ELSE queue
  /\ wake' \in BOOLEAN /\ used' \in Uses
  /\ UNCHANGED <<journal, runNow, row, steering, turn, send, cached, stop, ghosts>>

LEMMA BackInQueueKeeps ==
  ASSUME IInv, BackInQueue
  PROVE  IInv'
<1>1. /\ admit.pc # "idle" /\ admit.msg \in Msgs /\ admit.msg \notin Rows
      /\ admit' \in Admissions /\ admit'.pc = "idle" /\ admit'.msg = None
      /\ starter' \in {"none", "waiting", "admitting"} /\ starter' # "admitting" /\ wake' \in BOOLEAN /\ used' \in Uses
      /\ queue' \in Seq(Msgs) /\ IsInjective(queue')
      /\ Rows' = IF starter = "admitting" THEN Rows \cup {admit.msg} ELSE Rows
  <2>1. admit.pc # "idle" /\ admit.msg \in Msgs /\ admit.msg \notin Rows
    BY DEF IInv, TypeOK, Admissions, Msg, Shape, Disjoint, BackInQueue
  <2>2. CASE starter = "admitting"
    <3>1. queue' = <<admit.msg>> \o queue
      BY <2>2 DEF BackInQueue
    <3>2. queue' \in Seq(Msgs) /\ IsInjective(queue') /\ Rows' = Rows \cup {admit.msg}
      BY <2>1, <3>1, Sets, PrependKeeps DEF Rows
    <3>3. QED
      BY <2>1, <2>2, <3>2, NoAdmissionIs DEF IInv, TypeOK, BackInQueue
  <2>3. CASE starter # "admitting"
    <3>1. queue' = queue /\ Rows' = Rows
      BY <2>3 DEF BackInQueue, Rows
    <3>2. QED
      BY <2>1, <2>3, <3>1, Sets, NoAdmissionIs DEF IInv, TypeOK, BackInQueue
  <2>4. QED
    BY <2>2, <2>3
<1>2. UNCHANGED <<journal, Waiting(journal), runNow, row, steering, turn, send, Steered, cached, stop, fate, given, parked>>
  BY <1>1 DEF BackInQueue, live, ghosts, Rows, Steered, Detached
<1>3. TypeOK'
  BY <1>1, <1>2 DEF IInv, TypeOK
<1>4. Shape' /\ Exclusive'
  BY <1>1, <1>2, NoneIsNoMessage DEF IInv, Shape, Exclusive, Detached, Replacing
<1>5. Orderly' /\ Fences'
  BY <1>1, <1>2 DEF IInv, Orderly, Fences
<1>6. Kept'
  BY <1>1, <1>2, NoneIsNoMessage, Sets DEF IInv, Kept, Fates, Accepted, Admissions, TypeOK
<1>7. Disjoint'
  BY <1>1, <1>2, NoneIsNoMessage, Sets DEF IInv, Disjoint, Shape
<1>8. Fates'
  BY <1>1, <1>2, NoneIsNoMessage, Sets DEF IInv, Fates, Accepted, Admissions, TypeOK, Shape
<1>9. GivenOnce'
  BY <1>1, <1>2, NoneIsNoMessage, Sets DEF IInv, Disjoint, Fates, GivenOnce, Ungiven
<1>10. Recorded'
  BY <1>1, <1>2, NoneIsNoMessage, Sets DEF IInv, Recorded
<1>11. Remembered'
  BY <1>1, <1>2, NoneIsNoMessage, Sets DEF IInv, Remembered
<1>12. QED
  BY <1>3, <1>4, <1>5, <1>6, <1>7, <1>8, <1>9, <1>10, <1>11 DEF IInv

LEMMA AdmissionWaitsKeeps ==
  ASSUME IInv, AdmissionWaits
  PROVE  IInv'
<1>1. BackInQueue
  BY DEF IInv, TypeOK, AdmissionWaits, Refused, BackInQueue
<1>2. QED
  BY <1>1, BackInQueueKeeps

LEMMA AdmissionFailsKeeps ==
  ASSUME IInv, AdmissionFails
  PROVE  IInv'
<1>1. BackInQueue
  BY Within DEF IInv, TypeOK, AdmissionFails, Refused, BackInQueue
<1>2. QED
  BY <1>1, BackInQueueKeeps

LEMMA DiscardRemoves ==
  ASSUME IInv, Discard, UNCHANGED queue, wake' = TRUE, journal' = Consumed(journal, admit.msg),
         fate' = [fate EXCEPT ![admit.msg] = "removed"]
  PROVE  IInv'
<1>1. /\ admit.pc = "reserved" /\ starter = "admitting" /\ admit.msg \in Msgs
      /\ admit' \in Admissions /\ admit'.pc = "idle" /\ admit'.msg = None
      /\ starter' = "none" /\ wake' = TRUE /\ used' \in Uses
      /\ JournalWithout(admit.msg) /\ Becomes(admit.msg, "removed")
  <2>1. admit.pc = "reserved" /\ starter = "admitting" /\ admit.msg \in Msgs
    BY DEF IInv, TypeOK, Admissions, Msg, Shape, Discard
  <2>2. JournalWithout(admit.msg)
    BY Sets, ConsumedKeeps DEF JournalWithout
  <2>3. Becomes(admit.msg, "removed")
    BY <2>1, FateBecomes DEF IInv, TypeOK
  <2>4. QED
    BY <2>1, <2>2, <2>3, NoAdmissionIs, Within DEF IInv, TypeOK, Discard
<1>2. UNCHANGED <<queue, Rows, runNow, row, steering, turn, send, Steered, cached, stop, given, parked>>
  BY <1>1 DEF Discard, live, ghosts, Rows, Steered, Detached
<1>3. TypeOK'
  BY <1>1, <1>2 DEF IInv, TypeOK, JournalWithout, Becomes, Sound
<1>4. Shape' /\ Exclusive'
  BY <1>1, <1>2, NoneIsNoMessage DEF IInv, Shape, Exclusive, Detached, Replacing
<1>5. Orderly' /\ Fences'
  BY <1>1, <1>2 DEF IInv, Orderly, Fences, JournalWithout, Becomes, Disjoint, Steered, Detached
<1>6. Kept'
  BY <1>1, <1>2, NoneIsNoMessage, Sets DEF IInv, Kept, JournalWithout, Becomes
<1>7. Disjoint'
  BY <1>1, <1>2, NoneIsNoMessage, Sets DEF IInv, Disjoint, JournalWithout, Becomes, Shape
<1>8. Fates'
  BY <1>1, <1>2, NoneIsNoMessage, Sets DEF IInv, Fates, Accepted, JournalWithout, Becomes, Disjoint, Shape
<1>9. GivenOnce'
  BY <1>1, <1>2, NoneIsNoMessage, Sets DEF IInv, Disjoint, Fates, GivenOnce, Ungiven, JournalWithout, Becomes
<1>10. Recorded'
  BY <1>1, <1>2, NoneIsNoMessage, Sets DEF IInv, Recorded, JournalWithout, Becomes
<1>11. Remembered'
  BY <1>1, <1>2, NoneIsNoMessage, Sets DEF IInv, Remembered, JournalWithout, Becomes
<1>12. QED
  BY <1>3, <1>4, <1>5, <1>6, <1>7, <1>8, <1>9, <1>10, <1>11 DEF IInv

LEMMA DiscardKeeps ==
  ASSUME IInv, Discard
  PROVE  IInv'
<1>1. CASE UNCHANGED <<journal, fate, wake>> /\ queue' = <<admit.msg>> \o queue
  <2>1. BackInQueue
    BY <1>1, Within DEF IInv, TypeOK, Discard, BackInQueue, ghosts
  <2>2. QED
    BY <2>1, BackInQueueKeeps
<1>2. QED
  BY <1>1, DiscardRemoves DEF Discard

LEMMA PersistStartKeeps ==
  ASSUME IInv, PersistStart
  PROVE  IInv'
<1>1. /\ admit.pc = "reserved" /\ admit.msg \in Msgs /\ turn.state = "idle"
      /\ admit' \in Admissions /\ admit'.pc = "started" /\ admit'.msg = admit.msg
      /\ JournalWithout(admit.msg) /\ Becomes(admit.msg, "started")
  <2>1. admit.pc = "reserved" /\ admit.msg \in Msgs
    BY DEF IInv, TypeOK, Admissions, Msg, Shape, PersistStart
  <2>2. JournalWithout(admit.msg)
    BY Sets, ConsumedKeeps DEF PersistStart, JournalWithout
  <2>3. Becomes(admit.msg, "started")
    BY <2>1, FateBecomes DEF IInv, TypeOK, PersistStart
  <2>4. QED
    BY <2>1, <2>2, <2>3 DEF IInv, TypeOK, Admissions, PersistStart
<1>2. UNCHANGED <<queue, Rows, runNow, row, steering, turn, starter, wake, send, Steered, cached, stop, given, parked, used>>
  BY <1>1 DEF PersistStart, live, ghosts, Rows, Steered, Detached
<1>3. TypeOK'
  BY <1>1, <1>2 DEF IInv, TypeOK, JournalWithout, Becomes, Sound
<1>4. Shape' /\ Exclusive'
  BY <1>1, <1>2, NoneIsNoMessage DEF IInv, Shape, Exclusive, Detached, Replacing
<1>5. Orderly' /\ Fences'
  BY <1>1, <1>2 DEF IInv, Orderly, Fences, JournalWithout, Becomes, Disjoint, Steered, Detached
<1>6. Kept'
  BY <1>1, <1>2, NoneIsNoMessage, Sets DEF IInv, Kept, JournalWithout, Becomes
<1>7. Disjoint'
  BY <1>1, <1>2, NoneIsNoMessage, Sets DEF IInv, Disjoint, JournalWithout, Becomes, Shape
<1>8. Fates'
  BY <1>1, <1>2, NoneIsNoMessage, Sets DEF IInv, Fates, Accepted, JournalWithout, Becomes, Disjoint, Shape
<1>9. GivenOnce'
  BY <1>1, <1>2, NoneIsNoMessage, Sets DEF IInv, Disjoint, Fates, GivenOnce, Ungiven, JournalWithout, Becomes
<1>10. Recorded'
  BY <1>1, <1>2, NoneIsNoMessage, Sets DEF IInv, Recorded, JournalWithout, Becomes
<1>11. Remembered'
  BY <1>1, <1>2, NoneIsNoMessage, Sets DEF IInv, Remembered, JournalWithout, Becomes
<1>12. QED
  BY <1>3, <1>4, <1>5, <1>6, <1>7, <1>8, <1>9, <1>10, <1>11 DEF IInv

LEMMA UnqueueRemoves ==
  ASSUME IInv, NEW m \in Msgs, Unqueue(m), journal' = Consumed(journal, m),
         queue' = RemoveFirst(queue, m), row' = Unmarked({m}), fate' = [fate EXCEPT ![m] = "removed"],
         UNCHANGED used
  PROVE  IInv'
<1>1. /\ m \in Rows
      /\ queue' \in Seq(Msgs) /\ IsInjective(queue') /\ Rows' = Rows \ {m}
      /\ row' \in Marks /\ row'.held = row.held \ {m} /\ row'.fenced = row.fenced \ {m} /\ used' \in Uses
      /\ JournalWithout(m) /\ Becomes(m, "removed")
  <2>1. JournalWithout(m)
    BY Sets, ConsumedKeeps DEF JournalWithout
  <2>2. queue' \in Seq(Msgs) /\ IsInjective(queue') /\ Rows' = Rows \ {m}
    BY Sets, RemoveFirstKeeps DEF Rows
  <2>3. row' \in Marks /\ row'.held = row.held \ {m} /\ row'.fenced = row.fenced \ {m}
    BY Unmarks DEF IInv, TypeOK
  <2>4. Becomes(m, "removed")
    BY FateBecomes DEF IInv, TypeOK
  <2>5. QED
    BY <2>1, <2>2, <2>3, <2>4 DEF IInv, TypeOK, Unqueue
<1>2. UNCHANGED <<runNow, steering, turn, admit, starter, wake, send, Steered, cached, stop, given, parked>>
  BY <1>1 DEF Unqueue, live, ghosts, Rows, Steered, Detached
<1>3. TypeOK'
  BY <1>1, <1>2 DEF IInv, TypeOK, JournalWithout, Becomes, Sound
<1>4. Shape' /\ Exclusive'
  BY <1>1, <1>2, NoneIsNoMessage DEF IInv, Shape, Exclusive, Detached, Replacing
<1>5. Orderly' /\ Fences'
  BY <1>1, <1>2 DEF IInv, Orderly, Fences, JournalWithout, Becomes, Disjoint, Steered, Detached
<1>6. Kept'
  BY <1>1, <1>2, NoneIsNoMessage, Sets DEF IInv, Kept, JournalWithout, Becomes
<1>7. Disjoint'
  BY <1>1, <1>2, NoneIsNoMessage, Sets DEF IInv, Disjoint, JournalWithout, Becomes, Shape
<1>8. Fates'
  BY <1>1, <1>2, NoneIsNoMessage, Sets DEF IInv, Fates, Accepted, JournalWithout, Becomes, Disjoint, Shape
<1>9. GivenOnce'
  BY <1>1, <1>2, NoneIsNoMessage, Sets DEF IInv, Disjoint, Fates, GivenOnce, Ungiven, JournalWithout, Becomes
<1>10. Recorded'
  BY <1>1, <1>2, NoneIsNoMessage, Sets DEF IInv, Recorded, JournalWithout, Becomes
<1>11. Remembered'
  BY <1>1, <1>2, NoneIsNoMessage, Sets DEF IInv, Remembered, JournalWithout, Becomes
<1>12. QED
  BY <1>3, <1>4, <1>5, <1>6, <1>7, <1>8, <1>9, <1>10, <1>11 DEF IInv

LEMMA UnqueueKeeps ==
  ASSUME IInv, NEW m \in Msgs, Unqueue(m)
  PROVE  IInv'
<1>1. CASE NotAppended /\ UNCHANGED <<queue, row, fate>>
  <2>1. Undisturbed
    BY <1>1, Within DEF IInv, TypeOK, Unqueue, NotAppended, Undisturbed
  <2>2. QED
    BY <2>1, UndisturbedKeeps
<1>2. QED
  BY <1>1, UnqueueRemoves DEF Unqueue, Appended

LEMMA MoveKeeps ==
  ASSUME IInv, NEW i \in DOMAIN queue, Move(i)
  PROVE  IInv'
<1>1. /\ queue' \in Seq(Msgs) /\ IsInjective(queue') /\ Rows' = Rows /\ used' \in Uses
      /\ Sound(journal', Msgs) /\ Waiting(journal') = Waiting(journal)
      /\ journal'.held = journal.held /\ journal'.fenced = journal.fenced
  <2> DEFINE moved == [queue EXCEPT ![i - 1] = queue[i], ![i] = queue[i - 1]]
  <2>1. i \in 2 .. Len(queue)
    BY Sets, Elements DEF Move
  <2>2. moved \in Seq(Msgs) /\ IsInjective(moved) /\ ToSet(moved) = ToSet(queue)
    BY <2>1, Sets, SwapKeeps
  <2>3. queue' = moved /\ journal' = Reordered(journal, moved)
    BY DEF Move
  <2> HIDE DEF moved
  <2>4. /\ Sound(journal', Msgs) /\ Waiting(journal') = Waiting(journal)
        /\ journal'.held = journal.held /\ journal'.fenced = journal.fenced
    BY <2>2, <2>3, Sets, ReorderedKeeps
  <2>5. used' \in Uses
    BY Within DEF IInv, TypeOK, Move
  <2>6. QED
    BY <2>2, <2>3, <2>4, <2>5 DEF Rows
<1>2. UNCHANGED <<runNow, row, steering, turn, admit, starter, wake, send, Steered, cached, stop, fate, given, parked>>
  BY <1>1 DEF Move, live, ghosts, Rows, Steered, Detached
<1>3. TypeOK'
  BY <1>1, <1>2 DEF IInv, TypeOK, Sound
<1>4. Shape' /\ Exclusive'
  BY <1>1, <1>2, NoneIsNoMessage DEF IInv, Shape, Exclusive, Detached, Replacing
<1>5. Orderly' /\ Fences'
  BY <1>1, <1>2 DEF IInv, Orderly, Fences
<1>6. Kept'
  BY <1>1, <1>2, NoneIsNoMessage, Sets DEF IInv, Kept
<1>7. Disjoint'
  BY <1>1, <1>2, NoneIsNoMessage, Sets DEF IInv, Disjoint
<1>8. Fates'
  BY <1>1, <1>2, NoneIsNoMessage, Sets DEF IInv, Fates, Accepted
<1>9. GivenOnce'
  BY <1>1, <1>2, NoneIsNoMessage, Sets DEF IInv, Disjoint, Fates, GivenOnce, Ungiven
<1>10. Recorded'
  BY <1>1, <1>2, NoneIsNoMessage, Sets DEF IInv, Recorded
<1>11. Remembered'
  BY <1>1, <1>2, NoneIsNoMessage, Sets DEF IInv, Remembered
<1>12. QED
  BY <1>3, <1>4, <1>5, <1>6, <1>7, <1>8, <1>9, <1>10, <1>11 DEF IInv

LEMMA SubmitQueues ==
  ASSUME IInv, NEW m \in Msgs, Submit(m), journal' = Queued(journal, m), queue' = Append(queue, m),
         fate' = [fate EXCEPT ![m] = "waiting"], wake' = (wake \/ ~Busy), UNCHANGED <<admit, used>>
  PROVE  IInv'
<1>1. /\ fate[m] = "new" /\ m \notin Rows /\ admit.pc = "idle"
      /\ queue' \in Seq(Msgs) /\ IsInjective(queue') /\ Rows' = Rows \cup {m} /\ wake' \in BOOLEAN
      /\ Sound(journal', Msgs) /\ Waiting(journal') = Waiting(journal) \cup {m}
      /\ journal'.held = journal.held \ {m} /\ journal'.fenced = journal.fenced \ {m}
      /\ Becomes(m, "waiting")
  <2>1. fate[m] = "new" /\ m \notin Rows /\ admit.pc = "idle"
    BY DEF IInv, Fates, Accepted, Submit, Locked
  <2>2. /\ Sound(journal', Msgs) /\ Waiting(journal') = Waiting(journal) \cup {m}
        /\ journal'.held = journal.held \ {m} /\ journal'.fenced = journal.fenced \ {m}
    BY Sets, QueuedKeeps
  <2>3. queue' \in Seq(Msgs) /\ IsInjective(queue') /\ Rows' = Rows \cup {m}
    BY <2>1, Sets, AppendKeeps DEF Rows
  <2>4. Becomes(m, "waiting")
    BY FateBecomes DEF IInv, TypeOK
  <2>5. QED
    BY <2>1, <2>2, <2>3, <2>4 DEF IInv, TypeOK
<1>2. UNCHANGED <<runNow, row, steering, turn, admit, starter, send, Steered, cached, stop, given, parked, used>>
  BY <1>1 DEF Submit, live, ghosts, Rows, Steered, Detached
<1>3. TypeOK'
  BY <1>1, <1>2 DEF IInv, TypeOK, Becomes, Sound
<1>4. Shape' /\ Exclusive'
  BY <1>1, <1>2, NoneIsNoMessage DEF IInv, Shape, Exclusive, Detached, Replacing
<1>5. Orderly' /\ Fences'
  BY <1>1, <1>2 DEF IInv, Orderly, Fences, Becomes, Fates
<1>6. Kept'
  BY <1>1, <1>2, NoneIsNoMessage, Sets DEF IInv, Kept, Becomes
<1>7. Disjoint'
  BY <1>1, <1>2, NoneIsNoMessage, Sets DEF IInv, Disjoint, Becomes, Fates, Accepted, Shape
<1>8. Fates'
  BY <1>1, <1>2, NoneIsNoMessage, Sets DEF IInv, Fates, Accepted, Becomes, Disjoint, Shape
<1>9. GivenOnce'
  BY <1>1, <1>2, NoneIsNoMessage, Sets DEF IInv, Disjoint, Fates, GivenOnce, Ungiven, Becomes
<1>10. Recorded'
  BY <1>1, <1>2, NoneIsNoMessage, Sets DEF IInv, Recorded, Becomes
<1>11. Remembered'
  BY <1>1, <1>2, NoneIsNoMessage, Sets DEF IInv, Remembered, Becomes
<1>12. QED
  BY <1>3, <1>4, <1>5, <1>6, <1>7, <1>8, <1>9, <1>10, <1>11 DEF IInv

LEMMA SubmitReserves ==
  ASSUME IInv, NEW m \in Msgs, Submit(m), ~(Busy \/ stop # "no" \/ PriorQueue),
         admit' = [pc |-> "reserved", msg |-> m], UNCHANGED <<journal, queue, fate, wake, used>>
  PROVE  IInv'
<1>1. /\ fate[m] = "new" /\ turn.state = "idle" /\ starter = "none" /\ admit.pc = "idle" /\ send.pc \notin Replacing
      /\ admit' \in Admissions /\ admit'.pc = "reserved" /\ admit'.msg = m
  <2>1. turn.state = "idle" /\ starter = "none" /\ admit.pc = "idle" /\ send.pc \notin Replacing
    BY DEF Submit, Busy, PriorQueue, Locked
  <2>2. admit' \in Admissions /\ admit'.pc = "reserved" /\ admit'.msg = m
    BY DEF Admissions, Msg
  <2>3. QED
    BY <2>1, <2>2 DEF Submit
<1>2. UNCHANGED <<journal, queue, Rows, Waiting(journal), runNow, row, steering, turn, starter, wake, send, Steered, cached, stop, fate, given, parked, used>>
  BY <1>1 DEF Submit, live, ghosts, Rows, Steered, Detached
<1>3. TypeOK'
  BY <1>1, <1>2 DEF IInv, TypeOK
<1>4. Shape' /\ Exclusive'
  BY <1>1, <1>2, NoneIsNoMessage DEF IInv, Shape, Exclusive, Detached, Replacing
<1>5. Orderly' /\ Fences'
  BY <1>1, <1>2 DEF IInv, Orderly, Fences
<1>6. Kept'
  BY <1>1, <1>2, NoneIsNoMessage, Sets DEF IInv, Kept, Shape
<1>7. Disjoint'
  BY <1>1, <1>2, NoneIsNoMessage, Sets DEF IInv, Disjoint, Fates, Accepted
<1>8. Fates'
  BY <1>1, <1>2, NoneIsNoMessage, Sets DEF IInv, Fates, Accepted, Shape
<1>9. GivenOnce'
  BY <1>1, <1>2, NoneIsNoMessage, Sets DEF IInv, Disjoint, Fates, GivenOnce, Ungiven
<1>10. Recorded'
  BY <1>1, <1>2, NoneIsNoMessage, Sets DEF IInv, Recorded
<1>11. Remembered'
  BY <1>1, <1>2, NoneIsNoMessage, Sets DEF IInv, Remembered
<1>12. QED
  BY <1>3, <1>4, <1>5, <1>6, <1>7, <1>8, <1>9, <1>10, <1>11 DEF IInv

LEMMA SubmitKeeps ==
  ASSUME IInv, NEW m \in Msgs, Submit(m)
  PROVE  IInv'
<1>1. CASE UNCHANGED <<journal, queue, fate, wake, admit>> /\ Fault
  <2>1. Undisturbed
    BY <1>1, Within DEF IInv, TypeOK, Submit, Undisturbed
  <2>2. QED
    BY <2>1, UndisturbedKeeps
<1>2. QED
  BY <1>1, SubmitQueues, SubmitReserves DEF Submit, Enqueue, Appended, NotAppended

LEMMA FenceWritten ==
  ASSUME IInv, Fence, journal' = DeliveryFenced(journal, send.msg, send.index), UNCHANGED used,
         row' = [row EXCEPT !.held = @ \cup {send.msg}, !.fenced = @ \cup {send.msg}], SendGoesTo("fenced")
  PROVE  IInv'
<1>1. /\ send.pc = "accepted" /\ send.msg \in Msgs /\ Steered = {send.msg}
      /\ send' \in Sends /\ send'.pc = "fenced" /\ send'.msg = send.msg /\ send'.index = send.index
      /\ row' \in Marks /\ row'.held = row.held \cup {send.msg} /\ row'.fenced = row.fenced \cup {send.msg}
      /\ Sound(journal', Msgs) /\ Waiting(journal') = Waiting(journal) \cup {send.msg}
      /\ journal'.held = journal.held \cup {send.msg} /\ journal'.fenced = journal.fenced \cup {send.msg}
  <2>1. send.pc = "accepted" /\ send.msg \in Msgs /\ Steered = {send.msg} /\ send.index \in Nat \ {0}
    BY DEF IInv, TypeOK, Sends, Shape, Detached, Steered, Fence
  <2>2. /\ Sound(journal', Msgs) /\ Waiting(journal') = Waiting(journal) \cup {send.msg}
        /\ journal'.held = journal.held \cup {send.msg} /\ journal'.fenced = journal.fenced \cup {send.msg}
    BY <2>1, Sets, DeliveryFencedKeeps
  <2>3. row' \in Marks /\ row'.held = row.held \cup {send.msg} /\ row'.fenced = row.fenced \cup {send.msg}
    BY <2>1 DEF IInv, TypeOK, Marks
  <2>4. send' \in Sends /\ send'.pc = "fenced" /\ send'.msg = send.msg /\ send'.index = send.index
    BY SendMoves DEF IInv, TypeOK, Detached
  <2>5. QED
    BY <2>1, <2>2, <2>3, <2>4
<1>2. UNCHANGED <<queue, Rows, runNow, steering, turn, admit, starter, wake, Steered, cached, stop, fate, given, parked>>
  BY <1>1 DEF Fence, live, ghosts, Rows, Steered, Detached
<1>3. TypeOK'
  BY <1>1, <1>2 DEF IInv, TypeOK, Sound
<1>4. Shape' /\ Exclusive'
  BY <1>1, <1>2, NoneIsNoMessage DEF IInv, Shape, Exclusive, Detached, Replacing
<1>5. Orderly' /\ Fences'
  BY <1>1, <1>2 DEF IInv, Orderly, Fences
<1>6. Kept'
  BY <1>1, <1>2, NoneIsNoMessage, Sets DEF IInv, Kept
<1>7. Disjoint'
  BY <1>1, <1>2, NoneIsNoMessage, Sets DEF IInv, Disjoint
<1>8. Fates'
  BY <1>1, <1>2, NoneIsNoMessage, Sets DEF IInv, Fates, Accepted, Disjoint
<1>9. GivenOnce'
  BY <1>1, <1>2, NoneIsNoMessage, Sets DEF IInv, Disjoint, Fates, GivenOnce, Ungiven
<1>10. Recorded'
  BY <1>1, <1>2, NoneIsNoMessage, Sets DEF IInv, Recorded
<1>11. Remembered'
  BY <1>1, <1>2, NoneIsNoMessage, Sets DEF IInv, Remembered, Disjoint
<1>12. QED
  BY <1>3, <1>4, <1>5, <1>6, <1>7, <1>8, <1>9, <1>10, <1>11 DEF IInv

LEMMA FenceFails ==
  ASSUME IInv, Fence, NotAppended, SendGoesTo("rejected"), UNCHANGED row
  PROVE  IInv'
<1>1. /\ send.pc = "accepted"
      /\ send' \in Sends /\ send'.pc = "rejected" /\ send'.msg = send.msg /\ send'.index = send.index
      /\ used' \in Uses
  BY SendMoves, Within DEF IInv, TypeOK, Shape, Fence, Detached, NotAppended
<1>2. UNCHANGED <<journal, queue, Rows, Waiting(journal), runNow, row, steering, turn, admit, starter, wake, Steered, cached, stop, fate, given, parked>>
  BY <1>1 DEF Fence, live, ghosts, Rows, Steered, Detached, Detached, NotAppended
<1>3. TypeOK'
  BY <1>1, <1>2 DEF IInv, TypeOK
<1>4. Shape' /\ Exclusive'
  BY <1>1, <1>2, NoneIsNoMessage DEF IInv, Shape, Exclusive, Detached, Replacing
<1>5. Orderly' /\ Fences'
  BY <1>1, <1>2 DEF IInv, Orderly, Fences
<1>6. Kept'
  BY <1>1, <1>2, NoneIsNoMessage, Sets DEF IInv, Kept
<1>7. Disjoint'
  BY <1>1, <1>2, NoneIsNoMessage, Sets DEF IInv, Disjoint
<1>8. Fates'
  BY <1>1, <1>2, NoneIsNoMessage, Sets DEF IInv, Fates, Accepted
<1>9. GivenOnce'
  BY <1>1, <1>2, NoneIsNoMessage, Sets DEF IInv, Disjoint, Fates, GivenOnce, Ungiven
<1>10. Recorded'
  BY <1>1, <1>2, NoneIsNoMessage, Sets DEF IInv, Recorded
<1>11. Remembered'
  BY <1>1, <1>2, NoneIsNoMessage, Sets DEF IInv, Remembered
<1>12. QED
  BY <1>3, <1>4, <1>5, <1>6, <1>7, <1>8, <1>9, <1>10, <1>11 DEF IInv

LEMMA FenceKeeps ==
  ASSUME IInv, Fence
  PROVE  IInv'
BY FenceWritten, FenceFails DEF Fence, Appended

LEMMA CommitSteerKeeps ==
  ASSUME IInv, CommitSteer
  PROVE  IInv'
<1>1. /\ send.pc = "sent" /\ send.msg \in Msgs /\ turn.state = "ready"
      /\ send' \in Sends /\ send'.pc = "settle" /\ send'.msg = send.msg /\ send'.index = send.index
      /\ turn' \in Turns /\ turn'.state = "ready" /\ turn'.msg = send.msg
      /\ row' \in Marks /\ row'.held = row.held \ {send.msg} /\ row'.fenced = row.fenced \ {send.msg}
      /\ JournalWithout(send.msg) /\ Becomes(send.msg, "started") /\ steering' = "no"
      /\ Steered = {send.msg} /\ Steered' = {}
  <2>1. send.pc = "sent" /\ send.msg \in Msgs /\ turn.state = "ready" /\ Steered = {send.msg}
    BY DEF IInv, TypeOK, Shape, Detached, Steered, CommitSteer
  <2>2. JournalWithout(send.msg)
    <3>1. PICK j : /\ j = RunNext(journal, send.msg) /\ Sound(j, Msgs) /\ Waiting(j) = Waiting(journal)
                   /\ j.held = journal.held \ {send.msg} /\ j.fenced = journal.fenced \ {send.msg}
      BY <2>1, Sets, RunNextKeeps
    <3>2. journal' = Consumed(j, send.msg)
      BY <3>1 DEF CommitSteer
    <3>3. QED
      BY <3>1, <3>2, ConsumedKeeps DEF JournalWithout
  <2>3. Becomes(send.msg, "started")
    BY <2>1, FateBecomes DEF IInv, TypeOK, CommitSteer
  <2>4. row' \in Marks /\ row'.held = row.held \ {send.msg} /\ row'.fenced = row.fenced \ {send.msg}
    BY Unmarks DEF IInv, TypeOK, CommitSteer
  <2>5. send' \in Sends /\ send'.pc = "settle" /\ send'.msg = send.msg /\ send'.index = send.index
    BY SendMoves DEF IInv, TypeOK, CommitSteer
  <2>6. turn' \in Turns /\ turn'.state = "ready" /\ turn'.msg = send.msg
    BY <2>1 DEF IInv, TypeOK, Turns, Msg, CommitSteer
  <2>7. Steered' = {}
    BY <2>5 DEF Steered, Detached
  <2>8. QED
    BY <2>1, <2>2, <2>3, <2>4, <2>5, <2>6, <2>7 DEF CommitSteer
<1>2. UNCHANGED <<queue, Rows, runNow, admit, starter, wake, cached, stop, given, parked, used>>
  BY <1>1 DEF CommitSteer, live, ghosts, Rows, Steered, Detached
<1>3. TypeOK'
  BY <1>1, <1>2 DEF IInv, TypeOK, JournalWithout, Becomes, Sound
<1>4. Shape' /\ Exclusive'
  BY <1>1, <1>2, NoneIsNoMessage DEF IInv, Shape, Exclusive, Detached, Replacing
<1>5. Orderly' /\ Fences'
  BY <1>1, <1>2 DEF IInv, Orderly, Fences, JournalWithout, Becomes
<1>6. Kept'
  BY <1>1, <1>2, NoneIsNoMessage, Sets DEF IInv, Kept, JournalWithout, Becomes
<1>7. Disjoint'
  BY <1>1, <1>2, NoneIsNoMessage, Sets DEF IInv, Disjoint, JournalWithout, Becomes
<1>8. Fates'
  BY <1>1, <1>2, NoneIsNoMessage, Sets DEF IInv, Fates, Accepted, JournalWithout, Becomes, Shape, Disjoint, TypeOK, Admissions, Msg
<1>9. GivenOnce'
  BY <1>1, <1>2, NoneIsNoMessage, Sets DEF IInv, Disjoint, Fates, GivenOnce, Ungiven, JournalWithout, Becomes
<1>10. Recorded'
  BY <1>1, <1>2, NoneIsNoMessage, Sets DEF IInv, Recorded, JournalWithout, Becomes
<1>11. Remembered'
  BY <1>1, <1>2, NoneIsNoMessage, Sets DEF IInv, Remembered, JournalWithout, Becomes
<1>12. QED
  BY <1>3, <1>4, <1>5, <1>6, <1>7, <1>8, <1>9, <1>10, <1>11 DEF IInv

LEMMA DeliveryUncertainKeeps ==
  ASSUME IInv, DeliveryUncertain
  PROVE  IInv'
<1>1. /\ send.pc \in {"fenced", "sent"} /\ send.msg \in Msgs /\ Steered = {send.msg}
      /\ send' \in Sends /\ send'.pc = "none" /\ send'.msg = None
      /\ Steered' = {}
      /\ row' \in Marks /\ row'.held = row.held \ {send.msg} /\ row'.fenced = row.fenced \ {send.msg}
      /\ given' \in [Msgs -> Nat] /\ \A x \in Msgs : x # send.msg => given'[x] = given[x]
      /\ given'[send.msg] = given[send.msg] \/ (send.pc = "fenced" /\ given'[send.msg] = given[send.msg] + 1)
      /\ steering' = "no" /\ wake' \in BOOLEAN /\ used' \in Uses
  <2>1. send.pc \in {"fenced", "sent"} /\ send.msg \in Msgs /\ Steered = {send.msg}
    BY DEF IInv, TypeOK, Shape, Detached, Steered, DeliveryUncertain
  <2>2. /\ given' \in [Msgs -> Nat] /\ \A x \in Msgs : x # send.msg => given'[x] = given[x]
        /\ given'[send.msg] = given[send.msg] \/ (send.pc = "fenced" /\ given'[send.msg] = given[send.msg] + 1)
    BY <2>1, Gives DEF IInv, TypeOK, DeliveryUncertain
  <2>3. row' \in Marks /\ row'.held = row.held \ {send.msg} /\ row'.fenced = row.fenced \ {send.msg}
    BY Unmarks DEF IInv, TypeOK, DeliveryUncertain
  <2>4. send' \in Sends /\ send'.pc = "none" /\ send'.msg = None /\ Steered' = {} /\ steering' = "no"
    BY NoSendIs DEF DeliveryUncertain, EndSend, Steered, Detached
  <2>5. wake' \in BOOLEAN /\ used' \in Uses
    BY Within DEF IInv, TypeOK, DeliveryUncertain
  <2>6. QED
    BY <2>1, <2>2, <2>3, <2>4, <2>5
<1>2. UNCHANGED <<journal, queue, Rows, Waiting(journal), runNow, turn, admit, starter, cached, stop, fate, parked>>
  BY <1>1 DEF DeliveryUncertain, live, ghosts, Rows, Steered, Detached
<1>3. TypeOK'
  BY <1>1, <1>2 DEF IInv, TypeOK
<1>4. Shape' /\ Exclusive'
  BY <1>1, <1>2, NoneIsNoMessage DEF IInv, Shape, Exclusive, Detached, Replacing
<1>5. Orderly' /\ Fences'
  BY <1>1, <1>2 DEF IInv, Orderly, Fences
<1>6. Kept'
  BY <1>1, <1>2, NoneIsNoMessage, Sets DEF IInv, Kept, Fences
<1>7. Disjoint'
  BY <1>1, <1>2, NoneIsNoMessage, Sets DEF IInv, Disjoint
<1>8. Fates'
  BY <1>1, <1>2, NoneIsNoMessage, Sets DEF IInv, Fates, Accepted, Shape
<1>9. GivenOnce'
  BY <1>1, <1>2, NoneIsNoMessage, Sets DEF IInv, Disjoint, Fates, GivenOnce, Ungiven, Fences
<1>10. Recorded'
  BY <1>1, <1>2, NoneIsNoMessage, Sets DEF IInv, Recorded
<1>11. Remembered'
  BY <1>1, <1>2, NoneIsNoMessage, Sets DEF IInv, Remembered
<1>12. QED
  BY <1>3, <1>4, <1>5, <1>6, <1>7, <1>8, <1>9, <1>10, <1>11 DEF IInv

LEMMA RequeueWritten ==
  ASSUME IInv, Requeue, journal' = Reordered(Queued(journal, send.msg), queue'), UNCHANGED used,
         row' = [row EXCEPT !.held = @ \ {send.msg}, !.fenced = @ \ {send.msg}]
  PROVE  IInv'
<1>1. /\ send.pc = "rejected" /\ send.msg \in Msgs /\ Steered = {send.msg}
      /\ send' \in Sends /\ send'.pc = "none" /\ send'.msg = None /\ Steered' = {}
      /\ queue' \in Seq(Msgs) /\ IsInjective(queue') /\ Rows' = Rows \cup {send.msg}
      /\ steering' = "no" /\ wake' \in BOOLEAN /\ used' \in Uses
      /\ Sound(journal', Msgs) /\ Waiting(journal') = Waiting(journal) \cup {send.msg}
      /\ journal'.held = journal.held \ {send.msg} /\ journal'.fenced = journal.fenced \ {send.msg}
      /\ row' \in Marks /\ row'.held = row.held \ {send.msg} /\ row'.fenced = row.fenced \ {send.msg}
  <2>1. send.pc = "rejected" /\ send.msg \in Msgs /\ Steered = {send.msg} /\ send.index \in Nat \ {0}
    BY DEF IInv, TypeOK, Sends, Shape, Detached, Steered, Requeue
  <2>2. queue' \in Seq(Msgs) /\ IsInjective(queue') /\ Rows' = Rows \cup {send.msg}
    <3>1. send.msg \in Msgs \ Rows
      BY <2>1 DEF IInv, Disjoint
    <3>2. QED
      BY <2>1, <3>1, Sets, PlaceInQueue DEF Requeue, Rows
  <2>3. send' \in Sends /\ send'.pc = "none" /\ send'.msg = None /\ Steered' = {} /\ steering' = "no"
    BY NoSendIs DEF Requeue, EndSend, Steered, Detached
  <2>4. wake' \in BOOLEAN
    BY DEF IInv, TypeOK, Requeue
  <2>5. /\ Sound(journal', Msgs) /\ Waiting(journal') = Waiting(journal) \cup {send.msg}
        /\ journal'.held = journal.held \ {send.msg} /\ journal'.fenced = journal.fenced \ {send.msg}
    <3>1. PICK j : /\ j = Queued(journal, send.msg) /\ Sound(j, Msgs) /\ Waiting(j) = Waiting(journal) \cup {send.msg}
                   /\ j.held = journal.held \ {send.msg} /\ j.fenced = journal.fenced \ {send.msg}
      BY <2>1, Sets, QueuedKeeps
    <3>2. journal' = Reordered(j, queue')
      BY <3>1
    <3>3. QED
      BY <2>2, <3>1, <3>2, ReorderedKeeps
  <2>6. row' \in Marks /\ row'.held = row.held \ {send.msg} /\ row'.fenced = row.fenced \ {send.msg}
    BY DEF IInv, TypeOK, Marks
  <2>7. QED
    BY <2>1, <2>2, <2>3, <2>4, <2>5, <2>6 DEF IInv, TypeOK
<1>2. UNCHANGED <<runNow, turn, admit, starter, cached, stop, fate, given, parked>>
  BY <1>1 DEF Requeue, live, ghosts, Rows, Steered, Detached
<1>3. TypeOK'
  BY <1>1, <1>2 DEF IInv, TypeOK, Sound
<1>4. Shape' /\ Exclusive'
  BY <1>1, <1>2, NoneIsNoMessage DEF IInv, Shape, Exclusive, Detached, Replacing
<1>5. Orderly' /\ Fences'
  BY <1>1, <1>2 DEF IInv, Orderly, Fences
<1>6. Kept'
  BY <1>1, <1>2, NoneIsNoMessage, Sets DEF IInv, Kept
<1>7. Disjoint'
  BY <1>1, <1>2, NoneIsNoMessage, Sets DEF IInv, Disjoint
<1>8. Fates'
  BY <1>1, <1>2, NoneIsNoMessage, Sets DEF IInv, Fates, Accepted, Shape, Disjoint
<1>9. GivenOnce'
  BY <1>1, <1>2, NoneIsNoMessage, Sets DEF IInv, Disjoint, Fates, GivenOnce, Ungiven
<1>10. Recorded'
  BY <1>1, <1>2, NoneIsNoMessage, Sets DEF IInv, Recorded
<1>11. Remembered'
  BY <1>1, <1>2, NoneIsNoMessage, Sets DEF IInv, Remembered
<1>12. QED
  BY <1>3, <1>4, <1>5, <1>6, <1>7, <1>8, <1>9, <1>10, <1>11 DEF IInv

LEMMA RequeueUnwritten ==
  ASSUME IInv, Requeue, NotAppended, row' = [row EXCEPT !.held = @ \cup {send.msg}]
  PROVE  IInv'
<1>1. /\ send.pc = "rejected" /\ send.msg \in Msgs /\ Steered = {send.msg}
      /\ send' \in Sends /\ send'.pc = "none" /\ send'.msg = None /\ Steered' = {}
      /\ queue' \in Seq(Msgs) /\ IsInjective(queue') /\ Rows' = Rows \cup {send.msg}
      /\ steering' = "no" /\ wake' \in BOOLEAN /\ used' \in Uses
      /\ row' \in Marks /\ row'.held = row.held \cup {send.msg} /\ row'.fenced = row.fenced
  <2>1. send.pc = "rejected" /\ send.msg \in Msgs /\ Steered = {send.msg} /\ send.index \in Nat \ {0}
    BY DEF IInv, TypeOK, Sends, Shape, Detached, Steered, Requeue
  <2>2. queue' \in Seq(Msgs) /\ IsInjective(queue') /\ Rows' = Rows \cup {send.msg}
    <3>1. send.msg \in Msgs \ Rows
      BY <2>1 DEF IInv, Disjoint
    <3>2. QED
      BY <2>1, <3>1, Sets, PlaceInQueue DEF Requeue, Rows
  <2>3. send' \in Sends /\ send'.pc = "none" /\ send'.msg = None /\ Steered' = {} /\ steering' = "no"
    BY NoSendIs DEF Requeue, EndSend, Steered, Detached
  <2>4. wake' \in BOOLEAN
    BY DEF IInv, TypeOK, Requeue
  <2>5. row' \in Marks /\ row'.held = row.held \cup {send.msg} /\ row'.fenced = row.fenced
    BY <2>1 DEF IInv, TypeOK, Marks
  <2>6. QED
    BY <2>1, <2>2, <2>3, <2>4, <2>5, Within DEF IInv, TypeOK, NotAppended
<1>2. UNCHANGED <<journal, Waiting(journal), runNow, turn, admit, starter, cached, stop, fate, given, parked>>
  BY <1>1 DEF Requeue, live, ghosts, Rows, Steered, Detached, NotAppended
<1>3. TypeOK'
  BY <1>1, <1>2 DEF IInv, TypeOK
<1>4. Shape' /\ Exclusive'
  BY <1>1, <1>2, NoneIsNoMessage DEF IInv, Shape, Exclusive, Detached, Replacing
<1>5. Orderly' /\ Fences'
  BY <1>1, <1>2 DEF IInv, Orderly, Fences
<1>6. Kept'
  BY <1>1, <1>2, NoneIsNoMessage, Sets DEF IInv, Kept
<1>7. Disjoint'
  BY <1>1, <1>2, NoneIsNoMessage, Sets DEF IInv, Disjoint
<1>8. Fates'
  BY <1>1, <1>2, NoneIsNoMessage, Sets DEF IInv, Fates, Accepted, Shape
<1>9. GivenOnce'
  BY <1>1, <1>2, NoneIsNoMessage, Sets DEF IInv, Disjoint, Fates, GivenOnce, Ungiven
<1>10. Recorded'
  BY <1>1, <1>2, NoneIsNoMessage, Sets DEF IInv, Recorded
<1>11. Remembered'
  BY <1>1, <1>2, NoneIsNoMessage, Sets DEF IInv, Remembered, Disjoint
<1>12. QED
  BY <1>3, <1>4, <1>5, <1>6, <1>7, <1>8, <1>9, <1>10, <1>11 DEF IInv

LEMMA RequeueKeeps ==
  ASSUME IInv, Requeue
  PROVE  IInv'
BY RequeueWritten, RequeueUnwritten DEF Requeue, Appended

LEMMA DeferKeeps ==
  ASSUME IInv, Defer
  PROVE  IInv'
<1>1. /\ send.pc \in Replacing /\ send.msg \in Msgs /\ runNow = send.msg /\ Steered = {}
      /\ send' \in Sends /\ send'.pc = "none" /\ send'.msg = None /\ Steered' = {}
      /\ queue' \in Seq(Msgs) /\ IsInjective(queue') /\ Rows' = Rows \cup {send.msg}
      /\ steering' = "no" /\ runNow' = None
  <2>1. /\ send.pc \in Replacing /\ send.msg \in Msgs /\ runNow = send.msg /\ send.index \in Nat \ {0}
        /\ Steered = {}
    BY DEF IInv, TypeOK, Sends, Shape, Exclusive, Steered, Detached, Replacing, Defer
  <2>2. queue' \in Seq(Msgs) /\ IsInjective(queue') /\ Rows' = Rows \cup {send.msg}
    <3>1. send.msg \in Msgs \ Rows
      BY <2>1 DEF IInv, Disjoint
    <3>2. QED
      BY <2>1, <3>1, Sets, PlaceInQueue DEF Defer, Rows
  <2>3. send' \in Sends /\ send'.pc = "none" /\ send'.msg = None /\ Steered' = {} /\ steering' = "no"
    BY NoSendIs DEF Defer, EndSend, Steered, Detached
  <2>4. QED
    BY <2>1, <2>2, <2>3 DEF Defer
<1>2. UNCHANGED <<journal, Waiting(journal), row, turn, admit, starter, wake, Steered, cached, stop, fate, given, parked, used>>
  BY <1>1 DEF Defer, live, ghosts, Rows, Steered, Detached, EndSend
<1>3. TypeOK'
  BY <1>1, <1>2 DEF IInv, TypeOK, Msg
<1>4. Shape' /\ Exclusive'
  BY <1>1, <1>2, NoneIsNoMessage DEF IInv, Shape, Exclusive, Detached, Replacing
<1>5. Orderly' /\ Fences'
  BY <1>1, <1>2 DEF IInv, Orderly, Fences
<1>6. Kept'
  BY <1>1, <1>2, NoneIsNoMessage, Sets DEF IInv, Kept
<1>7. Disjoint'
  BY <1>1, <1>2, NoneIsNoMessage, Sets DEF IInv, Disjoint, Shape
<1>8. Fates'
  BY <1>1, <1>2, NoneIsNoMessage, Sets DEF IInv, Fates, Accepted, Shape, Replacing
<1>9. GivenOnce'
  BY <1>1, <1>2, NoneIsNoMessage, Sets DEF IInv, Disjoint, Fates, GivenOnce, Ungiven
<1>10. Recorded'
  BY <1>1, <1>2, NoneIsNoMessage, Sets DEF IInv, Recorded
<1>11. Remembered'
  BY <1>1, <1>2, NoneIsNoMessage, Sets DEF IInv, Remembered, Replacing
<1>12. QED
  BY <1>3, <1>4, <1>5, <1>6, <1>7, <1>8, <1>9, <1>10, <1>11 DEF IInv

LEMMA PromotionWritten ==
  ASSUME IInv, CommitPromotion, journal' = RunNext(journal, send.msg), steering' = "waiter",
         SendGoesTo("settle"), UNCHANGED <<queue, runNow, row, wake, used>>
  PROVE  IInv'
<1>1. /\ send.pc \in Replacing /\ send.msg \in Msgs /\ runNow = send.msg /\ Steered = {}
      /\ send' \in Sends /\ send'.pc = "settle" /\ send'.msg = send.msg /\ send'.index = send.index
      /\ steering' = "waiter"
      /\ Sound(journal', Msgs) /\ Waiting(journal') = Waiting(journal)
      /\ journal'.held = journal.held \ {send.msg} /\ journal'.fenced = journal.fenced \ {send.msg}
  <2>1. send.pc \in Replacing /\ send.msg \in Msgs /\ runNow = send.msg /\ Steered = {}
    BY DEF IInv, TypeOK, Shape, Exclusive, Steered, Detached, Replacing, CommitPromotion
  <2>2. /\ Sound(journal', Msgs) /\ Waiting(journal') = Waiting(journal)
        /\ journal'.held = journal.held \ {send.msg} /\ journal'.fenced = journal.fenced \ {send.msg}
    BY <2>1, Sets, RunNextKeeps
  <2>3. send' \in Sends /\ send'.pc = "settle" /\ send'.msg = send.msg /\ send'.index = send.index
    BY SendMoves DEF IInv, TypeOK
  <2>4. QED
    BY <2>1, <2>2, <2>3
<1>2. UNCHANGED <<queue, Rows, runNow, row, turn, admit, starter, wake, Steered, cached, stop, fate, given, parked, used>>
  BY <1>1 DEF CommitPromotion, live, ghosts, Rows, Steered, Detached, Replacing
<1>3. TypeOK'
  BY <1>1, <1>2 DEF IInv, TypeOK, Sound
<1>4. Shape' /\ Exclusive'
  BY <1>1, <1>2, NoneIsNoMessage DEF IInv, Shape, Exclusive, Detached, Replacing
<1>5. Orderly' /\ Fences'
  BY <1>1, <1>2 DEF IInv, Orderly, Fences
<1>6. Kept'
  BY <1>1, <1>2, NoneIsNoMessage, Sets DEF IInv, Kept
<1>7. Disjoint'
  BY <1>1, <1>2, NoneIsNoMessage, Sets DEF IInv, Disjoint
<1>8. Fates'
  BY <1>1, <1>2, NoneIsNoMessage, Sets DEF IInv, Fates, Accepted, Replacing
<1>9. GivenOnce'
  BY <1>1, <1>2, NoneIsNoMessage, Sets DEF IInv, Disjoint, Fates, GivenOnce, Ungiven
<1>10. Recorded'
  BY <1>1, <1>2, NoneIsNoMessage, Sets DEF IInv, Recorded
<1>11. Remembered'
  BY <1>1, <1>2, NoneIsNoMessage, Sets DEF IInv, Remembered, Replacing
<1>12. QED
  BY <1>3, <1>4, <1>5, <1>6, <1>7, <1>8, <1>9, <1>10, <1>11 DEF IInv

LEMMA PromotionUnwritten ==
  ASSUME IInv, CommitPromotion, NotAppended, runNow' = None, queue' = PutBack(queue), wake' = TRUE, EndSend,
         row' = IF send.wasHeld THEN [row EXCEPT !.held = @ \cup {send.msg}] ELSE row
  PROVE  IInv'
<1>1. /\ send.pc \in Replacing /\ send.msg \in Msgs /\ runNow = send.msg /\ Steered = {}
      /\ send' \in Sends /\ send'.pc = "none" /\ send'.msg = None /\ Steered' = {}
      /\ queue' \in Seq(Msgs) /\ IsInjective(queue') /\ Rows' = Rows \cup {send.msg}
      /\ steering' = "no" /\ runNow' = None /\ wake' = TRUE /\ used' \in Uses
      /\ row' \in Marks /\ row'.held \subseteq row.held \cup {send.msg} /\ row.held \subseteq row'.held /\ row'.fenced = row.fenced
  <2>1. /\ send.pc \in Replacing /\ send.msg \in Msgs /\ runNow = send.msg /\ send.index \in Nat \ {0}
        /\ Steered = {}
    BY DEF IInv, TypeOK, Sends, Shape, Exclusive, Steered, Detached, Replacing, CommitPromotion
  <2>2. queue' \in Seq(Msgs) /\ IsInjective(queue') /\ Rows' = Rows \cup {send.msg}
    <3>1. send.msg \in Msgs \ Rows
      BY <2>1 DEF IInv, Disjoint
    <3>2. QED
      BY <2>1, <3>1, Sets, PlaceInQueue DEF CommitPromotion, Rows
  <2>3. send' \in Sends /\ send'.pc = "none" /\ send'.msg = None /\ Steered' = {} /\ steering' = "no"
    BY NoSendIs DEF CommitPromotion, EndSend, Steered, Detached
  <2>4. row' \in Marks /\ row'.held \subseteq row.held \cup {send.msg} /\ row.held \subseteq row'.held /\ row'.fenced = row.fenced
    BY <2>1 DEF IInv, TypeOK, Marks
  <2>5. QED
    BY <2>1, <2>2, <2>3, <2>4, Within DEF IInv, TypeOK, NotAppended
<1>2. UNCHANGED <<journal, Waiting(journal), turn, admit, starter, Steered, cached, stop, fate, given, parked>>
  BY <1>1 DEF CommitPromotion, live, ghosts, Rows, Steered, Detached, NotAppended
<1>3. TypeOK'
  BY <1>1, <1>2 DEF IInv, TypeOK, Msg
<1>4. Shape' /\ Exclusive'
  BY <1>1, <1>2, NoneIsNoMessage DEF IInv, Shape, Exclusive, Detached, Replacing
<1>5. Orderly' /\ Fences'
  BY <1>1, <1>2 DEF IInv, Orderly, Fences
<1>6. Kept'
  BY <1>1, <1>2, NoneIsNoMessage, Sets DEF IInv, Kept
<1>7. Disjoint'
  BY <1>1, <1>2, NoneIsNoMessage, Sets DEF IInv, Disjoint, Shape
<1>8. Fates'
  BY <1>1, <1>2, NoneIsNoMessage, Sets DEF IInv, Fates, Accepted, Shape, Replacing
<1>9. GivenOnce'
  BY <1>1, <1>2, NoneIsNoMessage, Sets DEF IInv, Disjoint, Fates, GivenOnce, Ungiven
<1>10. Recorded'
  BY <1>1, <1>2, NoneIsNoMessage, Sets DEF IInv, Recorded
<1>11. Remembered'
  BY <1>1, <1>2, NoneIsNoMessage, Sets DEF IInv, Remembered, Replacing, Disjoint
<1>12. QED
  BY <1>3, <1>4, <1>5, <1>6, <1>7, <1>8, <1>9, <1>10, <1>11 DEF IInv

LEMMA CommitPromotionKeeps ==
  ASSUME IInv, CommitPromotion
  PROVE  IInv'
BY PromotionWritten, PromotionUnwritten DEF CommitPromotion, Appended

LEMMA Selects ==
  ASSUME IInv, NEW pc \in {"offered", "stopping"}, Select(pc), Sendable(send.msg), send.pc \in {"probe", "lock"}
  PROVE  /\ send' \in Sends /\ send'.pc = pc /\ send'.msg = send.msg /\ send'.index >= 1
         /\ queue' \in Seq(Msgs) /\ IsInjective(queue') /\ Rows' = Rows \ {send.msg}
         /\ row' \in Marks /\ row'.held = row.held \ {send.msg} /\ row'.fenced = row.fenced
         /\ parked' \in [Msgs -> {"no", "recorded", "unrecorded"}] /\ parked'[send.msg] = "no"
         /\ \A x \in Msgs : x # send.msg => parked'[x] = parked[x]
         /\ steering' = "send" /\ send.msg \in Msgs
<1> DEFINE i == Place(queue, send.msg)
<1>1. send.msg \in Rows /\ send.msg \in Msgs
  BY Sets DEF Sendable
<1>2. i \in 1 .. Len(queue) /\ queue[i] = send.msg /\ Len(queue) \in Nat /\ i \in Nat
  BY <1>1, Sets, PlaceIs, Elements DEF Rows
<1>3. /\ queue' = RemoveAt(queue, i)
      /\ send' = [pc |-> pc, msg |-> send.msg, index |-> i, wasHeld |-> send.msg \in row.held,
                  before |-> IF i = 1 THEN None ELSE queue[i - 1],
                  after |-> IF i = Len(queue) THEN None ELSE queue[i + 1]]
  BY DEF Select
<1> HIDE DEF i
<1>4. queue' \in Seq(Msgs) /\ IsInjective(queue') /\ Rows' = Rows \ {send.msg}
  BY <1>2, <1>3, Sets, RemoveAtKeeps DEF Rows
<1>5. /\ i # 1 => queue[i - 1] \in Msgs
      /\ i # Len(queue) => queue[i + 1] \in Msgs
  BY <1>2, Sets, Elements
<1>6. send' \in Sends /\ send'.pc = pc /\ send'.msg = send.msg /\ send'.index >= 1
  BY <1>1, <1>2, <1>3, <1>5 DEF Sends, Msg, Detached, Replacing
<1>7. row' \in Marks /\ row'.held = row.held \ {send.msg} /\ row'.fenced = row.fenced
  BY Unmarks DEF Select, IInv, TypeOK
<1>8. /\ parked' \in [Msgs -> {"no", "recorded", "unrecorded"}] /\ parked'[send.msg] = "no"
      /\ \A x \in Msgs : x # send.msg => parked'[x] = parked[x]
  BY <1>1 DEF Select, IInv, TypeOK
<1>9. QED
  BY <1>1, <1>4, <1>6, <1>7, <1>8 DEF Select

LEMMA SelectNativeKeeps ==
  ASSUME IInv, SelectNative
  PROVE  IInv'
<1>1. /\ send.pc \in {"probe", "lock"} /\ send.msg \in Rows /\ send.msg \notin row.fenced /\ runNow = None
      /\ queue' \in Seq(Msgs) /\ IsInjective(queue') /\ Rows' = Rows \ {send.msg}
      /\ row' \in Marks /\ row'.held = row.held \ {send.msg} /\ row'.fenced = row.fenced
      /\ parked' \in [Msgs -> {"no", "recorded", "unrecorded"}] /\ parked'[send.msg] = "no"
      /\ \A x \in Msgs : x # send.msg => parked'[x] = parked[x]
      /\ steering' = "send"
      /\ send' \in Sends /\ send'.pc = "offered" /\ send'.msg = send.msg /\ send'.index >= 1 /\ send.msg \in Msgs
      /\ Steered = {} /\ Steered' = {send.msg}
  <2>1. send.pc \in {"probe", "lock"} /\ Select("offered") /\ Sendable(send.msg)
    BY DEF SelectNative, Probing
  <2>2. send'.pc = "offered" /\ send'.msg = send.msg
    BY <2>1, Selects
  <2>3. Steered = {} /\ Steered' = {send.msg}
    BY <2>1, <2>2 DEF Steered, Detached
  <2>4. QED
    BY <2>1, <2>3, Selects DEF Sendable
<1>2. UNCHANGED <<journal, Waiting(journal), runNow, turn, admit, starter, wake, cached, stop, fate, given, used>>
  BY <1>1 DEF SelectNative, live, ghosts, Rows, Steered, Detached
<1>3. TypeOK'
  BY <1>1, <1>2 DEF IInv, TypeOK
<1>4. Shape' /\ Exclusive'
  BY <1>1, <1>2, NoneIsNoMessage DEF IInv, Shape, Exclusive, Detached, Replacing
<1>5. Orderly' /\ Fences'
  BY <1>1, <1>2 DEF IInv, Orderly, Fences
<1>6. Kept'
  BY <1>1, <1>2, NoneIsNoMessage, Sets DEF IInv, Kept
<1>7. Disjoint'
  BY <1>1, <1>2, NoneIsNoMessage, Sets DEF IInv, Disjoint
<1>8. Fates'
  BY <1>1, <1>2, NoneIsNoMessage, Sets DEF IInv, Fates, Accepted
<1>9. GivenOnce'
  BY <1>1, <1>2, NoneIsNoMessage, Sets DEF IInv, Disjoint, Fates, GivenOnce, Ungiven
<1>10. Recorded'
  BY <1>1, <1>2, NoneIsNoMessage, Sets DEF IInv, Recorded
<1>11. Remembered'
  BY <1>1, <1>2, NoneIsNoMessage, Sets DEF IInv, Remembered
<1>12. QED
  BY <1>3, <1>4, <1>5, <1>6, <1>7, <1>8, <1>9, <1>10, <1>11 DEF IInv

LEMMA SelectToReplaceKeeps ==
  ASSUME IInv, SelectToReplace
  PROVE  IInv'
<1>1. /\ send.pc \in {"probe", "lock"} /\ send.msg \in Rows /\ send.msg \notin row.fenced /\ runNow = None
      /\ queue' \in Seq(Msgs) /\ IsInjective(queue') /\ Rows' = Rows \ {send.msg}
      /\ row' \in Marks /\ row'.held = row.held \ {send.msg} /\ row'.fenced = row.fenced
      /\ parked' \in [Msgs -> {"no", "recorded", "unrecorded"}] /\ parked'[send.msg] = "no"
      /\ \A x \in Msgs : x # send.msg => parked'[x] = parked[x]
      /\ steering' = "send"
      /\ send' \in Sends /\ send'.pc = "stopping" /\ send'.msg = send.msg /\ send'.index >= 1 /\ send.msg \in Msgs
      /\ Steered = {} /\ Steered' = {} /\ runNow' = send.msg /\ stop = "no" /\ admit.pc = "idle"
  <2>1. send.pc \in {"probe", "lock"} /\ Select("stopping") /\ Sendable(send.msg)
    BY DEF SelectToReplace
  <2>2. send'.pc = "stopping" /\ send'.msg = send.msg
    BY <2>1, Selects
  <2>3. Steered = {} /\ Steered' = {}
    BY <2>1, <2>2 DEF Steered, Detached
  <2>4. runNow' = send.msg /\ stop = "no" /\ admit.pc = "idle"
    BY DEF SelectToReplace, StopSeen, Locked
  <2>5. QED
    BY <2>1, <2>3, <2>4, Selects DEF Sendable
<1>2. UNCHANGED <<journal, Waiting(journal), turn, admit, starter, wake, cached, stop, fate, given, used>>
  BY <1>1 DEF SelectToReplace, live, ghosts, Rows, Steered, Detached
<1>3. TypeOK'
  BY <1>1, <1>2 DEF IInv, TypeOK, Msg
<1>4. Shape' /\ Exclusive'
  BY <1>1, <1>2, NoneIsNoMessage DEF IInv, Shape, Exclusive, Detached, Replacing
<1>5. Orderly' /\ Fences'
  BY <1>1, <1>2 DEF IInv, Orderly, Fences
<1>6. Kept'
  BY <1>1, <1>2, NoneIsNoMessage, Sets DEF IInv, Kept
<1>7. Disjoint'
  BY <1>1, <1>2, NoneIsNoMessage, Sets DEF IInv, Disjoint
<1>8. Fates'
  BY <1>1, <1>2, NoneIsNoMessage, Sets DEF IInv, Fates, Accepted
<1>9. GivenOnce'
  BY <1>1, <1>2, NoneIsNoMessage, Sets DEF IInv, Disjoint, Fates, GivenOnce, Ungiven
<1>10. Recorded'
  BY <1>1, <1>2, NoneIsNoMessage, Sets DEF IInv, Recorded
<1>11. Remembered'
  BY <1>1, <1>2, NoneIsNoMessage, Sets DEF IInv, Remembered
<1>12. QED
  BY <1>3, <1>4, <1>5, <1>6, <1>7, <1>8, <1>9, <1>10, <1>11 DEF IInv

\* The rows that a Stop holds.
Named == Rows \cup ({runNow} \ {None})

LEMMA PausedQueue ==
  ASSUME IInv, PauseQueue
  PROVE  /\ Named \subseteq Msgs /\ send.pc \notin Replacing /\ runNow' = None /\ stop' = "paused"
         /\ queue' \in Seq(Msgs) /\ IsInjective(queue') /\ Rows' = Named /\ cached' = cached \ Named
         /\ row' \in Marks /\ row'.held = row.held \cup Named /\ row'.fenced = row.fenced /\ used' \in Uses
         /\ parked' \in [Msgs -> {"no", "recorded", "unrecorded"}]
<1>1. runNow \in Msgs \cup {None} /\ runNow \notin Rows /\ send.pc \notin Replacing
  BY Sets DEF IInv, Disjoint, Exclusive, PauseQueue
<1>2. queue' \in Seq(Msgs) /\ IsInjective(queue') /\ Rows' = Named
  <2>1. CASE runNow = None
    BY <2>1, Sets DEF PauseQueue, Rows, Named
  <2>2. CASE runNow # None
    <3>1. queue' = <<runNow>> \o queue /\ runNow \in Msgs
      BY <1>1, <2>2 DEF PauseQueue
    <3>2. QED
      BY <1>1, <2>2, <3>1, Sets, PrependKeeps DEF Rows, Named
  <2>3. QED
    BY <2>1, <2>2
<1>3. Named \subseteq Msgs
  BY <1>1, Sets DEF Named
<1>4. row' \in Marks /\ row'.held = row.held \cup Named /\ row'.fenced = row.fenced
  <2>1. \/ row' = [row EXCEPT !.held = @ \cup Named]
        \/ row' = [row EXCEPT !.held = @ \cup Named, !.unsaved = @ \cup Named]
    BY DEF PauseQueue, Named
  <2>2. row \in Marks
    BY DEF IInv, TypeOK
  <2>3. CASE row' = [row EXCEPT !.held = @ \cup Named]
    BY <1>3, <2>2, <2>3 DEF Marks
  <2>4. CASE row' = [row EXCEPT !.held = @ \cup Named, !.unsaved = @ \cup Named]
    BY <1>3, <2>2, <2>4 DEF Marks
  <2>5. QED
    BY <2>1, <2>3, <2>4
<1>5. used' \in Uses
  BY Within DEF IInv, TypeOK, PauseQueue, Appended, NotAppended
<1>6. parked' \in [Msgs -> {"no", "recorded", "unrecorded"}]
  BY DEF IInv, TypeOK, PauseQueue
<1>7. QED
  BY <1>1, <1>2, <1>3, <1>4, <1>5, <1>6 DEF PauseQueue, Named

LEMMA PauseWritten ==
  ASSUME IInv, PauseQueue, journal' = Paused(journal, Named)
  PROVE  IInv'
<1>1. /\ Named \subseteq Msgs /\ send.pc \notin Replacing /\ runNow' = None /\ stop' = "paused"
      /\ queue' \in Seq(Msgs) /\ IsInjective(queue') /\ Rows' = Named
      /\ cached' = cached \ Named
      /\ row' \in Marks /\ row'.held = row.held \cup Named /\ row'.fenced = row.fenced /\ used' \in Uses
      /\ parked' \in [Msgs -> {"no", "recorded", "unrecorded"}]
      /\ \A x \in Msgs : parked'[x] = "recorded" => x \in Named \/ parked[x] = "recorded"
      /\ Sound(journal', Msgs) /\ Waiting(journal') = Waiting(journal)
      /\ journal'.held = journal.held \cup (Named \cap Waiting(journal)) /\ journal'.fenced = journal.fenced
  <2>1. \A x \in Msgs : parked'[x] = "recorded" => x \in Named \/ parked[x] = "recorded"
    BY DEF PauseQueue, Named
  <2>2. /\ Sound(journal', Msgs) /\ Waiting(journal') = Waiting(journal)
        /\ journal'.held = journal.held \cup (Named \cap Waiting(journal)) /\ journal'.fenced = journal.fenced
    BY Sets, PausedKeeps
  <2>3. QED
    BY <2>1, <2>2, PausedQueue
<1>2. UNCHANGED <<steering, turn, admit, starter, wake, send, Steered, fate, given>>
  BY <1>1 DEF PauseQueue, live, ghosts, Rows, Steered, Detached
<1>3. TypeOK'
  BY <1>1, <1>2 DEF IInv, TypeOK, Sound, Msg
<1>4. Shape' /\ Exclusive'
  BY <1>1, <1>2, NoneIsNoMessage DEF IInv, Shape, Exclusive, Detached, Replacing
<1>5. Orderly' /\ Fences'
  BY <1>1, <1>2 DEF IInv, Orderly, Fences, Named
<1>6. Kept'
  BY <1>1, <1>2, NoneIsNoMessage, Sets DEF IInv, Kept, Named
<1>7. Disjoint'
  BY <1>1, <1>2, NoneIsNoMessage, Sets DEF IInv, Disjoint, Named, Shape
<1>8. Fates'
  BY <1>1, <1>2, NoneIsNoMessage, Sets DEF IInv, Fates, Accepted, Named
<1>9. GivenOnce'
  BY <1>1, <1>2, NoneIsNoMessage, Sets DEF IInv, Disjoint, Fates, GivenOnce, Ungiven, Named, Fences
<1>10. Recorded'
  BY <1>1, <1>2, NoneIsNoMessage, Sets DEF IInv, Recorded, Named, Disjoint, Fates, Accepted
<1>11. Remembered'
  BY <1>1, <1>2, NoneIsNoMessage, Sets DEF IInv, Remembered, Named, Disjoint
<1>12. QED
  BY <1>3, <1>4, <1>5, <1>6, <1>7, <1>8, <1>9, <1>10, <1>11 DEF IInv

LEMMA PauseUnwritten ==
  ASSUME IInv, PauseQueue, NotAppended
  PROVE  IInv'
<1>1. /\ Named \subseteq Msgs /\ send.pc \notin Replacing /\ runNow' = None /\ stop' = "paused"
      /\ queue' \in Seq(Msgs) /\ IsInjective(queue') /\ Rows' = Named
      /\ cached' = cached \ Named
      /\ row' \in Marks /\ row'.held = row.held \cup Named /\ row'.fenced = row.fenced /\ used' \in Uses
      /\ parked' \in [Msgs -> {"no", "recorded", "unrecorded"}]
      /\ \A x \in Msgs : parked'[x] = "recorded" => parked[x] = "recorded"
  <2>1. used' # used
    BY DEF NotAppended, Fault, Spend, IInv, TypeOK, Uses
  <2>2. \A x \in Msgs : parked'[x] = "recorded" => parked[x] = "recorded"
    BY <2>1 DEF PauseQueue
  <2>3. QED
    BY <2>2, PausedQueue
<1>2. UNCHANGED <<journal, Waiting(journal), steering, turn, admit, starter, wake, send, Steered, fate, given>>
  BY <1>1 DEF PauseQueue, live, ghosts, Rows, Steered, Detached, NotAppended
<1>3. TypeOK'
  BY <1>1, <1>2 DEF IInv, TypeOK, Msg
<1>4. Shape' /\ Exclusive'
  BY <1>1, <1>2, NoneIsNoMessage DEF IInv, Shape, Exclusive, Detached, Replacing
<1>5. Orderly' /\ Fences'
  BY <1>1, <1>2 DEF IInv, Orderly, Fences, Named
<1>6. Kept'
  BY <1>1, <1>2, NoneIsNoMessage, Sets DEF IInv, Kept, Named
<1>7. Disjoint'
  BY <1>1, <1>2, NoneIsNoMessage, Sets DEF IInv, Disjoint, Named, Shape
<1>8. Fates'
  BY <1>1, <1>2, NoneIsNoMessage, Sets DEF IInv, Fates, Accepted, Named
<1>9. GivenOnce'
  BY <1>1, <1>2, NoneIsNoMessage, Sets DEF IInv, Disjoint, Fates, GivenOnce, Ungiven, Named, Fences
<1>10. Recorded'
  BY <1>1, <1>2, NoneIsNoMessage, Sets DEF IInv, Recorded, Named, Disjoint, Fates, Accepted
<1>11. Remembered'
  BY <1>1, <1>2, NoneIsNoMessage, Sets DEF IInv, Remembered, Named, Disjoint
<1>12. QED
  BY <1>3, <1>4, <1>5, <1>6, <1>7, <1>8, <1>9, <1>10, <1>11 DEF IInv

LEMMA PauseQueueKeeps ==
  ASSUME IInv, PauseQueue
  PROVE  IInv'
BY PauseWritten, PauseUnwritten DEF PauseQueue, Appended, Named

LEMMA CrashKeeps ==
  ASSUME IInv, ~Torn, Crash
  PROVE  IInv'
<1>1. /\ queue' \in Seq(Msgs) /\ IsInjective(queue') /\ Rows' = Waiting(journal) /\ runNow' = None
      /\ row' \in Marks /\ row'.held = journal.held /\ row'.fenced = journal.fenced
      /\ admit' \in Admissions /\ admit'.pc = "idle" /\ admit'.msg = None
      /\ turn' \in Turns /\ turn'.state = "idle" /\ turn'.msg = None
      /\ send' \in Sends /\ send'.pc = "none" /\ send'.msg = None /\ Steered' = {}
      /\ steering' = "no" /\ starter' = "none" /\ stop' = "no" /\ cached' = {} /\ wake' \in BOOLEAN /\ used' \in Uses
  <2>1. journal' = journal
    BY DEF Crash, Survivors
  <2>2. queue' \in Seq(Msgs) /\ IsInjective(queue') /\ Rows' = Waiting(journal)
    BY <2>1, Sets DEF Crash, Rows, Waiting, Sound
  <2>3. row' \in Marks /\ row'.held = journal.held /\ row'.fenced = journal.fenced
    BY <2>1 DEF Crash, Marks, IInv, TypeOK
  <2>4. Steered' = {}
    BY NoSendIs DEF Crash, Steered, Detached
  <2>5. wake' \in BOOLEAN /\ used' \in Uses
    BY Within DEF IInv, TypeOK, Crash
  <2>6. QED
    BY <2>2, <2>3, <2>4, <2>5, NoSendIs, NoTurnIs, NoAdmissionIs DEF Crash
<1>2. UNCHANGED <<journal, Waiting(journal), fate, given, parked>>
  BY <1>1 DEF Crash, live, ghosts, Rows, Steered, Detached, Survivors
<1>3. TypeOK'
  BY <1>1, <1>2 DEF IInv, TypeOK, Msg
<1>4. Shape' /\ Exclusive'
  BY <1>1, <1>2, NoneIsNoMessage DEF IInv, Shape, Exclusive, Detached, Replacing
<1>5. Orderly' /\ Fences'
  BY <1>1, <1>2 DEF IInv, Orderly, Fences, Sound, Orderly
<1>6. Kept'
  BY <1>1, <1>2, NoneIsNoMessage, Sets DEF IInv, Kept
<1>7. Disjoint'
  BY <1>1, <1>2, NoneIsNoMessage, Sets DEF IInv, Disjoint
<1>8. Fates'
  BY <1>1, <1>2, NoneIsNoMessage, Sets DEF IInv, Fates, Accepted
<1>9. GivenOnce'
  BY <1>1, <1>2, NoneIsNoMessage, Sets DEF IInv, Disjoint, Fates, GivenOnce, Ungiven
<1>10. Recorded'
  BY <1>1, <1>2, NoneIsNoMessage, Sets DEF IInv, Recorded, Shape
<1>11. Remembered'
  BY <1>1, <1>2, NoneIsNoMessage, Sets DEF IInv, Remembered
<1>12. QED
  BY <1>3, <1>4, <1>5, <1>6, <1>7, <1>8, <1>9, <1>10, <1>11 DEF IInv

-----------------------------------------------------------------------------
(* The invariant holds                                                      *)

LEMMA InitHolds == Init => IInv
<1> SUFFICES ASSUME Init PROVE IInv
  OBVIOUS
<1>1. /\ Rows = {} /\ Waiting(journal) = {} /\ Steered = {} /\ queue \in Seq(Msgs)
      /\ Sound(journal, Msgs) /\ IsInjective(queue)
  BY DEF Init, NoRows, Rows, Waiting, Steered, NoSend, Detached, Sound, IsInjective, ToSet
<1>2. used \in Uses /\ row \in Marks /\ row.fenced = {} /\ row.held = {}
  BY TurnQueueAssumption DEF Init, Uses, Marks, NoMarks
<1>3. /\ turn \in Turns /\ turn.state = "idle" /\ send \in Sends /\ send.pc = "none"
      /\ admit \in Admissions /\ admit.pc = "idle" /\ admit.msg = None
  BY NoTurnIs, NoSendIs, NoAdmissionIs DEF Init
<1>4. TypeOK
  BY <1>1, <1>2, <1>3 DEF Init, TypeOK, Sound, Msg
<1>5. Shape /\ Orderly /\ Exclusive
  BY <1>1, <1>3 DEF Init, Shape, Orderly, Exclusive, Detached, Replacing
<1>6. Disjoint /\ Kept /\ Fences
  BY <1>1, <1>2, <1>3 DEF Init, Disjoint, Kept, Fences
<1>7. Fates /\ GivenOnce /\ Recorded /\ Remembered
  BY <1>1, <1>3 DEF Init, Fates, GivenOnce, Recorded, Remembered
<1>8. QED
  BY <1>4, <1>5, <1>6, <1>7 DEF IInv

LEMMA StutterKeeps ==
  ASSUME IInv, UNCHANGED vars
  PROVE  IInv'
<1>1. Undisturbed
  BY DEF IInv, TypeOK, vars, live, ghosts, Undisturbed
<1>2. QED
  BY <1>1, UndisturbedKeeps

LEMMA NextKeeps ==
  ASSUME ~Torn, IInv, Next
  PROVE  IInv'
<1>1. CASE \E m \in Msgs : Submit(m) \/ Unqueue(m) \/ RunNow(m) \/ Forget(m)
  BY <1>1, SubmitKeeps, UnqueueKeeps, RunNowKeeps, ForgetKeeps
<1>2. CASE \E i \in DOMAIN queue : Move(i)
  BY <1>2, MoveKeeps
<1>3. CASE Admission
  BY <1>3, AdmissionWaitsKeeps, AdmissionFailsKeeps, DiscardKeeps, PersistStartKeeps, CommitTurnKeeps
     DEF Admission
<1>4. CASE Turn
  BY <1>4, ProviderReadyKeeps, TurnOverKeeps, ReleaseSlotKeeps DEF Turn
<1>5. CASE Promotion
  BY <1>5, BeginPromotionKeeps, PromoteKeeps, WaiterDoneKeeps DEF Promotion
<1>6. CASE Selection
  BY <1>6, RefuseKeeps, ProbeNonNativeKeeps, SelectNativeKeeps, SelectToReplaceKeeps DEF Selection
<1>7. CASE NativeLane
  BY <1>7, AcceptKeeps, RejectSafelyKeeps, FenceKeeps, SteerKeeps, CommitSteerKeeps,
     DeliveryUncertainKeeps, RequeueKeeps DEF NativeLane
<1>8. CASE StopLane
  BY <1>8, InterruptKeeps, SlotFreeKeeps, DeferKeeps, CommitPromotionKeeps DEF StopLane
<1>9. CASE StopSteps
  BY <1>9, PauseQueueKeeps, FinishStopKeeps DEF StopSteps
<1>10. QED
  BY <1>1, <1>2, <1>3, <1>4, <1>5, <1>6, <1>7, <1>8, <1>9, SettleKeeps, BeginStopKeeps, PollKeeps,
     CrashKeeps DEF Next

THEOREM Inductive ==
  ASSUME ~Torn
  PROVE  Spec => []IInv
<1>1. IInv /\ [Next]_vars => IInv'
  BY NextKeeps, StutterKeeps
<1>2. QED
  BY <1>1, InitHolds, PTL DEF Spec

-----------------------------------------------------------------------------
(* What follows                                                             *)

\* Every variable keeps its type: the marks of the journal are on rows that wait.
THEOREM TypeCorrect ==
  ASSUME ~Torn
  PROVE  Spec => []TypeOK
<1>1. IInv => TypeOK
  BY DEF IInv
<1>2. QED
  BY <1>1, Inductive, PTL

\* The provider gets no message twice.
THEOREM GivenAtMostOnce ==
  ASSUME ~Torn
  PROVE  Spec => []NoReplay
<1>1. IInv => NoReplay
  BY DEF IInv, GivenOnce, NoReplay
<1>2. QED
  BY <1>1, Inductive, PTL

\* A message that was accepted is in the journal until it starts or is removed.
THEOREM AcceptedIsKept ==
  ASSUME ~Torn
  PROVE  Spec => []NothingLost
<1>1. IInv => NothingLost
  BY DEF IInv, Fates, NothingLost
<1>2. QED
  BY <1>1, Inductive, PTL

\* A remembered success is not of a row that a Stop holds.
THEOREM SuccessIsFresh ==
  ASSUME ~Torn
  PROVE  Spec => []NoStaleSuccess
<1>1. IInv => NoStaleSuccess
  BY DEF IInv, Remembered, NoStaleSuccess
<1>2. QED
  BY <1>1, Inductive, PTL

\* A message is at no two places of the server.
LEMMA OnePlace ==
  ASSUME IInv, NEW m \in Msgs
  PROVE  Cardinality(Places(m)) <= 1
<1> DEFINE Q == {<<"queue", i>> : i \in {i \in DOMAIN queue : queue[i] = m}}
           R == {p \in {"promoted", "admission", "steer"} :
                  CASE p = "promoted" -> runNow = m
                    [] p = "admission" -> admit.msg = m
                    [] p = "steer" -> send.msg = m /\ send.pc \in Detached}
<1>1. Places(m) = Q \cup R
  BY DEF Places
<1>2. \A S : (\A p, q \in S : p = q) => Cardinality(S) <= 1
  <2>1. TAKE S
  <2>2. CASE S = {}
    BY <2>2, FS_EmptySet
  <2>3. ASSUME NEW p \in S, \A x, y \in S : x = y PROVE Cardinality(S) <= 1
    <3>1. S = {p}
      BY <2>3
    <3>2. Cardinality(S) = 1
      BY <3>1, FS_Singleton
    <3>3. QED
      BY <3>2
  <2>4. QED
    BY <2>2, <2>3
<1>3. CASE m \in Rows
  <2>1. R = {}
    BY <1>3 DEF IInv, Disjoint, Steered
  <2>2. \A i, j \in DOMAIN queue : queue[i] = m /\ queue[j] = m => i = j
    BY Sets DEF IsInjective
  <2>3. \A p, q \in Q : p = q
    BY <2>2
  <2>4. QED
    BY <1>1, <1>2, <2>1, <2>3
<1>4. CASE m \notin Rows
  <2>1. Q = {}
    BY <1>4, Sets, Elements DEF Rows
  <2>2. \A p, q \in R : p = q
    BY NoneIsNoMessage DEF IInv, Disjoint, Steered
  <2>3. QED
    BY <1>1, <1>2, <2>1, <2>2
<1>5. QED
  BY <1>3, <1>4

\* A message is owned once in the server, and one that waits in the journal is
\* owned unless its delivery is uncertain.
THEOREM OwnedOnce ==
  ASSUME ~Torn
  PROVE  Spec => []OneOwner
<1>1. ASSUME IInv, NEW m \in Msgs, m \in Waiting(journal) \ journal.fenced PROVE Places(m) # {}
  <2>1. m \in Rows \/ m = runNow \/ m = admit.msg \/ (send.msg = m /\ send.pc \in Detached)
    BY <1>1 DEF IInv, Kept, Steered
  <2>2. CASE m \in Rows
    <3>1. PICK i \in DOMAIN queue : queue[i] = m
      BY <1>1, <2>2, Sets, Elements DEF Rows
    <3>2. <<"queue", i>> \in Places(m)
      BY <3>1 DEF Places
    <3>3. QED
      BY <3>2
  <2>3. QED
    BY <2>1, <2>2 DEF Places
<1>2. IInv => OneOwner
  BY <1>1, OnePlace DEF OneOwner
<1>3. QED
  BY <1>2, Inductive, PTL

\* Only three actions give a message to the provider.
LEMMA GivesOnly ==
  ASSUME Next, given' # given
  PROVE  ProviderReady \/ Steer \/ DeliveryUncertain
<1>1. ~(\E m \in Msgs : Submit(m) \/ Unqueue(m) \/ RunNow(m) \/ Forget(m)) /\ ~(\E i \in DOMAIN queue : Move(i))
  BY DEF Submit, Unqueue, RunNow, Forget, Move, ghosts
<1>2. ~Admission /\ ~Promotion
  BY DEF Admission, AdmissionWaits, AdmissionFails, Discard, PersistStart, CommitTurn,
         Promotion, BeginPromotion, Promote, WaiterDone, ghosts
<1>3. Turn => ProviderReady
  BY DEF Turn, TurnOver, ReleaseSlot, ghosts
<1>4. ~Selection /\ ~StopLane /\ ~Settle
  BY DEF Selection, Refuse, ProbeNonNative, SelectNative, SelectToReplace,
         StopLane, Interrupt, SlotFree, Defer, CommitPromotion, Settle, ghosts
<1>5. NativeLane => Steer \/ DeliveryUncertain
  BY DEF NativeLane, Accept, RejectSafely, Fence, CommitSteer, Requeue, ghosts
<1>6. ~BeginStop /\ ~StopSteps /\ ~Poll /\ ~Crash
  BY DEF BeginStop, StopSteps, PauseQueue, FinishStop, Poll, Crash, ghosts
<1>7. QED
  BY <1>1, <1>2, <1>3, <1>4, <1>5, <1>6 DEF Next

\* A message that a Stop has recorded as held is not given to the provider.
THEOREM HoldIsRespected ==
  ASSUME ~Torn
  PROVE  Spec => HoldRespected
<1> DEFINE Respected == \A m \in Msgs : given'[m] > given[m] => parked[m] # "recorded"
<1>1. ASSUME IInv, Next PROVE Respected
  <2>1. given \in [Msgs -> Nat]
    BY <1>1 DEF IInv, TypeOK
  <2>2. CASE ProviderReady
    <3>1. \A m \in Msgs : m # turn.msg => given'[m] = given[m]
      BY <2>1, <2>2 DEF ProviderReady, Give
    <3>2. parked[turn.msg] # "recorded" \/ turn.msg \notin Msgs
      BY <1>1, <2>2 DEF ProviderReady, IInv, Recorded
    <3>3. QED
      BY <2>1, <3>1, <3>2
  <2>3. CASE Steer \/ DeliveryUncertain
    <3>1. \A m \in Msgs : m # send.msg => given'[m] = given[m]
      BY <2>1, <2>3 DEF Steer, DeliveryUncertain, Give
    <3>2. parked[send.msg] # "recorded" \/ send.msg \notin Msgs
      BY <1>1, <2>3 DEF Steer, DeliveryUncertain, IInv, Recorded, Steered, Detached
    <3>3. QED
      BY <2>1, <3>1, <3>2
  <2>4. CASE given' = given
    BY <2>1, <2>4
  <2>5. QED
    BY <1>1, <2>2, <2>3, <2>4, GivesOnly
<1>2. ASSUME IInv, UNCHANGED vars PROVE Respected
  BY <1>2 DEF IInv, TypeOK, vars, ghosts
<1>3. IInv /\ [Next]_vars => [Respected]_vars
  BY <1>1
<1>4. QED
  BY <1>3, Inductive, PTL DEF HoldRespected, Spec

=============================================================================
