----------------------------- MODULE TurnQueue -----------------------------
(***************************************************************************)
(* The messages that wait for their turn in one chat                       *)
(* (server/agent_server.py): submission, the queue and its journal, the    *)
(* promotion of its next row, Run Now (Force Send) through both of its     *)
(* lanes, explicit Stop, and recovery after a crash.                       *)
(*                                                                         *)
(* The server is one event loop.  What runs under QUEUE_LOCK, durable      *)
(* append included, is one step; everything else interleaves at its        *)
(* awaits.  The chat's lifecycle lock serializes admissions, the Run Now   *)
(* that stops the live turn, and the first moment of a Stop.               *)
(***************************************************************************)
EXTENDS TurnJournal

CONSTANTS
  Msgs,      \* the messages users send
  MaxStops, MaxSends, MaxMoves,  \* bounds: Stops, Run Now requests, reorders
  MaxFaults, MaxCrashes,         \* bounds: failing steps, crashes
  Torn,      \* whether a crash may leave only the first events of a batch
  None

ASSUME TurnQueueAssumption ==
  /\ {MaxStops, MaxSends, MaxMoves, MaxFaults, MaxCrashes} \subseteq Nat
  /\ Torn \in BOOLEAN
  /\ None \notin Msgs

VARIABLES
  journal,   \* what recovery reads from events.jsonl
  queue,     \* QUEUED_TURNS
  runNow,    \* RUN_NOW_TURNS: the promoted row, or None
  row,       \* marks on live rows: held, fenced, and unsaved (_durable is False)
  steering,  \* STEERING_SESSIONS: no, or its owner, a send or the slot waiter
  turn,      \* the provider turn that holds the slot
  admit,     \* the admission under way (_start_turn_locked)
  starter,   \* QUEUE_START_TASKS: the live promotion
  wake,      \* a promotion task or retry timer that has not begun
  send,      \* RUN_NOW_REQUESTS: the Run Now request
  cached,    \* RUN_NOW_COMPLETED_RESULTS: messages with a remembered success
  stop,      \* the explicit Stop
  fate,      \* ghost: what became of each message
  given,     \* ghost: how often the provider got each message
  parked,    \* ghost: messages a Stop found waiting, and whether it recorded that
  used       \* how much of each bound is used up

live == <<queue, runNow, row>>
ghosts == <<fate, given, parked>>
vars == <<journal, live, steering, turn, admit, starter, wake, send, cached, stop, ghosts, used>>

NoTurn == [state |-> "idle", msg |-> None, stopping |-> FALSE]
NoAdmission == [pc |-> "idle", msg |-> None]
NoSend == [pc |-> "none", msg |-> None, index |-> 0, before |-> None, after |-> None, wasHeld |-> FALSE]
NoMarks == [held |-> {}, fenced |-> {}, unsaved |-> {}]

\* A request that has detached its row and handed it to the provider's consumer,
\* and one that stops the live turn to promote its row.
Detached == {"offered", "accepted", "fenced", "sent", "rejected"}
Replacing == {"stopping", "interrupting", "promoting"}

Msg == Msgs \cup {None}
Turns == [state : {"idle", "starting", "ready", "over"}, msg : Msg, stopping : BOOLEAN]
Admissions == [pc : {"idle", "reserved", "started"}, msg : Msg]
Sends == [pc : {"none", "probe", "lock", "settle"} \cup Detached \cup Replacing, msg : Msg,
          index : Nat, before : Msg, after : Msg, wasHeld : BOOLEAN]
Marks == [held : SUBSET Msgs, fenced : SUBSET Msgs, unsaved : SUBSET Msgs]
Uses == [stops : 0 .. MaxStops, sends : 0 .. MaxSends, moves : 0 .. MaxMoves,
         faults : 0 .. MaxFaults, crashes : 0 .. MaxCrashes]
TypeOK ==
  /\ journal \in [order : Seq(Msgs), held : SUBSET Msgs, fenced : SUBSET Msgs]
  /\ journal.held \cup journal.fenced \subseteq Waiting(journal)
  /\ queue \in Seq(Msgs)
  /\ runNow \in Msg
  /\ row \in Marks
  /\ steering \in {"no", "send", "waiter"}
  /\ turn \in Turns /\ admit \in Admissions /\ send \in Sends
  /\ starter \in {"none", "waiting", "admitting"}
  /\ wake \in BOOLEAN
  /\ cached \subseteq Msgs
  /\ stop \in {"no", "fenced", "paused"}
  /\ fate \in [Msgs -> {"new", "waiting", "started", "removed"}]
  /\ given \in [Msgs -> Nat]
  /\ parked \in [Msgs -> {"no", "recorded", "unrecorded"}]
  /\ used \in Uses

Init ==
  /\ journal = NoRows
  /\ queue = <<>> /\ runNow = None /\ row = NoMarks
  /\ steering = "no"
  /\ turn = NoTurn /\ admit = NoAdmission
  /\ starter = "none" /\ wake = FALSE
  /\ send = NoSend /\ cached = {}
  /\ stop = "no"
  /\ fate = [m \in Msgs |-> "new"]
  /\ given = [m \in Msgs |-> 0]
  /\ parked = [m \in Msgs |-> "no"]
  /\ used = [stops |-> 0, sends |-> 0, moves |-> 0, faults |-> 0, crashes |-> 0]

Busy == turn.state # "idle" \/ admit.pc # "idle"
Locked == admit.pc # "idle" \/ send.pc \in Replacing
Rows == ToSet(queue)
Head1 == IF queue = <<>> THEN None ELSE Head(queue)
NextRow == IF runNow # None THEN runNow ELSE Head1
Runnable(m) == m # None /\ m \notin row.held \cup row.unsaved

Spend(what) == used' = [used EXCEPT ![what] = @ + 1]
Fault == used.faults < MaxFaults /\ Spend("faults")

\* A durable append succeeds, leaving j, or fails and leaves the journal alone.
Appended(j) == journal' = j /\ UNCHANGED used
NotAppended == journal' = journal /\ Fault

Unmarked(ms) == [held |-> row.held \ ms, fenced |-> row.fenced \ ms, unsaved |-> row.unsaved \ ms]
Released(ms) == [row EXCEPT !.held = @ \ ms]

\* A row that was taken out goes back next to the neighbour it had.
PutBack(rows) ==
  LET at == IF Place(rows, send.after) # 0 THEN Place(rows, send.after)
            ELSE IF Place(rows, send.before) # 0 THEN Place(rows, send.before) + 1
            ELSE IF send.index > Len(rows) THEN Len(rows) + 1 ELSE send.index
  IN InsertAt(rows, at, send.msg)
\* The deferred lane uses the old index alone.
PutAtIndex(rows) ==
  InsertAt(rows, IF send.index > Len(rows) THEN Len(rows) + 1 ELSE send.index, send.msg)

(***************************************************************************)
(* Submission, and changes of the visible queue.                           *)
(***************************************************************************)
PriorQueue == queue # <<>> \/ runNow # None \/ steering # "no" \/ starter # "none"

Enqueue(m) ==
  /\ \/ /\ Appended(Queued(journal, m))
        /\ queue' = Append(queue, m)
        /\ fate' = [fate EXCEPT ![m] = "waiting"]
        /\ wake' = (wake \/ ~Busy)
     \/ NotAppended /\ UNCHANGED <<queue, fate, wake>>
  /\ UNCHANGED admit

\* start_turn: a message waits behind a live turn, a Stop or earlier messages,
\* and reserves the slot otherwise.
Submit(m) ==
  /\ fate[m] = "new"
  /\ ~Locked
  /\ IF Busy \/ stop # "no" \/ PriorQueue
     THEN Enqueue(m)
     ELSE /\ admit' = [pc |-> "reserved", msg |-> m]
          /\ UNCHANGED <<journal, queue, fate, wake, used>>
  /\ UNCHANGED <<runNow, row, steering, turn, starter, send, cached, stop, given, parked>>

Unqueue(m) ==
  /\ m \in Rows
  /\ \/ /\ Appended(Consumed(journal, m))
        /\ queue' = RemoveFirst(queue, m)
        /\ row' = Unmarked({m})
        /\ fate' = [fate EXCEPT ![m] = "removed"]
     \/ NotAppended /\ UNCHANGED <<queue, row, fate>>
  /\ UNCHANGED <<runNow, steering, turn, admit, starter, wake, send, cached, stop, given, parked>>

\* move_queued_turn, up; moving a row down moves the next one up.
Move(i) ==
  /\ i > 1
  /\ used.moves < MaxMoves
  /\ LET moved == [queue EXCEPT ![i - 1] = queue[i], ![i] = queue[i - 1]] IN
       /\ journal' = Reordered(journal, moved)
       /\ queue' = moved
  /\ Spend("moves")
  /\ UNCHANGED <<runNow, row, steering, turn, admit, starter, wake, send, cached, stop, ghosts>>

(***************************************************************************)
(* Promotion: one task at a time takes the next row under the lifecycle    *)
(* lock and starts its turn.                                               *)
(***************************************************************************)
\* start_next_queued_turn first clears a steering fence that nobody owns.
Ownerless == stop = "no" /\ send.pc = "none" /\ ~Busy /\ steering = "send"
Repaired == IF Ownerless THEN "no" ELSE steering

BeginPromotion ==
  /\ wake
  /\ wake' = FALSE
  /\ IF starter = "none" THEN starter' = "waiting" /\ steering' = Repaired
     ELSE UNCHANGED <<starter, steering>>  \* another promotion lives: this one returns
  /\ UNCHANGED <<journal, live, turn, admit, send, cached, stop, ghosts, used>>

Admit(m) ==
  /\ admit' = [pc |-> "reserved", msg |-> m]
  /\ starter' = "admitting"

GiveUp == starter' = "none" /\ UNCHANGED admit

PromotionFenced == stop # "no" \/ steering # "no"

TakeNext ==
  \/ /\ PromotionFenced
     /\ GiveUp
     /\ UNCHANGED live
  \/ /\ ~PromotionFenced /\ runNow \in row.held
     /\ runNow' = None
     /\ queue' = <<runNow>> \o queue
     /\ GiveUp /\ UNCHANGED row
  \/ /\ ~PromotionFenced /\ runNow # None /\ runNow \notin row.held
     /\ IF Runnable(runNow) THEN Admit(runNow) /\ runNow' = None ELSE GiveUp /\ UNCHANGED runNow
     /\ UNCHANGED <<queue, row>>
  \/ /\ ~PromotionFenced /\ runNow = None
     /\ IF Runnable(Head1) THEN Admit(Head1) /\ queue' = Tail(queue) ELSE GiveUp /\ UNCHANGED queue
     /\ UNCHANGED <<runNow, row>>

Promote ==
  /\ starter = "waiting"
  /\ ~Locked
  /\ TakeNext
  /\ UNCHANGED <<journal, steering, turn, wake, send, cached, stop, ghosts, used>>

\* Mutant: the row that was popped is dropped.
RefusedAndDropped ==
  /\ admit' = NoAdmission
  /\ starter' = IF starter = "admitting" THEN "none" ELSE starter
  /\ UNCHANGED <<queue, wake>>

\* The admission failed: a promoted row goes back to the front and is retried, a
\* submission is refused.
Refused ==
  /\ admit' = NoAdmission
  /\ IF starter = "admitting"
     THEN starter' = "none" /\ queue' = <<admit.msg>> \o queue /\ wake' = TRUE
     ELSE UNCHANGED <<starter, queue, wake>>

\* A row that was promoted while a turn is live finds the slot taken.
AdmissionWaits ==
  /\ admit.pc = "reserved" /\ turn.state # "idle"
  /\ Refused
  /\ UNCHANGED <<journal, runNow, row, steering, turn, send, cached, stop, ghosts, used>>

AdmissionFails ==
  /\ admit.pc # "idle"
  /\ Fault
  /\ Refused
  /\ UNCHANGED <<journal, runNow, row, steering, turn, send, cached, stop, ghosts>>

\* A row that can never start leaves the journal before it leaves the server.
Discard ==
  /\ admit.pc = "reserved" /\ starter = "admitting"
  /\ admit' = NoAdmission
  /\ starter' = "none"
  /\ Fault
  /\ \/ /\ journal' = Consumed(journal, admit.msg)
        /\ fate' = [fate EXCEPT ![admit.msg] = "removed"]
        /\ wake' = TRUE
        /\ UNCHANGED queue
     \/ queue' = <<admit.msg>> \o queue /\ UNCHANGED <<journal, fate, wake>>
  /\ UNCHANGED <<runNow, row, steering, turn, send, cached, stop, given, parked>>

PersistStart ==
  /\ admit.pc = "reserved" /\ turn.state = "idle"
  /\ journal' = Consumed(journal, admit.msg)
  /\ fate' = [fate EXCEPT ![admit.msg] = "started"]
  /\ admit' = [admit EXCEPT !.pc = "started"]
  /\ UNCHANGED <<live, steering, turn, starter, wake, send, cached, stop, given, parked, used>>

\* From here the provider's task owns the turn.
CommitTurn ==
  /\ admit.pc = "started"
  /\ turn' = [state |-> "starting", msg |-> admit.msg, stopping |-> FALSE]
  /\ admit' = NoAdmission
  /\ starter' = IF starter = "admitting" THEN "none" ELSE starter
  /\ UNCHANGED <<journal, live, steering, wake, send, cached, stop, ghosts, used>>

(***************************************************************************)
(* The live turn.                                                          *)
(***************************************************************************)
Give(m) == given' = [given EXCEPT ![m] = @ + 1]

ProviderReady ==
  /\ turn.state = "starting"
  /\ turn' = [turn EXCEPT !.state = "ready"]
  /\ Give(turn.msg)
  /\ UNCHANGED <<journal, live, steering, admit, starter, wake, send, cached, stop, fate, parked, used>>

\* The provider ends the turn, of its own or because it was interrupted.
TurnOver ==
  /\ turn.state \in {"starting", "ready"}
  /\ turn' = [turn EXCEPT !.state = "over"]
  /\ UNCHANGED <<journal, live, steering, admit, starter, wake, send, cached, stop, ghosts, used>>

\* release_turn_slot, once the consumer has answered the request it accepted.
ReleaseSlot ==
  /\ turn.state = "over"
  /\ send.pc \notin {"accepted", "fenced", "sent"}
  /\ turn' = NoTurn
  /\ wake' = TRUE
  /\ UNCHANGED <<journal, live, steering, admit, starter, send, cached, stop, ghosts, used>>

(***************************************************************************)
(* Run Now: one request at a time.  It first looks for the native lane,    *)
(* which steers the live turn; without one it takes the lifecycle lock,    *)
(* stops the live turn and promotes the row.                               *)
(***************************************************************************)
\* A remembered success answers without a request of its own.
RunNow(m) ==
  /\ used.sends < MaxSends /\ Spend("sends")
  /\ send.pc = "none" /\ m \notin cached
  /\ fate[m] # "new" /\ stop = "no"
  /\ send' = [NoSend EXCEPT !.pc = "probe", !.msg = m]
  /\ UNCHANGED <<journal, live, steering, turn, admit, starter, wake, cached, stop, ghosts>>

Sendable(m) == steering = "no" /\ runNow = None /\ m \in Rows /\ m \notin row.fenced

\* The first look goes without the lifecycle lock, so that a Stop may begin after
\* the request has looked for one; the second look has the lock.
Probing == send.pc = "probe" \/ (send.pc = "lock" /\ ~Locked)
StopSeen == send.pc = "lock" /\ stop # "no"

Refuse ==
  /\ Probing
  /\ StopSeen \/ ~Sendable(send.msg)
  /\ send' = NoSend
  /\ UNCHANGED <<journal, live, steering, turn, admit, starter, wake, cached, stop, ghosts, used>>

\* Whether the lane is native depends on the provider and on what both turns use.
ProbeNonNative ==
  /\ send.pc = "probe" /\ Sendable(send.msg)
  /\ send' = [send EXCEPT !.pc = "lock"]
  /\ UNCHANGED <<journal, live, steering, turn, admit, starter, wake, cached, stop, ghosts, used>>

\* Run Now takes the row out of the queue and releases its hold.
Select(pc) ==
  LET i == Place(queue, send.msg) IN
    /\ send' = [pc |-> pc, msg |-> send.msg, index |-> i, wasHeld |-> send.msg \in row.held,
                before |-> IF i = 1 THEN None ELSE queue[i - 1],
                after |-> IF i = Len(queue) THEN None ELSE queue[i + 1]]
    /\ queue' = RemoveAt(queue, i)
    /\ row' = Released({send.msg})
    /\ steering' = "send"
    /\ parked' = [parked EXCEPT ![send.msg] = "no"]

SelectNative ==
  /\ Probing
  /\ Sendable(send.msg) /\ ~StopSeen
  /\ turn.state = "ready"
  /\ Select("offered")
  /\ UNCHANGED <<journal, runNow, turn, admit, starter, wake, cached, stop, fate, given, used>>

SelectToReplace ==
  /\ send.pc = "lock" /\ ~Locked
  /\ Sendable(send.msg) /\ ~StopSeen
  /\ Select("stopping")
  /\ runNow' = send.msg
  /\ UNCHANGED <<journal, turn, admit, starter, wake, cached, stop, fate, given, used>>

SendGoesTo(pc) == send' = [send EXCEPT !.pc = pc]
\* Mutant: the fence of a request outlives it.
EndSendFenced == send' = NoSend /\ UNCHANGED steering
EndSend == send' = NoSend /\ steering' = "no"

\* --- the native lane: the consumer of the live turn ---
Accept ==
  /\ send.pc = "offered" /\ turn.state = "ready"
  /\ SendGoesTo("accepted")
  /\ UNCHANGED <<journal, live, steering, turn, admit, starter, wake, cached, stop, ghosts, used>>

Stopping == turn.state # "ready" \/ turn.stopping

\* Mutant: no answer counts as a refusal.
RejectUnanswered ==
  /\ send.pc \in {"offered", "accepted", "fenced", "sent"}
  /\ SendGoesTo("rejected")
  /\ UNCHANGED <<journal, live, steering, turn, admit, starter, wake, cached, stop, ghosts, used>>

\* Nothing was sent: the turn stops or ends, nobody accepted it in time, or the
\* provider refuses.
RejectSafely ==
  /\ \/ send.pc = "offered"
     \/ send.pc = "accepted" /\ Stopping
     \/ send.pc = "fenced"
  /\ SendGoesTo("rejected")
  /\ UNCHANGED <<journal, live, steering, turn, admit, starter, wake, cached, stop, ghosts, used>>

Fence ==
  /\ send.pc = "accepted" /\ ~Stopping
  /\ \/ /\ Appended(DeliveryFenced(journal, send.msg, send.index))
        /\ row' = [row EXCEPT !.held = @ \cup {send.msg}, !.fenced = @ \cup {send.msg}]
        /\ SendGoesTo("fenced")
     \/ NotAppended /\ SendGoesTo("rejected") /\ UNCHANGED row
  /\ UNCHANGED <<queue, runNow, steering, turn, admit, starter, wake, cached, stop, ghosts>>

Steer ==
  /\ send.pc = "fenced" /\ ~Stopping
  /\ Give(send.msg)
  /\ SendGoesTo("sent")
  /\ UNCHANGED <<journal, live, steering, turn, admit, starter, wake, cached, stop, fate, parked, used>>

\* turn_stopped of the old turn, turn_queue_run_now and turn_started in one batch.
CommitSteer ==
  /\ send.pc = "sent" /\ turn.state = "ready"
  /\ journal' = Consumed(RunNext(journal, send.msg), send.msg)
  /\ turn' = [turn EXCEPT !.msg = send.msg]
  /\ fate' = [fate EXCEPT ![send.msg] = "started"]
  /\ row' = Unmarked({send.msg})
  /\ SendGoesTo("settle") /\ steering' = "no"
  /\ UNCHANGED <<queue, runNow, admit, starter, wake, cached, stop, given, parked, used>>

\* No answer, the turn ended at the same moment, or the batch failed: the row may
\* have been delivered, and only the journal keeps it, held and fenced.
DeliveryUncertain ==
  /\ \/ send.pc = "fenced" /\ ~Stopping /\ Fault /\ (Give(send.msg) \/ UNCHANGED given)
     \/ send.pc = "sent" /\ (Fault \/ (turn.state = "over" /\ UNCHANGED used)) /\ UNCHANGED given
  /\ EndSend
  /\ row' = Unmarked({send.msg})
  /\ wake' = (wake \/ ~Busy)
  /\ UNCHANGED <<journal, queue, runNow, turn, admit, starter, cached, stop, fate, parked>>

\* requeue_native_steer_after_safe_rejection, and the end of the request.
Requeue ==
  /\ send.pc = "rejected"
  /\ queue' = PutBack(queue)
  /\ \/ /\ Appended(Reordered(Queued(journal, send.msg), queue'))
        /\ row' = [row EXCEPT !.held = @ \ {send.msg}, !.fenced = @ \ {send.msg}]
     \/ NotAppended /\ row' = [row EXCEPT !.held = @ \cup {send.msg}]
  /\ EndSend
  /\ wake' = (wake \/ ~Busy)
  /\ UNCHANGED <<runNow, turn, admit, starter, cached, stop, ghosts>>

\* --- the other lane: stop the live turn, then promote the row ---
Interrupt ==
  /\ send.pc = "stopping" /\ turn.state \in {"ready", "over"}
  /\ turn' = [turn EXCEPT !.stopping = TRUE]
  /\ SendGoesTo("interrupting")
  /\ UNCHANGED <<journal, live, steering, admit, starter, wake, cached, stop, ghosts, used>>

SlotFree ==
  /\ send.pc \in {"stopping", "interrupting"} /\ turn.state = "idle"
  /\ SendGoesTo("promoting")
  /\ UNCHANGED <<journal, live, steering, turn, admit, starter, wake, cached, stop, ghosts, used>>

\* The provider is still starting, or does not confirm the stop in time.
Defer ==
  /\ \/ send.pc = "stopping" /\ turn.state = "starting"
     \/ send.pc = "interrupting" /\ turn.state # "idle"
  /\ queue' = PutAtIndex(queue)
  /\ runNow' = None
  /\ EndSend
  /\ UNCHANGED <<journal, row, turn, admit, starter, wake, cached, stop, ghosts, used>>

CommitPromotion ==
  /\ send.pc = "promoting"
  /\ \/ /\ Appended(RunNext(journal, send.msg))
        /\ steering' = "waiter"
        /\ SendGoesTo("settle")
        /\ UNCHANGED <<queue, runNow, row, wake>>
     \/ /\ NotAppended
        /\ runNow' = None
        /\ queue' = PutBack(queue)
        /\ row' = IF send.wasHeld THEN [row EXCEPT !.held = @ \cup {send.msg}] ELSE row
        /\ wake' = TRUE
        /\ EndSend
  /\ UNCHANGED <<turn, admit, starter, cached, stop, ghosts>>

\* The slot waiter gives up its fence when the slot is free, and promotes.
WaiterDone ==
  /\ steering = "waiter" /\ ~Busy
  /\ steering' = "no"
  /\ wake' = TRUE
  /\ UNCHANGED <<journal, live, turn, admit, starter, send, cached, stop, ghosts, used>>

\* The success is remembered unless a Stop holds the row by now.
\* Mutant: the row is not looked at again.
HeldUnchecked(m) == FALSE
HeldByStop(m) == m \in row.held /\ m \in Rows \cup {runNow}
Settle ==
  /\ send.pc = "settle"
  /\ cached' = IF HeldByStop(send.msg) THEN cached ELSE cached \cup {send.msg}
  /\ send' = NoSend
  /\ UNCHANGED <<journal, live, steering, turn, admit, starter, wake, stop, ghosts, used>>

\* A remembered success expires.
Forget(m) ==
  /\ m \in cached
  /\ cached' = cached \ {m}
  /\ UNCHANGED <<journal, live, steering, turn, admit, starter, wake, send, stop, ghosts, used>>

(***************************************************************************)
(* Explicit Stop.                                                          *)
(***************************************************************************)
\* The operation fences promotion and marks the turn it sees, under the lifecycle
\* lock; the rest of it runs without.
BeginStop ==
  /\ used.stops < MaxStops /\ Spend("stops")
  /\ stop = "no" /\ ~Locked
  /\ stop' = "fenced"
  /\ turn' = [turn EXCEPT !.stopping = (turn.state # "idle")]
  /\ UNCHANGED <<journal, live, steering, admit, starter, wake, send, cached, ghosts>>

\* pause_queued_turns_after_explicit_stop
PauseQueue ==
  LET named == Rows \cup ({runNow} \ {None}) IN
    /\ stop = "fenced"
    /\ stop' = "paused"
    /\ \/ /\ Appended(Paused(journal, named))
          /\ row' = [row EXCEPT !.held = @ \cup named]
       \/ /\ NotAppended /\ named # {}
          /\ row' = [row EXCEPT !.held = @ \cup named, !.unsaved = @ \cup named]
    /\ runNow' = None
    /\ queue' = IF runNow = None THEN queue ELSE <<runNow>> \o queue
    /\ cached' = cached \ named
    /\ parked' = [m \in Msgs |->
         IF m \in named /\ used' = used THEN "recorded"
         ELSE IF (m \in named /\ parked[m] = "no") \/ (m = send.msg /\ send.pc \in Detached)
         THEN "unrecorded" ELSE parked[m]]
  /\ UNCHANGED <<steering, turn, admit, starter, wake, send, fate, given>>

\* The operation ends when the slot is free or its wait for that runs out.
FinishStop ==
  /\ stop = "paused" /\ ~Locked
  /\ stop' = "no"
  /\ wake' = TRUE
  /\ UNCHANGED <<journal, live, steering, turn, admit, starter, send, cached, ghosts, used>>

(***************************************************************************)
(* The health poll, and a crash with the recovery of the next process.     *)
(***************************************************************************)
\* reconcile_idle_queue_session
Poll ==
  /\ stop = "no" /\ send.pc = "none" /\ ~Busy /\ starter = "none" /\ steering # "waiter"
  /\ steering' = "no"
  /\ ~wake /\ wake' = Runnable(NextRow)
  /\ UNCHANGED <<journal, live, turn, admit, starter, send, cached, stop, ghosts, used>>

\* What a crash leaves of the batch that is being written.
Survivors ==
  {journal} \cup
  (IF ~Torn THEN {}
   ELSE CASE send.pc = "accepted" /\ ~Stopping -> {Consumed(journal, send.msg)}
          [] send.pc = "sent" /\ turn.state = "ready" -> {RunNext(journal, send.msg)}
          [] send.pc = "rejected" -> {Queued(journal, send.msg)}
          [] OTHER -> {})

\* Recovery rebuilds the queue from the journal and closes the turn that was left
\* open without replaying it.
Crash ==
  /\ used.crashes < MaxCrashes /\ Spend("crashes")
  /\ journal' \in Survivors
  /\ queue' = journal'.order
  /\ runNow' = None
  /\ row' = [held |-> journal'.held, fenced |-> journal'.fenced, unsaved |-> {}]
  /\ steering' = "no" /\ turn' = NoTurn /\ admit' = NoAdmission /\ starter' = "none"
  /\ wake' = (queue' # <<>> /\ Head(queue') \notin row'.held)
  /\ send' = NoSend /\ cached' = {} /\ stop' = "no"
  /\ UNCHANGED ghosts

Admission == AdmissionWaits \/ AdmissionFails \/ Discard \/ PersistStart \/ CommitTurn
Turn == ProviderReady \/ TurnOver \/ ReleaseSlot
Promotion == BeginPromotion \/ Promote \/ WaiterDone
NativeLane == Accept \/ RejectSafely \/ Fence \/ Steer \/ CommitSteer \/ DeliveryUncertain \/ Requeue
StopLane == Interrupt \/ SlotFree \/ Defer \/ CommitPromotion
Selection == Refuse \/ ProbeNonNative \/ SelectNative \/ SelectToReplace
StopSteps == PauseQueue \/ FinishStop

Next ==
  \/ \E m \in Msgs : Submit(m) \/ Unqueue(m) \/ RunNow(m) \/ Forget(m)
  \/ \E i \in DOMAIN queue : Move(i)
  \/ Admission \/ Turn \/ Promotion
  \/ Selection \/ NativeLane \/ StopLane \/ Settle
  \/ BeginStop \/ StopSteps
  \/ Poll \/ Crash

Spec == Init /\ [][Next]_vars

\* Every task of the event loop goes on, a clients' health poll comes again and
\* again; a turn need not end.  The lifecycle lock is handed out in the order of
\* the requests (asyncio.Lock), so that Run Now gets it between promotions.
Fairness ==
  /\ WF_vars(Promotion) /\ WF_vars(Admission) /\ WF_vars(ReleaseSlot)
  /\ SF_vars(Selection) /\ WF_vars(NativeLane) /\ WF_vars(StopLane) /\ WF_vars(Settle)
  /\ WF_vars(StopSteps) /\ WF_vars(Poll)

LiveSpec == Spec /\ Fairness

(***************************************************************************)
(* Properties.                                                             *)
(***************************************************************************)
\* The provider gets no message twice: not through a retry, a second lane, an
\* uncertain steer or a restart.
NoReplay == \A m \in Msgs : given[m] <= 1

Places(m) ==
  {<<"queue", i>> : i \in {i \in DOMAIN queue : queue[i] = m}}
  \cup {p \in {"promoted", "admission", "steer"} :
         CASE p = "promoted" -> runNow = m
           [] p = "admission" -> admit.msg = m
           [] p = "steer" -> send.msg = m /\ send.pc \in Detached}

\* A message has at most one owner in the server, and one that waits in the
\* journal has an owner unless its delivery is uncertain: no row is duplicated,
\* and none is left for the next restart to find.
OneOwner ==
  \A m \in Msgs :
    /\ Cardinality(Places(m)) <= 1
    /\ m \in Waiting(journal) \ journal.fenced => Places(m) # {}

\* An accepted message leaves the journal only when it starts or is removed.
NothingLost == \A m \in Msgs : fate[m] = "waiting" => m \in Waiting(journal)

\* A message that Stop held in the journal is not given to the provider before a
\* later Run Now, restart or not.
HoldRespected ==
  [][\A m \in Msgs : given'[m] > given[m] => parked[m] # "recorded"]_vars

\* Nor is a message that waited when Stop paused the queue, recorded or not.
StopHolds ==
  [][\A m \in Msgs : given'[m] > given[m] => parked[m] = "no"]_vars

\* No remembered success answers a Run Now of a row that a Stop holds.
NoStaleSuccess == \A m \in cached : ~(m \in row.held /\ m \in Rows \cup {runNow})

Startable(m) == NextRow = m /\ Runnable(m) /\ ~Busy

\* The queue never gets stuck: the next row of an idle chat, a promoted one first,
\* is taken up if nothing holds it, and a Run Now request ends together with the
\* fence that it put up, whatever failed or raced on the way (the health poll
\* repairs what a lost task left, reconcile_idle_queue_session).
QueueProgress ==
  /\ \A m \in Msgs : Startable(m) ~> ~Startable(m)
  /\ (steering # "no" \/ send.pc # "none") ~> (steering = "no" /\ send.pc = "none")

=============================================================================
