------------------------ MODULE UpdateHandoffProofs ------------------------
(* Proofs about UpdateHandoff, for every set of updates and every bound.    *)
EXTENDS UpdateHandoff, TLAPS

-----------------------------------------------------------------------------
(* The invariant                                                            *)

\* A lease that an update held once is never acquired for it again: the update
\* has its handoff file from then on, and Start wants an update without one.
Filed ==
  /\ worker.lease \in Updates => file[worker.lease] # 0
  /\ status.update \in Updates => file[status.update] # 0
  /\ server.pc \in {"launching", "undoing", "retry"} => server.update \in Updates
  /\ server.pc \in {"launching", "undoing", "retry"} => file[server.update] # 0
  /\ \A u \in Updates : runner[u] # "none" => file[u] # 0

\* What the row says of its own update.
RowCoherent ==
  /\ status.phase \in {"starting", "failed"} => status.update \in Updates
  /\ Active => status.handoff # None

\* The worker's side and the runner's side each know whom they work for.
Engaged ==
  /\ server.pc \in {"launching", "retry"} => status.update = server.update
  /\ server.pc = "retry" => status.phase = "failed"
  /\ server.pc = "launching" => Active /\ runner[server.update] = "none"
  /\ \A u \in Updates : release[u].pc # "idle" => runner[u] = "releasing"
  /\ release[Retry].pc # "idle" => server.pc = "retry"

\* A release that was confirmed left no lease behind.
Confirmed == \A t \in Threads : release[t].pc = "released" => worker.lease # Of(t)

IInv ==
  TypeOK /\ Filed /\ RowCoherent /\ Engaged /\ Confirmed /\ AcknowledgedMeansReleased

-----------------------------------------------------------------------------
(* Two fields of the row change at once.                                    *)

LEMMA EndedRow ==
  ASSUME status \in Row, NEW p \in Phases, NEW e \in BOOLEAN
  PROVE  /\ Ended(p, e) \in Row /\ Ended(p, e).phase = p
         /\ Ended(p, e).update = status.update /\ Ended(p, e).handoff = status.handoff
BY DEF Ended, Row, Phases

LEMMA ClearedRow ==
  ASSUME status \in Row
  PROVE  /\ Cleared \in Row /\ Cleared.phase = status.phase
         /\ Cleared.update = status.update /\ Cleared.handoff = None
BY DEF Cleared, Row

\* The phases an update ends in.
LEMMA EndPhases == {"failed", "complete"} \subseteq Phases /\ {TRUE, FALSE} \subseteq BOOLEAN
BY DEF Phases

LEMMA FailedRow ==
  ASSUME status \in Row, NEW e \in BOOLEAN
  PROVE  /\ Ended("failed", e) \in Row /\ Ended("failed", e).phase = "failed"
         /\ Ended("failed", e).update = status.update
         /\ Ended("failed", e).handoff = status.handoff
BY EndedRow, EndPhases

-----------------------------------------------------------------------------
(* Every action keeps the invariant, part by part.                          *)

LEMMA PrepareKeeps == ASSUME IInv, Prepare PROVE IInv'
<1> USE HandoffAssumption DEF IInv, TypeOK, Row, Phases, Threads, Prepare, FreshStatus, Active
<1>1. TypeOK'
  OBVIOUS
<1>2. Filed'
  BY DEF Filed
<1>3. RowCoherent'
  BY DEF RowCoherent
<1>4. Engaged'
  BY DEF Engaged, Filed
<1>5. Confirmed'
  BY DEF Confirmed, Of, Engaged, Filed
<1>6. AcknowledgedMeansReleased'
  BY DEF AcknowledgedMeansReleased, RowCoherent, Engaged, Filed, Confirmed, Of
<1>7. QED
  BY <1>1, <1>2, <1>3, <1>4, <1>5, <1>6

LEMMA StartCurrentKeeps == ASSUME IInv, StartCurrent PROVE IInv'
<1> USE HandoffAssumption DEF IInv, TypeOK, Row, Phases, Threads, StartCurrent, FreshStatus, Active
<1>1. TypeOK'
  OBVIOUS
<1>2. Filed'
  BY DEF Filed
<1>3. RowCoherent'
  BY DEF RowCoherent
<1>4. Engaged'
  BY DEF Engaged, Filed
<1>5. Confirmed'
  BY DEF Confirmed, Of, Engaged, Filed
<1>6. AcknowledgedMeansReleased'
  BY DEF AcknowledgedMeansReleased, RowCoherent, Engaged, Filed, Confirmed, Of
<1>7. QED
  BY <1>1, <1>2, <1>3, <1>4, <1>5, <1>6

LEMMA EnsureReturnsKeeps == ASSUME IInv, EnsureReturns PROVE IInv'
<1> USE HandoffAssumption DEF IInv, TypeOK, Row, Phases, Threads, EnsureReturns, Active
<1>1. TypeOK'
  OBVIOUS
<1>2. Filed'
  BY DEF Filed
<1>3. RowCoherent'
  BY DEF RowCoherent
<1>4. Engaged'
  BY DEF Engaged, Filed
<1>5. Confirmed'
  BY DEF Confirmed, Of, Engaged, Filed
<1>6. AcknowledgedMeansReleased'
  BY DEF AcknowledgedMeansReleased, RowCoherent, Engaged, Filed, Confirmed, Of
<1>7. QED
  BY <1>1, <1>2, <1>3, <1>4, <1>5, <1>6

LEMMA StartKeeps == ASSUME IInv, NEW u \in Updates, Start(u) PROVE IInv'
<1> USE HandoffAssumption DEF IInv, TypeOK, Row, Phases, Threads, Start, Active
<1>1. TypeOK'
  OBVIOUS
<1>2. Filed'
  BY DEF Filed
<1>3. RowCoherent'
  BY DEF RowCoherent
<1>4. Engaged'
  BY DEF Engaged, Filed
<1>5. Confirmed'
  BY DEF Confirmed, Of, Engaged, Filed
<1>6. AcknowledgedMeansReleased'
  BY DEF AcknowledgedMeansReleased, RowCoherent, Engaged, Filed, Confirmed, Of
<1>7. QED
  BY <1>1, <1>2, <1>3, <1>4, <1>5, <1>6

LEMMA LaunchKeeps == ASSUME IInv, Launch PROVE IInv'
<1> USE HandoffAssumption DEF IInv, TypeOK, Row, Phases, Threads, Launch, Active
<1>1. TypeOK'
  OBVIOUS
<1>2. Filed'
  BY DEF Filed
<1>3. RowCoherent'
  BY DEF RowCoherent
<1>4. Engaged'
  BY DEF Engaged, Filed
<1>5. Confirmed'
  BY DEF Confirmed, Of, Engaged, Filed
<1>6. AcknowledgedMeansReleased'
  BY DEF AcknowledgedMeansReleased, RowCoherent, Engaged, Filed, Confirmed, Of
<1>7. QED
  BY <1>1, <1>2, <1>3, <1>4, <1>5, <1>6

LEMMA LaunchFailsKeeps == ASSUME IInv, LaunchFails PROVE IInv'
<1> USE HandoffAssumption DEF IInv, TypeOK, Threads, LaunchFails, Active, Fault
<1>0. /\ status' \in Row
      /\ \/ status'.phase \in {"available", "pending"} /\ status'.update = None
         \/ /\ status'.phase = "failed" /\ status'.update = status.update
            /\ status'.handoff = status.handoff
  <2>1. \A p \in {"available", "pending"} : FreshStatus(p) \in Row
    BY DEF Row, Phases, FreshStatus
  <2>2. /\ Ended("failed", FALSE) \in Row /\ Ended("failed", FALSE).phase = "failed"
        /\ Ended("failed", FALSE).update = status.update
        /\ Ended("failed", FALSE).handoff = status.handoff
    BY FailedRow
  <2>3. CASE \E p \in {"available", "pending"} : status' = FreshStatus(p)
    <3>1. PICK p \in {"available", "pending"} : status' = FreshStatus(p)
      BY <2>3
    <3>2. FreshStatus(p).phase = p /\ FreshStatus(p).update = None
      BY DEF FreshStatus
    <3>3. QED
      BY <2>1, <3>1, <3>2
  <2>4. CASE status' = Ended("failed", FALSE)
    BY <2>2, <2>4
  <2>5. QED
    BY <2>3, <2>4
<1>1. TypeOK'
  BY <1>0
<1>2. Filed'
  BY <1>0 DEF Row, Filed
<1>3. RowCoherent'
  BY <1>0 DEF Row, RowCoherent, Engaged
<1>4. Engaged'
  BY <1>0 DEF Row, Engaged, Filed
<1>5. Confirmed'
  BY <1>0 DEF Row, Confirmed, Of, Engaged, Filed
<1>6. AcknowledgedMeansReleased'
  BY <1>0 DEF Row, AcknowledgedMeansReleased, RowCoherent, Engaged, Filed, Confirmed, Of
<1>7. QED
  BY <1>1, <1>2, <1>3, <1>4, <1>5, <1>6

LEMMA LaunchUndoneKeeps == ASSUME IInv, LaunchUndone PROVE IInv'
<1> USE HandoffAssumption DEF IInv, TypeOK, Row, Phases, Threads, LaunchUndone, Active
<1>1. TypeOK'
  OBVIOUS
<1>2. Filed'
  BY DEF Filed
<1>3. RowCoherent'
  BY DEF RowCoherent
<1>4. Engaged'
  BY DEF Engaged, Filed
<1>5. Confirmed'
  BY DEF Confirmed, Of, Engaged, Filed
<1>6. AcknowledgedMeansReleased'
  BY DEF AcknowledgedMeansReleased, RowCoherent, Engaged, Filed, Confirmed, Of
<1>7. QED
  BY <1>1, <1>2, <1>3, <1>4, <1>5, <1>6

LEMMA FinalizeKeeps == ASSUME IInv, Finalize PROVE IInv'
<1> USE HandoffAssumption DEF IInv, TypeOK, Threads, Finalize, Active
<1>0. status' \in Row /\ status'.phase = "failed" /\ status'.update = status.update
        /\ status'.handoff = status.handoff
  BY EndedRow, EndPhases
<1>1. TypeOK'
  BY <1>0
<1>2. Filed'
  BY <1>0 DEF Row, Filed
<1>3. RowCoherent'
  BY <1>0 DEF Row, RowCoherent
<1>4. Engaged'
  BY <1>0 DEF Row, Engaged, Filed
<1>5. Confirmed'
  BY <1>0 DEF Row, Confirmed, Of, Engaged, Filed
<1>6. AcknowledgedMeansReleased'
  BY <1>0 DEF Row, AcknowledgedMeansReleased, RowCoherent, Engaged, Filed, Confirmed, Of
<1>7. QED
  BY <1>1, <1>2, <1>3, <1>4, <1>5, <1>6

LEMMA EnsureRetryKeeps == ASSUME IInv, EnsureRetry PROVE IInv'
<1> USE HandoffAssumption DEF IInv, TypeOK, Row, Phases, Threads, EnsureRetry, Active
<1>1. TypeOK'
  OBVIOUS
<1>2. Filed'
  BY DEF Filed, RowCoherent
<1>3. RowCoherent'
  BY DEF RowCoherent
<1>4. Engaged'
  BY DEF Engaged, Filed
<1>5. Confirmed'
  BY DEF Confirmed, Of, Engaged, Filed
<1>6. AcknowledgedMeansReleased'
  BY DEF AcknowledgedMeansReleased, RowCoherent, Engaged, Filed, Confirmed, Of
<1>7. QED
  BY <1>1, <1>2, <1>3, <1>4, <1>5, <1>6

LEMMA LockKeeps == ASSUME IInv, NEW t \in Threads, Lock(t) PROVE IInv'
<1> USE HandoffAssumption DEF IInv, TypeOK, Row, Phases, Threads, Lock, Moved, Active
<1>1. TypeOK'
  OBVIOUS
<1>2. Filed'
  BY DEF Filed
<1>3. RowCoherent'
  BY DEF RowCoherent
<1>4. Engaged'
  BY DEF Engaged, Filed
<1>5. Confirmed'
  BY DEF Confirmed, Of, Engaged, Filed
<1>6. AcknowledgedMeansReleased'
  BY DEF AcknowledgedMeansReleased, RowCoherent, Engaged, Filed, Confirmed, Of
<1>7. QED
  BY <1>1, <1>2, <1>3, <1>4, <1>5, <1>6

LEMMA LookKeeps == ASSUME IInv, NEW t \in Threads, Look(t) PROVE IInv'
<1> USE HandoffAssumption DEF IInv, TypeOK, Row, Phases, Threads, Look, Held, Unheld, Active
<1>1. TypeOK'
  OBVIOUS
<1>2. Filed'
  BY DEF Filed
<1>3. RowCoherent'
  BY DEF RowCoherent
<1>4. Engaged'
  BY DEF Engaged, Filed
<1>5. Confirmed'
  BY DEF Confirmed, Of, Engaged, Filed
<1>6. AcknowledgedMeansReleased'
  BY DEF AcknowledgedMeansReleased, RowCoherent, Engaged, Filed, Confirmed, Of
<1>7. QED
  BY <1>1, <1>2, <1>3, <1>4, <1>5, <1>6

LEMMA ConfirmKeeps == ASSUME IInv, NEW t \in Threads, Confirm(t) PROVE IInv'
<1> USE HandoffAssumption DEF IInv, TypeOK, Row, Phases, Threads, Confirm, Held, Unheld, Moved, Active
<1>1. TypeOK'
  OBVIOUS
<1>2. Filed'
  BY DEF Filed
<1>3. RowCoherent'
  BY DEF RowCoherent
<1>4. Engaged'
  BY DEF Engaged, Filed
<1>5. Confirmed'
  BY DEF Confirmed, Of, Engaged, Filed
<1>6. AcknowledgedMeansReleased'
  BY DEF AcknowledgedMeansReleased, RowCoherent, Engaged, Filed, Confirmed, Of
<1>7. QED
  BY <1>1, <1>2, <1>3, <1>4, <1>5, <1>6

LEMMA PostKeeps == ASSUME IInv, NEW t \in Threads, Post(t) PROVE IInv'
<1> USE HandoffAssumption DEF IInv, TypeOK, Row, Phases, Threads, Post, Held, Moved, Fault, Active
<1>1. TypeOK'
  OBVIOUS
<1>2. Filed'
  BY DEF Filed
<1>3. RowCoherent'
  BY DEF RowCoherent
<1>4. Engaged'
  BY DEF Engaged, Filed
<1>5. Confirmed'
  BY DEF Confirmed, Of, Engaged, Filed
<1>6. AcknowledgedMeansReleased'
  BY DEF AcknowledgedMeansReleased, RowCoherent, Engaged, Filed, Confirmed, Of
<1>7. QED
  BY <1>1, <1>2, <1>3, <1>4, <1>5, <1>6

LEMMA RefuseKeeps == ASSUME IInv, NEW t \in Threads, Refuse(t) PROVE IInv'
<1> USE HandoffAssumption DEF IInv, TypeOK, Row, Phases, Threads, Refuse, Moved, Unlocked, Fault, Active
<1>1. TypeOK'
  OBVIOUS
<1>2. Filed'
  BY DEF Filed
<1>3. RowCoherent'
  BY DEF RowCoherent
<1>4. Engaged'
  BY DEF Engaged, Filed
<1>5. Confirmed'
  BY DEF Confirmed, Of, Engaged, Filed
<1>6. AcknowledgedMeansReleased'
  BY DEF AcknowledgedMeansReleased, RowCoherent, Engaged, Filed, Confirmed, Of
<1>7. QED
  BY <1>1, <1>2, <1>3, <1>4, <1>5, <1>6

LEMMA RetryClearsKeeps == ASSUME IInv, RetryClears PROVE IInv'
<1> USE HandoffAssumption DEF IInv, TypeOK, Threads, RetryClears, Moved, Active
<1>0. status' \in Row /\ status'.update = status.update /\ status'.phase = status.phase
        /\ (status' = status \/ (server.unchanged /\ status'.handoff = None))
  <2>1. Cleared \in Row /\ Cleared.phase = status.phase /\ Cleared.update = status.update
        /\ Cleared.handoff = None
    BY ClearedRow
  <2>2. status' = status \/ (server.unchanged /\ status' = Cleared)
    OBVIOUS
  <2>3. QED
    BY <2>1, <2>2
<1>1. TypeOK'
  BY <1>0
<1>2. Filed'
  BY <1>0 DEF Row, Filed
<1>3. RowCoherent'
  BY <1>0 DEF Row, RowCoherent, Engaged
<1>4. Engaged'
  BY <1>0 DEF Row, Engaged, Filed
<1>5. Confirmed'
  BY <1>0 DEF Row, Confirmed, Of, Engaged, Filed
<1>6. AcknowledgedMeansReleased'
  BY <1>0 DEF Row, AcknowledgedMeansReleased, RowCoherent, Engaged, Filed, Confirmed, Of
<1>7. QED
  BY <1>1, <1>2, <1>3, <1>4, <1>5, <1>6

LEMMA RetryFailsKeeps == ASSUME IInv, RetryFails PROVE IInv'
<1> USE HandoffAssumption DEF IInv, TypeOK, Row, Phases, Threads, RetryFails, Moved, Active
<1>1. TypeOK'
  OBVIOUS
<1>2. Filed'
  BY DEF Filed
<1>3. RowCoherent'
  BY DEF RowCoherent
<1>4. Engaged'
  BY DEF Engaged, Filed
<1>5. Confirmed'
  BY DEF Confirmed, Of, Engaged, Filed
<1>6. AcknowledgedMeansReleased'
  BY DEF AcknowledgedMeansReleased, RowCoherent, Engaged, Filed, Confirmed, Of
<1>7. QED
  BY <1>1, <1>2, <1>3, <1>4, <1>5, <1>6

LEMMA RunnerFailsKeeps == ASSUME IInv, NEW u \in Updates, RunnerFails(u) PROVE IInv'
<1> USE HandoffAssumption DEF IInv, TypeOK, Threads, RunnerFails, Moved, Active
<1>a. \/ UNCHANGED <<status, release>> /\ runner' = [runner EXCEPT ![u] = "over"]
      \/ /\ Active /\ status.update = u
         /\ release' = [release EXCEPT ![u].pc = "wanted"]
         /\ runner' = [runner EXCEPT ![u] = "releasing"]
  OBVIOUS
<1>b. \A t \in Threads : release'[t] = release[t] \/ (t = u /\ release'[t].pc = "wanted")
  BY <1>a
<1>c. \A w \in Updates : w # u => runner'[w] = runner[w] /\ release'[w] = release[w]
  BY <1>a
<1>0. status' \in Row /\ status'.update = status.update /\ status'.handoff = status.handoff
        /\ (status' = status \/ (Active /\ status.update = u /\ status'.phase = "failed"))
  <2>1. /\ Ended("failed", TRUE) \in Row /\ Ended("failed", TRUE).phase = "failed"
        /\ Ended("failed", TRUE).update = status.update
        /\ Ended("failed", TRUE).handoff = status.handoff
    BY FailedRow
  <2>2. status' = status \/ (Active /\ status.update = u /\ status' = Ended("failed", TRUE))
    OBVIOUS
  <2>3. QED
    BY <2>1, <2>2
<1>1. TypeOK'
  <2>1. runner' \in [Updates -> {"none", "running", "releasing", "over"}]
    OBVIOUS
  <2>2. release' \in [Threads -> [pc : {"idle", "wanted", "locked", "seen", "posting",
                                      "released", "refused"}, epoch : Nat]]
    <3>1. CASE UNCHANGED release
      BY <3>1
    <3>2. CASE release' = [release EXCEPT ![u].pc = "wanted"]
      <4>1. u \in Threads
        OBVIOUS
      <4>2. QED
        BY <3>2, <4>1
    <3>3. QED
      BY <1>a, <3>1, <3>2
  <2>3. QED
    BY <1>0, <2>1, <2>2
<1>2. Filed'
  BY <1>0 DEF Row, Filed
<1>3. RowCoherent'
  BY <1>0 DEF Row, RowCoherent
<1>4. Engaged'
  BY <1>0, <1>a, <1>b, <1>c DEF Row, Engaged, Filed
<1>5. Confirmed'
  BY <1>0, <1>b DEF Row, Confirmed, Of, Engaged, Filed
<1>6. AcknowledgedMeansReleased'
  BY <1>0 DEF Row, AcknowledgedMeansReleased, RowCoherent, Engaged, Filed, Confirmed, Of
<1>7. QED
  BY <1>1, <1>2, <1>3, <1>4, <1>5, <1>6

LEMMA InstallsKeeps == ASSUME IInv, NEW u \in Updates, Installs(u) PROVE IInv'
<1> USE HandoffAssumption DEF IInv, TypeOK, Threads, Installs, Active
<1>0. status' \in Row /\ status'.update = status.update /\ status'.handoff = status.handoff
        /\ status'.phase = "complete"
  BY EndedRow, ClearedRow, EndPhases
<1>1. TypeOK'
  <2>1. worker' \in [epoch : Nat \ {0}, lease : Updates \cup {Other, None}]
    OBVIOUS
  <2>2. runner' \in [Updates -> {"none", "running", "releasing", "over"}]
    OBVIOUS
  <2>3. QED
    BY <1>0, <2>1, <2>2
<1>2. Filed'
  BY <1>0 DEF Row, Filed
<1>3. RowCoherent'
  BY <1>0 DEF Row, RowCoherent
<1>4. Engaged'
  BY <1>0 DEF Row, Engaged, Filed
<1>5. Confirmed'
  BY <1>0 DEF Row, Confirmed, Of, Engaged, Filed
<1>6. AcknowledgedMeansReleased'
  BY <1>0 DEF Row, AcknowledgedMeansReleased, RowCoherent, Engaged, Filed, Confirmed, Of
<1>7. QED
  BY <1>1, <1>2, <1>3, <1>4, <1>5, <1>6

LEMMA RunnerClearsKeeps == ASSUME IInv, NEW u \in Updates, RunnerClears(u) PROVE IInv'
<1> USE HandoffAssumption DEF IInv, TypeOK, Threads, RunnerClears, OwnsFailed, Moved, Active
<1>0. status' \in Row /\ status'.update = status.update /\ status'.phase = status.phase
        /\ (status' = status \/ (OwnsFailed(u) /\ status'.handoff = None))
  <2>1. Cleared \in Row /\ Cleared.phase = status.phase /\ Cleared.update = status.update
        /\ Cleared.handoff = None
    BY ClearedRow
  <2>2. status' = status \/ (OwnsFailed(u) /\ status' = Cleared)
    OBVIOUS
  <2>3. QED
    BY <2>1, <2>2
<1>1. TypeOK'
  BY <1>0
<1>2. Filed'
  BY <1>0 DEF Row, Filed, Engaged
<1>3. RowCoherent'
  BY <1>0 DEF Row, RowCoherent
<1>4. Engaged'
  BY <1>0 DEF Row, Engaged, Filed
<1>5. Confirmed'
  BY <1>0 DEF Row, Confirmed, Of, Engaged, Filed
<1>6. AcknowledgedMeansReleased'
  BY <1>0 DEF Row, AcknowledgedMeansReleased, RowCoherent, Engaged, Filed, Confirmed, Of
<1>7. QED
  BY <1>1, <1>2, <1>3, <1>4, <1>5, <1>6

LEMMA RunnerGivesUpKeeps == ASSUME IInv, NEW u \in Updates, RunnerGivesUp(u) PROVE IInv'
<1> USE HandoffAssumption DEF IInv, TypeOK, Threads, RunnerGivesUp, OwnsFailed, Moved, Active
<1>0. status' \in Row /\ status'.update = status.update /\ status'.phase = status.phase
        /\ status'.handoff = status.handoff
  BY DEF Row
<1>1. TypeOK'
  BY <1>0
<1>2. Filed'
  BY <1>0 DEF Row, Filed, Engaged
<1>3. RowCoherent'
  BY <1>0 DEF Row, RowCoherent
<1>4. Engaged'
  BY <1>0 DEF Row, Engaged, Filed
<1>5. Confirmed'
  BY <1>0 DEF Row, Confirmed, Of, Engaged, Filed
<1>6. AcknowledgedMeansReleased'
  BY <1>0 DEF Row, AcknowledgedMeansReleased, RowCoherent, Engaged, Filed, Confirmed, Of
<1>7. QED
  BY <1>1, <1>2, <1>3, <1>4, <1>5, <1>6

LEMMA RunnerDiesKeeps == ASSUME IInv, NEW u \in Updates, RunnerDies(u) PROVE IInv'
<1> USE HandoffAssumption DEF IInv, TypeOK, Row, Phases, Threads, RunnerDies, Moved, Unlocked, Active
<1>1. TypeOK'
  OBVIOUS
<1>2. Filed'
  BY DEF Filed
<1>3. RowCoherent'
  BY DEF RowCoherent
<1>4. Engaged'
  BY DEF Engaged, Filed
<1>5. Confirmed'
  BY DEF Confirmed, Of, Engaged, Filed
<1>6. AcknowledgedMeansReleased'
  BY DEF AcknowledgedMeansReleased, RowCoherent, Engaged, Filed, Confirmed, Of
<1>7. QED
  BY <1>1, <1>2, <1>3, <1>4, <1>5, <1>6

LEMMA OtherAcquiresKeeps == ASSUME IInv, OtherAcquires PROVE IInv'
<1> USE HandoffAssumption DEF IInv, TypeOK, Row, Phases, Threads, OtherAcquires, Active
<1>1. TypeOK'
  OBVIOUS
<1>2. Filed'
  BY DEF Filed
<1>3. RowCoherent'
  BY DEF RowCoherent
<1>4. Engaged'
  BY DEF Engaged, Filed
<1>5. Confirmed'
  BY DEF Confirmed, Of, Engaged, Filed
<1>6. AcknowledgedMeansReleased'
  BY DEF AcknowledgedMeansReleased, RowCoherent, Engaged, Filed, Confirmed, Of
<1>7. QED
  BY <1>1, <1>2, <1>3, <1>4, <1>5, <1>6

LEMMA OtherReleasesKeeps == ASSUME IInv, OtherReleases PROVE IInv'
<1> USE HandoffAssumption DEF IInv, TypeOK, Row, Phases, Threads, OtherReleases, Active
<1>1. TypeOK'
  OBVIOUS
<1>2. Filed'
  BY DEF Filed
<1>3. RowCoherent'
  BY DEF RowCoherent
<1>4. Engaged'
  BY DEF Engaged, Filed
<1>5. Confirmed'
  BY DEF Confirmed, Of, Engaged, Filed
<1>6. AcknowledgedMeansReleased'
  BY DEF AcknowledgedMeansReleased, RowCoherent, Engaged, Filed, Confirmed, Of
<1>7. QED
  BY <1>1, <1>2, <1>3, <1>4, <1>5, <1>6

LEMMA RestartKeeps == ASSUME IInv, Restart PROVE IInv'
<1> USE HandoffAssumption DEF IInv, TypeOK, Row, Phases, Threads, Restart, NoRelease, Unlocked, Active
<1>1. TypeOK'
  OBVIOUS
<1>2. Filed'
  BY DEF Filed
<1>3. RowCoherent'
  BY DEF RowCoherent
<1>4. Engaged'
  BY DEF Engaged, Filed
<1>5. Confirmed'
  BY DEF Confirmed, Of, Engaged, Filed
<1>6. AcknowledgedMeansReleased'
  BY DEF AcknowledgedMeansReleased, RowCoherent, Engaged, Filed, Confirmed, Of
<1>7. QED
  BY <1>1, <1>2, <1>3, <1>4, <1>5, <1>6

-----------------------------------------------------------------------------

LEMMA InitInv == Init => IInv
BY HandoffAssumption
   DEF Init, IInv, TypeOK, Row, Phases, FreshStatus, NoRelease, Threads, Filed, RowCoherent,
       Active, Engaged, Confirmed, AcknowledgedMeansReleased

LEMMA NextKeeps == ASSUME IInv, [Next]_vars PROVE IInv'
<1>1. CASE UNCHANGED vars
  BY <1>1 DEF vars, IInv, TypeOK, Filed, RowCoherent, Active, Engaged, Confirmed, Of,
              AcknowledgedMeansReleased
<1>2. ASSUME NEW t \in Threads, Release(t) PROVE IInv'
  BY <1>2, LockKeeps, LookKeeps, ConfirmKeeps, PostKeeps, RefuseKeeps DEF Release
<1>3. CASE RetryStep
  <2>1. Retry \in Threads
    BY DEF Threads
  <2>2. QED
    BY <1>2, <1>3, <2>1, RetryClearsKeeps, RetryFailsKeeps DEF RetryStep
<1>4. ASSUME NEW u \in Updates, RunnerStep(u) PROVE IInv'
  <2>1. u \in Threads
    BY DEF Threads
  <2>2. QED
    BY <1>2, <1>4, <2>1, RunnerFailsKeeps, InstallsKeeps, RunnerClearsKeeps, RunnerGivesUpKeeps
       DEF RunnerStep
<1>5. CASE ServerStep
  BY <1>5, LaunchKeeps, LaunchFailsKeeps, LaunchUndoneKeeps DEF ServerStep
<1>6. QED
  BY <1>1, <1>3, <1>4, <1>5, PrepareKeeps, StartCurrentKeeps, EnsureReturnsKeeps, StartKeeps,
     FinalizeKeeps, EnsureRetryKeeps, RunnerDiesKeeps, OtherAcquiresKeeps, OtherReleasesKeeps,
     RestartKeeps
  DEF Next

\* Every value of the state stays in its type.
THEOREM TypeCorrect == Spec => []TypeOK
<1>1. IInv => TypeOK
  BY DEF IInv
<1>2. QED
  BY <1>1, InitInv, NextKeeps, PTL DEF Spec

\* Whatever restarts, dies, loses a reply or retries: a failed update whose row
\* names no handoff any more holds no lease of the worker.
THEOREM AcknowledgedReleased == Spec => []AcknowledgedMeansReleased
<1>1. IInv => AcknowledgedMeansReleased
  BY DEF IInv
<1>2. QED
  BY <1>1, InitInv, NextKeeps, PTL DEF Spec
=============================================================================
