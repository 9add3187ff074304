---------------------------- MODULE UpdateHandoff ----------------------------
(***************************************************************************)
(* The hold that a managed update keeps on its execution worker, from the  *)
(* acceptance of the update by the worker (agent_server.py) through the    *)
(* detached runner (update_runner.py) to the installer, and how it is      *)
(* released when the update fails before the installer takes over: by the  *)
(* runner, or, when that fails too, by a retry of the client               *)
(* (update_handoff.py).                                                    *)
(*                                                                         *)
(* The worker may restart at any point, which drops its lease and every    *)
(* request it is serving; the runner may die at any point.  What follows   *)
(* once the installer has a journal is ExecutionActivation.  The server is *)
(* not the host of a Team Hub, so there is no Hub fence to clear.          *)
(***************************************************************************)
EXTENDS Integers

CONSTANTS
  Updates,      \* update ids; each has one operation id and one lease
  Other,        \* an operation of another maintenance client
  Retry,        \* the thread that serves a client's retry
  MaxRestarts,  \* bound: restarts of the worker that no installer asked for
  MaxFaults,    \* bound: checks and requests that fail without a reason here
  None

ASSUME HandoffAssumption ==
  /\ MaxRestarts \in Nat /\ MaxFaults \in Nat
  /\ Other \notin Updates /\ Retry \notin Updates /\ None \notin Updates
  /\ Other # Retry /\ Other # None /\ Retry # None

VARIABLES
  worker,   \* its epoch (instance id), and whose sealed lease it holds
  file,     \* handoff-<update>.json: the epoch whose lease the update has
  status,   \* server-update.json
  server,   \* what the worker does under SERVER_UPDATE_OPERATION_LOCK
  runner,   \* the detached runner of each update
  release,  \* of each thread that releases a handoff: how far it is
  lock,     \* InstallationLock: the thread that holds it
  used      \* faults and restarts so far

vars == <<worker, file, status, server, runner, release, lock, used>>

Threads == Updates \cup {Retry}

NoRelease == [pc |-> "idle", epoch |-> 0]

\* A row that nobody owns.
FreshStatus(phase) ==
  [phase |-> phase, update |-> None, error |-> FALSE, handoff |-> None]

Init ==
  /\ worker = [epoch |-> 1, lease |-> None]
  /\ file = [u \in Updates |-> 0]
  /\ status = FreshStatus("available")
  /\ server = [pc |-> "idle", update |-> None, unchanged |-> TRUE]
  /\ runner = [u \in Updates |-> "none"]
  /\ release = [t \in Threads |-> NoRelease]
  /\ lock = None
  /\ used = [faults |-> 0, restarts |-> 0]

Active == status.phase = "starting"

Phases == {"available", "pending", "starting", "failed", "complete"}
Row == [phase : Phases, update : Updates \cup {None}, error : BOOLEAN,
        handoff : Updates \cup {None}]

\* The row when an update ends, and when its hold is known to be gone.
Ended(phase, error) == [status EXCEPT !.phase = phase, !.error = error]
Cleared == [status EXCEPT !.handoff = None, !.error = FALSE]

TypeOK ==
  /\ worker \in [epoch : Nat \ {0}, lease : Updates \cup {Other, None}]
  /\ file \in [Updates -> Nat]
  /\ status \in Row
  /\ server \in [pc : {"idle", "launching", "undoing", "retry", "cleared"},
                 update : Updates \cup {None}, unchanged : BOOLEAN]
  /\ runner \in [Updates -> {"none", "running", "releasing", "over"}]
  /\ release \in [Threads -> [pc : {"idle", "wanted", "locked", "seen", "posting",
                                   "released", "refused"}, epoch : Nat]]
  /\ lock \in Threads \cup {None}
  /\ used \in [faults : Nat, restarts : Nat]

\* used where the code fails for a reason that is left out
Fault ==
  /\ used.faults < MaxFaults
  /\ used' = [used EXCEPT !.faults = @ + 1]

-----------------------------------------------------------------------------
(* Acceptance of an update: _start_server_update                           *)

\* A scheduled update is prepared first; the row is a fresh one.
Prepare ==
  /\ server.pc \in {"idle", "cleared"}
  /\ ~Active /\ worker.lease = None /\ status.phase # "pending"
  /\ status' = FreshStatus("pending")
  /\ server' = [server EXCEPT !.pc = "idle"]
  /\ UNCHANGED <<worker, file, runner, release, lock, used>>

\* Under the admission locks: acquire and seal, the handoff file, and the
\* row that names it.
Start(u) ==
  /\ server.pc \in {"idle", "cleared"}
  /\ ~Active /\ worker.lease = None
  /\ file[u] = 0
  /\ worker' = [worker EXCEPT !.lease = u]
  /\ file' = [file EXCEPT ![u] = worker.epoch]
  /\ status' = [phase |-> "starting", update |-> u, error |-> FALSE, handoff |-> u]
  /\ server' = [server EXCEPT !.pc = "launching", !.update = u]
  /\ UNCHANGED <<runner, release, lock, used>>

\* A plain request for a release that is not newer than the installed one
\* writes a fresh row, whatever the old one names.
StartCurrent ==
  /\ server.pc \in {"idle", "cleared"}
  /\ ~Active
  /\ status' = FreshStatus("available")
  /\ server' = [server EXCEPT !.pc = "idle"]
  /\ UNCHANGED <<worker, file, runner, release, lock, used>>

\* An ensure call whose release is installed already ends after the retry.
EnsureReturns ==
  /\ server.pc = "cleared"
  /\ server' = [server EXCEPT !.pc = "idle"]
  /\ UNCHANGED <<worker, file, status, runner, release, lock, used>>

\* Providers are retired and the runner is started in tmux.
Launch ==
  /\ server.pc = "launching"
  /\ runner' = [runner EXCEPT ![server.update] = "running"]
  /\ server' = [server EXCEPT !.pc = "idle"]
  /\ UNCHANGED <<worker, file, status, release, lock, used>>

\* fail_runner_launch: the row first, as available, scheduled again or failed ...
LaunchFails ==
  /\ server.pc = "launching"
  /\ \/ \E phase \in {"available", "pending"} : status' = FreshStatus(phase)
     \/ status' = Ended("failed", FALSE)
  /\ server' = [server EXCEPT !.pc = "undoing"]
  /\ Fault
  /\ UNCHANGED <<worker, file, runner, release, lock>>

\* ... then the lease, directly: this is the worker that holds it.
LaunchUndone ==
  /\ server.pc = "undoing"
  /\ worker' = [worker EXCEPT !.lease = None]
  /\ server' = [server EXCEPT !.pc = "idle"]
  /\ UNCHANGED <<file, status, runner, release, lock, used>>

\* finalize_abandoned_server_update: the runner of an active row is gone.
Finalize ==
  /\ server.pc = "idle"
  /\ Active /\ runner[status.update] \in {"none", "over"}
  /\ status' = Ended("failed", status.handoff # None)
  /\ UNCHANGED <<worker, file, server, runner, release, lock, used>>

-----------------------------------------------------------------------------
(* The release of a hold: _release_handoff, run by the runner of a failed  *)
(* update and, on behalf of a client, by the worker itself                 *)

\* An ensure call finds a failed cleanup and frees the server's lock only
\* when its retry is over.
EnsureRetry ==
  /\ server.pc = "idle"
  /\ status.phase = "failed" /\ status.error
  /\ server' = [pc |-> "retry", update |-> status.update, unchanged |-> TRUE]
  /\ release' = [release EXCEPT ![Retry] = [pc |-> "wanted", epoch |-> 0]]
  /\ UNCHANGED <<worker, file, status, runner, lock, used>>

Of(t) == IF t = Retry THEN server.update ELSE t

\* verify_status: only a retry compares the row with the one it was given.
StatusKept(t) ==
  t = Retry => server.unchanged /\ status.handoff = Of(t)

\* _matching_status: still held, or, for a retry only, held by nobody.
Held(t) == worker.lease = Of(t) /\ worker.epoch = file[Of(t)]
Unheld(t) == t = Retry /\ worker.lease = None

Moved(t, pc) == release' = [release EXCEPT ![t].pc = pc]

Lock(t) ==
  /\ release[t].pc = "wanted" /\ lock = None
  /\ lock' = t
  /\ Moved(t, "locked")
  /\ UNCHANGED <<worker, file, status, server, runner, used>>

Look(t) ==
  /\ release[t].pc = "locked"
  /\ StatusKept(t) /\ (Held(t) \/ Unheld(t))
  /\ release' = [release EXCEPT ![t] = [pc |-> "seen", epoch |-> worker.epoch]]
  /\ UNCHANGED <<worker, file, status, server, runner, lock, used>>

\* The second reading, after the health request, decides.
Confirm(t) ==
  /\ release[t].pc = "seen" /\ worker.epoch = release[t].epoch
  /\ StatusKept(t)
  /\ \/ Unheld(t) /\ Moved(t, "released") /\ lock' = None
     \/ Held(t) /\ Moved(t, "posting") /\ UNCHANGED lock
  /\ UNCHANGED <<worker, file, status, server, runner, used>>

\* The worker compares epoch, operation and lease and drops the lease.
Post(t) ==
  /\ release[t].pc = "posting" /\ Held(t)
  /\ worker' = [worker EXCEPT !.lease = None]
  /\ \/ Moved(t, "released") /\ UNCHANGED used
     \/ Moved(t, "refused") /\ Fault                 \* the reply is lost
  /\ lock' = None
  /\ UNCHANGED <<file, status, server, runner>>

Failing(t) ==
  CASE release[t].pc = "wanted" -> lock # None
    [] release[t].pc = "locked" -> ~(StatusKept(t) /\ (Held(t) \/ Unheld(t)))
    [] release[t].pc = "seen" ->
         ~(worker.epoch = release[t].epoch /\ StatusKept(t) /\ (Held(t) \/ Unheld(t)))
    [] release[t].pc = "posting" -> ~Held(t)
    [] OTHER -> FALSE

Unlocked(t) == IF lock = t THEN None ELSE lock

\* Mutant: an uncertain result is taken for success.
RefuseSwallowed(t) ==
  /\ release[t].pc \in {"wanted", "locked", "seen", "posting"}
  /\ IF Failing(t) THEN UNCHANGED used ELSE Fault
  /\ Moved(t, "released")
  /\ lock' = Unlocked(t)
  /\ UNCHANGED <<worker, file, status, server, runner>>

\* Mutant: an exception leaves the installation lock taken.
RefuseKeepsLock(t) ==
  /\ release[t].pc \in {"wanted", "locked", "seen", "posting"}
  /\ IF Failing(t) THEN UNCHANGED used ELSE Fault
  /\ Moved(t, "refused")
  /\ UNCHANGED <<worker, file, status, server, runner, lock>>

\* A check or a request that fails, for a reason here or elsewhere.
Refuse(t) ==
  /\ release[t].pc \in {"wanted", "locked", "seen", "posting"}
  /\ IF Failing(t) THEN UNCHANGED used ELSE Fault
  /\ Moved(t, "refused")
  /\ lock' = Unlocked(t)
  /\ UNCHANGED <<worker, file, status, server, runner>>

\* The ensure call goes on only when the row is still the one it started from.
RetryClears ==
  /\ release[Retry].pc = "released"
  /\ IF server.unchanged
     THEN /\ status' = Cleared
          /\ server' = [server EXCEPT !.pc = "cleared"]
     ELSE server' = [server EXCEPT !.pc = "idle"] /\ UNCHANGED status
  /\ Moved(Retry, "idle")
  /\ UNCHANGED <<worker, file, runner, lock, used>>

RetryFails ==
  /\ release[Retry].pc = "refused"
  /\ server' = [server EXCEPT !.pc = "idle"]
  /\ Moved(Retry, "idle")
  /\ UNCHANGED <<worker, file, status, runner, lock, used>>

-----------------------------------------------------------------------------
(* The detached runner                                                     *)

\* The update fails before the installer has a journal: the row first.
RunnerFails(u) ==
  /\ runner[u] = "running"
  /\ IF status.update = u /\ Active
     THEN /\ status' = Ended("failed", TRUE)
          /\ runner' = [runner EXCEPT ![u] = "releasing"]
          /\ Moved(u, "wanted")
     ELSE runner' = [runner EXCEPT ![u] = "over"] /\ UNCHANGED <<status, release>>
  /\ UNCHANGED <<worker, file, server, lock, used>>

\* The installer takes over and succeeds: a new worker, with no lease.
Installs(u) ==
  /\ runner[u] = "running" /\ server.pc = "idle" /\ lock = None
  /\ status.update = u /\ Active
  /\ worker' = [epoch |-> worker.epoch + 1, lease |-> None]
  /\ status' = Ended("complete", FALSE)
  /\ runner' = [runner EXCEPT ![u] = "over"]
  /\ UNCHANGED <<file, server, release, lock, used>>

OwnsFailed(u) == status.update = u /\ status.phase = "failed"

RunnerClears(u) ==
  /\ release[u].pc = "released"
  /\ IF OwnsFailed(u)
     THEN /\ status' = Cleared
          /\ server' = [server EXCEPT !.unchanged = FALSE]
     ELSE UNCHANGED <<status, server>>
  /\ runner' = [runner EXCEPT ![u] = "over"]
  /\ Moved(u, "idle")
  /\ UNCHANGED <<worker, file, lock, used>>

RunnerGivesUp(u) ==
  /\ release[u].pc = "refused"
  /\ IF OwnsFailed(u)
     THEN /\ status' = [status EXCEPT !.error = TRUE]
          /\ server' = [server EXCEPT !.unchanged = FALSE]
     ELSE UNCHANGED <<status, server>>
  /\ runner' = [runner EXCEPT ![u] = "over"]
  /\ Moved(u, "idle")
  /\ UNCHANGED <<worker, file, lock, used>>

\* The kernel frees the lock of a runner that dies.
RunnerDies(u) ==
  /\ runner[u] \in {"running", "releasing"}
  /\ runner' = [runner EXCEPT ![u] = "over"]
  /\ Moved(u, "idle")
  /\ lock' = Unlocked(u)
  /\ UNCHANGED <<worker, file, status, server, used>>

-----------------------------------------------------------------------------
(* The worker's other client, and its restart                              *)

OtherAcquires ==
  /\ worker.lease = None /\ ~Active
  /\ worker' = [worker EXCEPT !.lease = Other]
  /\ UNCHANGED <<file, status, server, runner, release, lock, used>>

OtherReleases ==
  /\ worker.lease = Other
  /\ worker' = [worker EXCEPT !.lease = None]
  /\ UNCHANGED <<file, status, server, runner, release, lock, used>>

\* The lease file of another epoch is not taken over.
Restart ==
  /\ used.restarts < MaxRestarts
  /\ used' = [used EXCEPT !.restarts = @ + 1]
  /\ worker' = [epoch |-> worker.epoch + 1, lease |-> None]
  /\ server' = [server EXCEPT !.pc = "idle"]
  /\ release' = [release EXCEPT ![Retry] = NoRelease]
  /\ lock' = Unlocked(Retry)
  /\ UNCHANGED <<file, status, runner>>

-----------------------------------------------------------------------------

Release(t) == Lock(t) \/ Look(t) \/ Confirm(t) \/ Post(t) \/ Refuse(t)

RetryStep == Release(Retry) \/ RetryClears \/ RetryFails

RunnerStep(u) ==
  RunnerFails(u) \/ Installs(u) \/ Release(u) \/ RunnerClears(u) \/ RunnerGivesUp(u)

ServerStep == Launch \/ LaunchFails \/ LaunchUndone

Next ==
  \/ Prepare \/ StartCurrent \/ EnsureReturns
  \/ \E u \in Updates : Start(u)
  \/ ServerStep \/ Finalize \/ EnsureRetry \/ RetryStep
  \/ \E u \in Updates : RunnerStep(u) \/ RunnerDies(u)
  \/ OtherAcquires \/ OtherReleases \/ Restart

Spec == Init /\ [][Next]_vars

\* Requests and processes that run go on; a client polls the health route,
\* which finalizes, and repeats an ensure call that was answered with a 503.
FairSpec ==
  /\ Spec
  /\ WF_vars(ServerStep) /\ WF_vars(RetryStep)
  /\ \A u \in Updates : WF_vars(RunnerStep(u))
  /\ WF_vars(Finalize) /\ WF_vars(EnsureRetry) /\ WF_vars(OtherReleases)

-----------------------------------------------------------------------------
(* Properties                                                              *)

\* A failed update whose row no longer names a handoff holds nothing: the
\* name is dropped only on a proof that the lease is gone, so what the
\* clients are shown to be over never still blocks every turn (the order of
\* release and status in update_runner.py and agent_server.py).
AcknowledgedMeansReleased ==
  status.phase = "failed" /\ status.handoff = None
    => worker.lease # status.update

\* The worker still holds the lease of an update of which its status row
\* says nothing.  A launch that fails writes that row too, but lets go of the
\* lease before it returns.
Forgotten(u) ==
  worker.lease = u /\ status.update # u /\ server.pc # "undoing"

\* A hold is never stuck where clients can see it: whatever fails, restarts
\* or loses its reply, the worker lets go of it in the end, or else a plain
\* request for a release that is not newer has replaced the row that names
\* it (StartCurrent, agent_server.py:88403-88414), after which nothing in
\* the code releases it before the worker restarts.
HoldReleased ==
  \A u \in Updates : worker.lease = u ~> (worker.lease # u \/ Forgotten(u))
=============================================================================
