------------------------ MODULE ExecutionActivation ------------------------
(***************************************************************************)
(* Replacing the gateway or the execution worker of an installation:       *)
(* server/execution_manage.py (the controller, apply and recover),         *)
(* server/execution_install.py (the journal and the files),                *)
(* server/execution_maintenance.py (the worker's admission lease) and      *)
(* server/execution_service.py (the start of a worker).                    *)
(*                                                                         *)
(* Every durable write, every service command and every request to the     *)
(* worker is a step of its own.  Between any two of them the controller    *)
(* may be killed or see its step fail, worker and gateway may crash and be *)
(* restarted by the service manager, work may start and end, and another   *)
(* maintenance client may take the lease.  The installation lock admits    *)
(* one live controller, so one record holds its state.                     *)
(***************************************************************************)
EXTENDS Integers, FiniteSets

CONSTANTS
  Scopes,       \* the scopes that may be activated
  Installed,    \* whether release 0 is installed at first: TRUE, FALSE or either
  Activations,  \* bound: activations that are staged
  MaxFaults,    \* bound: kills and failed steps of the controller
  MaxCrashes,   \* bound: crashes of the worker and the gateway
  MaxJobs,      \* bound: times that work starts
  Others,       \* bound: leases other maintenance clients take
  None

ASSUME ActivationAssumption ==
  /\ Scopes \subseteq {"worker", "gateway", "migration"}
  /\ Installed \subseteq BOOLEAN
  /\ {Activations, MaxFaults, MaxCrashes, MaxJobs, Others} \subseteq Nat
  /\ None \notin Int

VARIABLES
  files,    \* the published configuration: both units, layout and current link
  loaded,   \* the units as the service manager last read them
  journal,  \* the activation journal, or None
  worker,   \* the worker process and its admission lease
  gateway,  \* the gateway process
  ctl,      \* the live controller
  used      \* how much of each bound is used up

vars == <<files, loaded, journal, worker, gateway, ctl, used>>

Releases == 0 .. Activations
Configured == Releases \cup {None}

\* The layout pins both releases; a generation is a consistent set of files.
Layouts == [worker : Releases, gateway : Releases]
Files == [worker : Configured, gateway : Configured, current : Configured, layout : Layouts \cup {None}]
Generation(w, g) == [worker |-> w, gateway |-> g, current |-> g, layout |-> [worker |-> w, gateway |-> g]]
NoFiles == [worker |-> None, gateway |-> None, current |-> None, layout |-> None]

Affected(scope) ==
  CASE scope = "gateway" -> {"gateway", "layout", "current"}
    [] scope = "worker" -> {"worker", "layout"}
    [] OTHER -> {"worker", "gateway", "layout", "current"}

\* The lease of a worker.  Activation n holds it as operation n, another client
\* as -1; an unsealed lease holds only while it is live.
Other == -1
Lease == [op : Releases \cup {Other, None}, sealed : BOOLEAN, live : BOOLEAN]
NoLease == [op |-> None, sealed |-> FALSE, live |-> FALSE]
StartupHold(op) == IF op = None THEN NoLease ELSE [op |-> op, sealed |-> TRUE, live |-> FALSE]
Held(l) == l.sealed \/ l.live
HeldBy(l, op) == Held(l) /\ l.op = op

\* "starting": the service manager will run it; "booting": a worker that has
\* read the journal and not yet taken its startup hold.
Workers == [state : {"stopped", "starting", "booting", "ready"}, epoch : Nat, release : Configured,
            hold : Releases \cup {None}, lease : Lease, busy : BOOLEAN]
Gateways == [state : {"stopped", "starting", "running"}, release : Configured]

NativelyUp(w) == w.state \in {"booting", "ready"}
\* Mutant: a worker that goes down leaves its work behind.
DownBusy(w, state) == [w EXCEPT !.state = state, !.hold = None, !.lease = NoLease]
Down(w, state) == [w EXCEPT !.state = state, !.hold = None, !.lease = NoLease, !.busy = FALSE]
Start(w) == IF w.state = "stopped" THEN Down(w, "starting") ELSE w

Prior == [worker : {"absent", "stopped", "running"}, pid : Nat, gateway : {"absent", "stopped", "running"}]

Journals == [id : Releases, scope : {"worker", "gateway", "migration"},
             phase : {"prepared", "publishing", "published", "committed", "rolling-back", "rolled-back"},
             before : Files, after : Files, prior : Prior]

Idle == [mode |-> "none", pc |-> "idle", scope |-> "worker", changed |-> FALSE,
         stopping |-> FALSE, pid |-> 0, prior |-> [worker |-> "absent", pid |-> 0, gateway |-> "absent"]]

PCs == {"idle", "stage", "prepare", "acquire", "seal", "observe", "check", "kill", "stopGateway",
        "publish", "write", "reload", "startWorker", "startGateway", "wait", "hold", "commit",
        "load", "rollback", "unwrite", "restoreWorker", "restoreGateway", "settle",
        "release", "finish"}

\* The value that stands for no layout and no journal is neither.
ASSUME NoneAssumption == None \notin Layouts \cup Journals

Controllers == [mode : {"none", "apply", "recover", "undo"}, pc : PCs,
                scope : {"worker", "gateway", "migration"}, changed : BOOLEAN,
                stopping : BOOLEAN, pid : Nat, prior : Prior]

TypeOK ==
  /\ files \in Files
  /\ loaded \in [worker : Configured, gateway : Configured]
  /\ journal \in Journals \cup {None}
  /\ ctl.pc \in {"idle", "stage"} \/ journal # None
  /\ worker \in Workers
  /\ worker.busy \/ worker.lease # NoLease => worker.state = "ready"
  /\ worker.hold # None => worker.state = "booting"
  /\ gateway \in Gateways
  /\ ctl \in Controllers
  /\ used \in [activations : 0 .. Activations, faults : 0 .. MaxFaults, crashes : 0 .. MaxCrashes,
               jobs : 0 .. MaxJobs, others : 0 .. Others]

Init ==
  /\ files \in {IF installed THEN Generation(0, 0) ELSE NoFiles : installed \in Installed}
  /\ loaded = [worker |-> files.worker, gateway |-> files.gateway]
  /\ journal = None
  /\ \E state \in {"ready", "stopped"} :
       /\ files = NoFiles => state = "stopped"
       /\ worker = [state |-> state, epoch |-> 0, release |-> files.worker,
                    hold |-> None, lease |-> NoLease, busy |-> FALSE]
  /\ \E state \in {"running", "stopped"} :
       /\ files = NoFiles => state = "stopped"
       /\ gateway = [state |-> state, release |-> files.gateway]
  /\ ctl = Idle
  /\ used = [activations |-> 0, faults |-> 0, crashes |-> 0, jobs |-> 0, others |-> 0]

-----------------------------------------------------------------------------
(* The controller                                                          *)

At(pc) == ctl.pc = pc
Goto(pc) == ctl' = [ctl EXCEPT !.pc = pc]
Scope == journal.scope
Phase == journal.phase

\* What an exception does: apply rolls back what it may, and runs recover if it
\* had begun to change services; a committed activation is left for recover.
Raised(changed) ==
  IF ctl.mode = "apply" /\ ~At("stage") /\ Phase # "committed"
  THEN [Idle EXCEPT !.mode = IF changed THEN "recover" ELSE "undo",
                    !.pc = IF changed THEN "load" ELSE "rollback"]
  ELSE Idle

\* NativeServices.snapshot refuses a service in transition, and a process whose
\* unit is gone.
SnapshotOK ==
  /\ worker.state # "starting" /\ gateway.state # "starting"
  /\ files.worker = None => worker.state = "stopped"
  /\ files.gateway = None => gateway.state = "stopped"

NativeState(up, unit) == IF up THEN "running" ELSE IF unit = None THEN "absent" ELSE "stopped"
Snapshot == [worker |-> NativeState(NativelyUp(worker), files.worker),
             pid |-> worker.epoch,
             gateway |-> NativeState(gateway.state = "running", files.gateway)]

\* Every request to the worker is preceded by such a snapshot.
Serves == worker.state = "ready" /\ SnapshotOK

\* Refuses, before anything is staged, a worker another operation holds.
Preflight(scope) ==
  /\ At("idle") /\ used.activations < Activations
  /\ SnapshotOK
  /\ Snapshot.worker = "running" =>
       Serves /\ (scope # "gateway" => ~Held(worker.lease))
  /\ ctl' = [Idle EXCEPT !.mode = "apply", !.pc = "stage", !.scope = scope, !.prior = Snapshot]
  /\ UNCHANGED <<files, loaded, journal, worker, gateway, used>>

NextFiles(scope, old, n) ==
  CASE scope = "gateway" -> Generation(old.layout.worker, n)
    [] scope = "worker" -> Generation(n, old.layout.gateway)
    [] OTHER -> Generation(n, n)

CanStage ==
  /\ journal = None
  /\ IF ctl.scope = "migration" THEN files.layout = None
     ELSE /\ files.layout # None
          /\ ctl.scope = "gateway" => files.worker = files.layout.worker
          /\ ctl.scope = "worker" => files.gateway = files.layout.gateway
  /\ files.worker = None => ctl.prior.worker = "absent"
  /\ files.gateway = None => ctl.prior.gateway = "absent"

Stage ==
  /\ At("stage") /\ CanStage
  /\ journal' = [id |-> used.activations + 1, scope |-> ctl.scope, phase |-> "prepared",
                 before |-> files, after |-> NextFiles(ctl.scope, files, used.activations + 1),
                 prior |-> ctl.prior]
  /\ used' = [used EXCEPT !.activations = @ + 1]
  /\ Goto("prepare")
  /\ UNCHANGED <<files, loaded, worker, gateway>>

StopGatewayFirst == Scope # "worker"
FirstStop == IF StopGatewayFirst THEN "stopGateway" ELSE "observe"

\* A running worker is sealed before any service is stopped.
Prepare ==
  /\ At("prepare")
  /\ IF Scope # "gateway" /\ journal.prior.worker = "running"
     THEN ctl' = [ctl EXCEPT !.pc = "acquire", !.pid = journal.prior.pid]
     ELSE Goto(FirstStop)
  /\ UNCHANGED <<files, loaded, journal, worker, gateway, used>>

\* Only the worker that the controller means is sealed.
Reachable == Serves /\ worker.epoch = ctl.pid

CanAcquire == /\ Reachable
              /\ HeldBy(worker.lease, journal.id) \/ (~Held(worker.lease) /\ ~worker.busy)

Acquire ==
  /\ At("acquire") /\ CanAcquire
  /\ worker' = IF Held(worker.lease) THEN worker
               ELSE [worker EXCEPT !.lease = [op |-> journal.id, sealed |-> FALSE, live |-> TRUE]]
  /\ Goto("seal")
  /\ UNCHANGED <<files, loaded, journal, gateway, used>>

CanSeal == Reachable /\ HeldBy(worker.lease, journal.id) /\ ~worker.busy

Seal ==
  /\ At("seal") /\ CanSeal
  /\ worker' = [worker EXCEPT !.lease = StartupHold(journal.id)]
  /\ Goto(IF ctl.stopping THEN "check" ELSE FirstStop)
  /\ UNCHANGED <<files, loaded, journal, gateway, used>>

AfterStops == IF ctl.mode = "apply" THEN "publish" ELSE "rollback"

\* apply stops the gateway first, recover the worker.
StopGateway ==
  /\ At("stopGateway")
  /\ gateway' = [gateway EXCEPT !.state = "stopped"]
  /\ ctl' = [ctl EXCEPT !.changed = TRUE,
               !.pc = IF ctl.mode = "apply" /\ Scope = "migration" THEN "observe" ELSE AfterStops]
  /\ UNCHANGED <<files, loaded, journal, worker, used>>

\* Mutant: the seal taken before the first stop is thought to last.
ObserveUnsealed ==
  /\ At("observe") /\ SnapshotOK
  /\ ctl' = [ctl EXCEPT !.pc = "kill", !.changed = TRUE]
  /\ UNCHANGED <<files, loaded, journal, worker, gateway, used>>

\* _stop_worker: a running worker is sealed, again if need be.
Observe ==
  /\ At("observe") /\ SnapshotOK
  /\ ctl' = IF NativelyUp(worker)
            THEN [ctl EXCEPT !.pc = "acquire", !.changed = TRUE, !.stopping = TRUE, !.pid = worker.epoch]
            ELSE [ctl EXCEPT !.pc = "kill", !.changed = TRUE]
  /\ UNCHANGED <<files, loaded, journal, worker, gateway, used>>

CanCheck == SnapshotOK /\ NativelyUp(worker) /\ worker.epoch = ctl.pid

Check ==
  /\ At("check") /\ CanCheck
  /\ Goto("kill")
  /\ UNCHANGED <<files, loaded, journal, worker, gateway, used>>

\* NativeServices.stop: whatever worker runs by now.
Kill ==
  /\ At("kill")
  /\ worker' = Down(worker, "stopped")
  /\ ctl' = [ctl EXCEPT !.stopping = FALSE,
               !.pc = IF ctl.mode = "recover" /\ Scope = "migration" THEN "stopGateway" ELSE AfterStops]
  /\ UNCHANGED <<files, loaded, journal, gateway, used>>

-----------------------------------------------------------------------------
(* Publication and rollback: one durable write at a time                   *)

SetPhase(phase) == journal' = [journal EXCEPT !.phase = phase]

Publish ==
  /\ At("publish")
  /\ SetPhase("publishing") /\ Goto("write")
  /\ UNCHANGED <<files, loaded, worker, gateway, used>>

\* The order of the files is not relied upon.
Unequal(side) == {k \in Affected(Scope) : files[k] # side[k]}
WriteOne(side) == \E k \in Unequal(side) : files' = [files EXCEPT ![k] = side[k]]

Write ==
  /\ At("write")
  /\ \/ WriteOne(journal.after) /\ UNCHANGED <<journal, ctl>>
     \/ /\ Unequal(journal.after) = {}
        /\ SetPhase("published") /\ Goto("reload") /\ UNCHANGED files
  /\ UNCHANGED <<loaded, worker, gateway, used>>

Rollback ==
  /\ At("rollback") /\ Phase # "committed"
  /\ SetPhase("rolling-back") /\ Goto("unwrite")
  /\ UNCHANGED <<files, loaded, worker, gateway, used>>

OwnsHold == Scope # "gateway" /\ journal.prior.worker = "running"

\* Mutant: rollback forgets the current link.
UnwriteKeepingLink ==
  /\ At("unwrite")
  /\ \/ \E k \in Unequal(journal.before) \ {"current"} : files' = [files EXCEPT ![k] = journal.before[k]]
        /\ UNCHANGED <<journal, ctl>>
     \/ /\ Unequal(journal.before) \subseteq {"current"}
        /\ SetPhase("rolled-back") /\ UNCHANGED files
        /\ Goto(IF ctl.mode = "recover" THEN "reload" ELSE IF OwnsHold THEN "release" ELSE "finish")
  /\ UNCHANGED <<loaded, worker, gateway, used>>

Unwrite ==
  /\ At("unwrite")
  /\ \/ WriteOne(journal.before) /\ UNCHANGED <<journal, ctl>>
     \/ /\ Unequal(journal.before) = {}
        /\ SetPhase("rolled-back") /\ UNCHANGED files
        /\ Goto(IF ctl.mode = "recover" THEN "reload" ELSE IF OwnsHold THEN "release" ELSE "finish")
  /\ UNCHANGED <<loaded, worker, gateway, used>>

-----------------------------------------------------------------------------
(* Starting the new, or restoring the old, services                        *)

Reload ==
  /\ At("reload")
  /\ loaded' = [worker |-> files.worker, gateway |-> files.gateway]
  /\ Goto(IF ctl.mode = "apply"
          THEN IF Scope = "gateway" THEN "startGateway" ELSE "startWorker"
          ELSE IF Scope = "gateway" THEN "restoreGateway" ELSE "restoreWorker")
  /\ UNCHANGED <<files, journal, worker, gateway, used>>

StartGatewayJob == IF gateway.state = "stopped" THEN [gateway EXCEPT !.state = "starting"] ELSE gateway

StartWorker ==
  /\ At("startWorker") /\ loaded.worker # None
  /\ worker' = Start(worker)
  /\ Goto(IF Scope = "migration" THEN "startGateway" ELSE "wait")
  /\ UNCHANGED <<files, loaded, journal, gateway, used>>

StartGateway ==
  /\ At("startGateway")
  /\ gateway' = StartGatewayJob
  /\ Goto("wait")
  /\ UNCHANGED <<files, loaded, journal, worker, used>>

\* Only what ran before is started again.
RestoreWorker ==
  /\ At("restoreWorker") /\ SnapshotOK
  /\ worker' = IF journal.prior.worker = "running" THEN Start(worker) ELSE worker
  /\ Goto(IF Scope = "migration" THEN "restoreGateway" ELSE "settle")
  /\ UNCHANGED <<files, loaded, journal, gateway, used>>

RestoreGateway ==
  /\ At("restoreGateway") /\ SnapshotOK
  /\ gateway' = IF journal.prior.gateway = "running" THEN StartGatewayJob ELSE gateway
  /\ Goto("settle")
  /\ UNCHANGED <<files, loaded, journal, worker, used>>

\* Mutant: a rollback retires its journal without releasing the hold.
AfterRestoreHeld == "finish"
AfterRestore == IF OwnsHold THEN "release" ELSE "finish"
BothRan == journal.prior.worker = "running" /\ journal.prior.gateway = "running"

Settle ==
  /\ At("settle")
  /\ journal.before.layout = None => journal.prior.worker # "running"
  /\ Goto(IF journal.before.layout # None /\ BothRan THEN "wait" ELSE AfterRestore)
  /\ UNCHANGED <<files, loaded, journal, worker, gateway, used>>

\* _wait_receipt: both components serve the releases of the layout.
Expected == IF Phase = "rolled-back" THEN journal.before.layout ELSE journal.after.layout
Healthy ==
  /\ worker.state = "ready" /\ worker.release = Expected.worker
  /\ gateway.state = "running" /\ gateway.release = Expected.gateway

\* A gateway activation must have kept the exact worker process.
Retained ==
  Scope = "gateway" /\ journal.prior.worker = "running" /\ Phase # "rolled-back" =>
    worker.epoch = journal.prior.pid

Receipt ==
  /\ At("wait") /\ Healthy /\ Retained
  /\ Goto(CASE Phase = "published" -> IF Scope = "gateway" THEN "commit" ELSE "hold"
            [] Phase = "committed" -> IF Scope = "gateway" THEN "finish" ELSE "release"
            [] OTHER -> AfterRestore)
  /\ UNCHANGED <<files, loaded, journal, worker, gateway, used>>

\* require_startup_hold
CanHold == Serves /\ ~worker.busy /\ worker.lease.sealed /\ worker.lease.op = journal.id

Hold ==
  /\ At("hold") /\ CanHold
  /\ Goto("commit")
  /\ UNCHANGED <<files, loaded, journal, worker, gateway, used>>

CanCommit == Phase = "published" /\ files = journal.after

Commit ==
  /\ At("commit") /\ CanCommit
  /\ SetPhase("committed")
  /\ Goto(IF Scope = "gateway" THEN "finish" ELSE "release")
  /\ UNCHANGED <<files, loaded, worker, gateway, used>>

-----------------------------------------------------------------------------
(* Finishing and recovering                                                *)

\* Mutant: a hold that was released before is missed.
CanReleaseHeld == Serves /\ HeldBy(worker.lease, journal.id)

\* Only the hold of this activation is released; apply and recover refuse
\* another operation's hold, the undo of an unchanged activation ignores it.
CanRelease ==
  /\ Serves
  /\ ctl.mode = "undo" \/ ~Held(worker.lease) \/ worker.lease.op = journal.id

\* Mutant: whatever hold there is is released.
ReleaseAny ==
  /\ At("release") /\ CanRelease
  /\ worker' = [worker EXCEPT !.lease = NoLease]
  /\ Goto("finish")
  /\ UNCHANGED <<files, loaded, journal, gateway, used>>

Release ==
  /\ At("release") /\ CanRelease
  /\ worker' = IF HeldBy(worker.lease, journal.id) THEN [worker EXCEPT !.lease = NoLease] ELSE worker
  /\ Goto("finish")
  /\ UNCHANGED <<files, loaded, journal, gateway, used>>

CanFinish == /\ Phase \in {"committed", "rolled-back"}
             /\ files = IF Phase = "committed" THEN journal.after ELSE journal.before

Finish ==
  /\ At("finish") /\ CanFinish
  /\ journal' = None
  /\ ctl' = Idle
  /\ UNCHANGED <<files, loaded, worker, gateway, used>>

\* A new controller takes up whatever journal it finds.
Recover ==
  /\ At("idle") /\ journal # None
  /\ ctl' = [Idle EXCEPT !.mode = "recover", !.pc = "load"]
  /\ UNCHANGED <<files, loaded, journal, worker, gateway, used>>

\* Mutant: a rolled-back activation is taken for one whose services are back.
LoadRestored ==
  /\ At("load")
  /\ Goto(CASE Phase = "committed" -> "wait"
            [] Phase = "rolled-back" -> AfterRestore
            [] OTHER -> IF Scope = "gateway" THEN "stopGateway" ELSE "observe")
  /\ UNCHANGED <<files, loaded, journal, worker, gateway, used>>

Load ==
  /\ At("load")
  /\ Goto(CASE Phase = "committed" -> "wait"
            [] Phase = "rolled-back" -> "reload"
            [] OTHER -> IF Scope = "gateway" THEN "stopGateway" ELSE "observe")
  /\ UNCHANGED <<files, loaded, journal, worker, gateway, used>>

\* A step whose condition does not hold, or a wait that times out, raises.
Blocked ==
  \/ At("stage") /\ ~CanStage
  \/ At("acquire") /\ ~CanAcquire
  \/ At("seal") /\ ~CanSeal
  \/ At("check") /\ ~CanCheck
  \/ ctl.pc \in {"observe", "restoreWorker", "restoreGateway"} /\ ~SnapshotOK
  \/ At("settle") /\ journal.before.layout = None /\ journal.prior.worker = "running"
  \/ At("wait") /\ ~(Healthy /\ Retained)
  \/ At("hold") /\ ~CanHold
  \/ At("commit") /\ ~CanCommit
  \/ At("release") /\ ~CanRelease
  \/ At("finish") /\ ~CanFinish

ChangesServices == ctl.changed \/ ctl.pc \in {"stopGateway", "observe"}

Refuse ==
  /\ Blocked
  /\ ctl' = Raised(ChangesServices)
  /\ UNCHANGED <<files, loaded, journal, worker, gateway, used>>

-----------------------------------------------------------------------------
(* Faults                                                                  *)

Fault == used.faults < MaxFaults /\ used' = [used EXCEPT !.faults = @ + 1]
Crash == used.crashes < MaxCrashes /\ used' = [used EXCEPT !.crashes = @ + 1]

\* A write, a service command or a request that raises.
Fail ==
  /\ ~At("idle") /\ Fault
  /\ ctl' = Raised(ChangesServices)
  /\ UNCHANGED <<files, loaded, journal, worker, gateway>>

KillController ==
  /\ ~At("idle") /\ Fault
  /\ ctl' = Idle
  /\ UNCHANGED <<files, loaded, journal, worker, gateway>>

\* Restart=always: the service manager runs a crashed service again.
WorkerCrash ==
  /\ NativelyUp(worker) /\ Crash
  /\ worker' = Down(worker, "starting")
  /\ UNCHANGED <<files, loaded, journal, gateway, ctl>>

GatewayCrash ==
  /\ gateway.state = "running" /\ Crash
  /\ gateway' = [gateway EXCEPT !.state = "starting"]
  /\ UNCHANGED <<files, loaded, journal, worker, ctl>>

-----------------------------------------------------------------------------
(* The service manager and the processes it starts                         *)

\* Mutant: a worker that starts does not look for a pending activation.
NoOperation == None

\* pending_worker_operation: a worker of either generation starts held.
PendingOperation == IF journal # None /\ Scope # "gateway" THEN journal.id ELSE None
Generations == {side.layout.worker : side \in {s \in {journal.before, journal.after} : s.layout # None}}

WorkerExec ==
  /\ worker.state = "starting" /\ loaded.worker # None
  /\ PendingOperation # None => loaded.worker \in Generations
  /\ worker' = [worker EXCEPT !.state = "booting", !.epoch = @ + 1, !.release = loaded.worker,
                              !.hold = PendingOperation]
  /\ UNCHANGED <<files, loaded, journal, gateway, ctl, used>>

WorkerReady ==
  /\ worker.state = "booting"
  /\ worker' = [worker EXCEPT !.state = "ready", !.hold = None, !.lease = StartupHold(worker.hold)]
  /\ UNCHANGED <<files, loaded, journal, gateway, ctl, used>>

\* Wants= in the gateway's unit starts a worker that is stopped.
GatewayUp ==
  /\ gateway.state = "starting" /\ loaded.gateway # None
  /\ gateway' = [state |-> "running", release |-> loaded.gateway]
  /\ worker' = IF loaded.worker # None THEN Start(worker) ELSE worker
  /\ UNCHANGED <<files, loaded, journal, ctl, used>>

-----------------------------------------------------------------------------
(* The worker's work and other maintenance clients                         *)

Admits == worker.state = "ready" /\ ~Held(worker.lease)

StartWork ==
  /\ Admits /\ ~worker.busy /\ used.jobs < MaxJobs
  /\ worker' = [worker EXCEPT !.busy = TRUE]
  /\ used' = [used EXCEPT !.jobs = @ + 1]
  /\ UNCHANGED <<files, loaded, journal, gateway, ctl>>

EndWork ==
  /\ worker.busy
  /\ worker' = [worker EXCEPT !.busy = FALSE]
  /\ UNCHANGED <<files, loaded, journal, gateway, ctl, used>>

OtherAcquire ==
  /\ Admits /\ ~worker.busy /\ used.others < Others
  /\ worker' = [worker EXCEPT !.lease = [op |-> Other, sealed |-> FALSE, live |-> TRUE]]
  /\ used' = [used EXCEPT !.others = @ + 1]
  /\ UNCHANGED <<files, loaded, journal, gateway, ctl>>

OtherSeal ==
  /\ worker.state = "ready" /\ HeldBy(worker.lease, Other) /\ ~worker.lease.sealed /\ ~worker.busy
  /\ worker' = [worker EXCEPT !.lease = StartupHold(Other)]
  /\ UNCHANGED <<files, loaded, journal, gateway, ctl, used>>

OtherRelease ==
  /\ worker.state = "ready" /\ worker.lease.op = Other
  /\ worker' = [worker EXCEPT !.lease = NoLease]
  /\ UNCHANGED <<files, loaded, journal, gateway, ctl, used>>

\* An unsealed lease runs out.
Expire ==
  /\ worker.lease.live
  /\ worker' = [worker EXCEPT !.lease.live = FALSE]
  /\ UNCHANGED <<files, loaded, journal, gateway, ctl, used>>

-----------------------------------------------------------------------------

Controller ==
  \/ Stage \/ Prepare \/ Acquire \/ Seal \/ StopGateway \/ Observe \/ Check \/ Kill
  \/ Publish \/ Write \/ Rollback \/ Unwrite \/ Reload
  \/ StartWorker \/ StartGateway \/ RestoreWorker \/ RestoreGateway \/ Settle
  \/ Receipt \/ Hold \/ Commit \/ Release \/ Finish \/ Recover \/ Load

Services == WorkerExec \/ WorkerReady \/ GatewayUp

Next ==
  \/ \E scope \in Scopes : Preflight(scope)
  \/ Controller \/ Refuse
  \/ Fail \/ KillController \/ WorkerCrash \/ GatewayCrash
  \/ Services
  \/ StartWork \/ EndWork \/ OtherAcquire \/ OtherSeal \/ OtherRelease \/ Expire

Spec == Init /\ [][Next]_vars

\* A controller goes on while it lives; whoever finds an activation pending runs
\* recover again and again (a command: no code schedules it); a lease outlives
\* the request that follows it, 30 seconds at least; services that were told to
\* start come up, work ends and another client lets go in the end.
Fairness ==
  /\ WF_vars(Controller)
  /\ WF_vars(Refuse)
  /\ SF_vars(Recover)
  /\ SF_vars(Seal)
  /\ WF_vars(Services)
  /\ WF_vars(EndWork)
  /\ WF_vars(OtherRelease)

LiveSpec == Spec /\ Fairness

-----------------------------------------------------------------------------
(* Properties                                                              *)

\* What is installed for good: the previous pair until the commit.
InstalledPair == IF journal # None /\ Phase # "committed" THEN journal.before.layout ELSE files.layout

Promise == INSTANCE InstalledRelease
             WITH installed <- InstalledPair, work <- IF worker.busy THEN worker.release ELSE None

\* Through every interleaving of activations, recoveries, crashes and work: the
\* installed pair changes once, at the commit, to a pair with a newer release and
\* never back, while no work runs if the worker is replaced; work runs on the
\* installed worker only, never on a candidate (the commit boundary of
\* execution_manage.py:517 and the startup hold of execution_service.py:296).
ImplementsInstalledRelease == Promise!Spec

\* No stop reaches a worker that runs work, whichever worker the service manager
\* runs by the time the command arrives (seal_for_stop and _stop_worker).
OnlyIdleStopped == At("kill") => ~worker.busy

\* Between activations, and once one has been committed or rolled back, both
\* units, the layout and the current link belong to one generation (publish,
\* rollback and _affected of execution_install.py).
OneGeneration ==
  journal = None \/ Phase \in {"prepared", "committed", "rolled-back"} =>
    files = NoFiles \/ \E w, g \in Releases : files = Generation(w, g)

\* A step of the controller leaves the hold of another client on the worker
\* alone: it neither releases it nor stops its worker (seal_for_stop, release).
OthersHoldKept == [][ctl' # ctl /\ HeldBy(worker.lease, Other) => worker' = worker]_vars

\* When the journal is retired, each service that ran before the activation, or
\* that a committed activation started, runs or is about to (restore, commit).
NotLeftStopped ==
  [][journal # None /\ journal' = None =>
       /\ journal.prior.worker = "running" => worker.state # "stopped"
       /\ journal.prior.gateway = "running" => gateway.state # "stopped"
       /\ Phase = "committed" => worker.state # "stopped" /\ gateway.state # "stopped"]_vars

\* The dead ends of recover, which only a service that crashed can lead to: a
\* committed gateway activation finds that its worker is another process (550); a
\* rolled-back activation finds that the service manager started the candidate
\* before it read the old unit again, and leaves what runs alone (565); a snapshot
\* finds a worker whose unit the rollback has removed (186-188).
WorkerReplaced == Phase = "committed" /\ Scope = "gateway" /\ ~Retained
CandidateRuns ==
  /\ Phase = "rolled-back" /\ Scope # "gateway"
  /\ NativelyUp(worker) /\ worker.release = journal.after.worker
Orphaned == files.worker = None /\ worker.state # "stopped"
DeadEnd == journal # None /\ used.crashes > 0 /\ (WorkerReplaced \/ CandidateRuns \/ Orphaned)

\* Every activation that was staged is retired in the end, committed or rolled
\* back, so that the next one can be staged (recover can be retried); what keeps
\* one pending for good is one of the dead ends above, and nothing else, through
\* kills and failed steps of the controller and crashes of the services.
PendingSettles == journal # None ~> (journal = None \/ []DeadEnd)
=============================================================================
