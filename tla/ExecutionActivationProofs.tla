---------------------- MODULE ExecutionActivationProofs ----------------------
(* Proofs about ExecutionActivation, for any number of activations, faults, *)
(* crashes, jobs and other clients.                                         *)
EXTENDS ActivationHistory, TLAPS

-----------------------------------------------------------------------------
(* The invariant                                                            *)

Units(f) == [worker |-> f.worker, gateway |-> f.gateway]

\* A set of files that belongs together, of releases no newer than n.
Settled(f, n) == f = NoFiles \/ \E w, g \in 0 .. n : f = Generation(w, g)

\* The journal of an activation leads from one such set to the next one.
Planned ==
  /\ At("stage") => used.activations < Activations
  /\ journal # None =>
       /\ journal.id = used.activations /\ journal.id > 0
       /\ journal.after = NextFiles(Scope, journal.before, journal.id)
       /\ Scope = "migration" =>
            /\ journal.before = NoFiles
            /\ journal.prior.worker # "running" /\ journal.prior.gateway # "running"
       /\ Scope # "migration" => \E w, g \in 0 .. (journal.id - 1) : journal.before = Generation(w, g)

\* Every file is that of one of the two generations, and where the phase says
\* which, all are.
Published ==
  /\ journal = None => Settled(files, used.activations)
  /\ journal # None =>
       /\ \A k \in {"worker", "gateway", "current", "layout"} :
            /\ files[k] \in {journal.before[k], journal.after[k]}
            /\ k \notin Affected(Scope) => files[k] = journal.before[k]
       /\ Phase \in {"prepared", "rolled-back"} => files = journal.before
       /\ Phase \in {"published", "committed"} => files = journal.after

\* Which phase, mode and scope the controller is at each of its steps in.
Stopping == {"acquire", "seal", "observe", "check", "kill", "stopGateway"}
Untouched == ctl.mode = "undo" \/ (ctl.mode = "apply" /\ ~ctl.changed)

Applying ==
  ctl.mode = "apply" /\ ~At("stage") =>
    /\ ctl.pc \in Stopping \cup {"prepare", "publish"} => Phase = "prepared"
    /\ At("write") => Phase = "publishing"
    /\ ctl.pc \in {"reload", "startWorker", "startGateway", "wait", "hold", "commit"} => Phase = "published"
    /\ ctl.pc \in {"release", "finish"} => Phase = "committed"
    /\ ctl.pc \notin {"load", "rollback", "unwrite", "restoreWorker", "restoreGateway", "settle"}
    /\ ~ctl.changed => ctl.pc \in {"prepare", "acquire", "seal", "observe", "stopGateway"}
    /\ At("prepare") => ~ctl.changed

Recovering ==
  ctl.mode = "recover" =>
    /\ ctl.pc \notin {"prepare", "publish", "write", "startWorker", "startGateway", "hold", "commit"}
    /\ ctl.pc \in Stopping \cup {"rollback"} => Phase \notin {"committed", "rolled-back"}
    /\ ctl.pc \in {"reload", "restoreWorker", "restoreGateway", "settle"} => Phase = "rolled-back"
    /\ ctl.pc \in {"wait", "release", "finish"} => Phase \in {"committed", "rolled-back"}
    /\ ctl.pc \in {"acquire", "seal"} => ctl.stopping

Undoing ==
  ctl.mode = "undo" =>
    /\ ctl.pc \in {"rollback", "unwrite", "release", "finish"}
    /\ At("rollback") => Phase = "prepared"
    /\ ctl.pc \in {"release", "finish"} => Phase = "rolled-back"

Course ==
  /\ ctl.mode = "none" <=> At("idle")
  /\ ctl.stopping => ctl.changed
  /\ At("stage") => ctl.mode = "apply" /\ ~ctl.changed
  /\ Applying /\ Recovering /\ Undoing
  /\ At("unwrite") => Phase = "rolling-back"
  /\ ctl.pc \in {"acquire", "seal", "observe", "check", "kill", "startWorker", "restoreWorker", "hold", "release"} =>
       Scope # "gateway"
  /\ ctl.pc \in {"stopGateway", "startGateway", "restoreGateway"} => Scope # "worker"
  /\ ctl.pc \in {"acquire", "seal"} /\ Scope = "migration" => ctl.stopping
  /\ At("release") => Scope = "worker" \/ Phase = "committed"

\* What the service manager will start.
Loaded ==
  /\ journal = None => loaded = Units(files)
  /\ journal # None =>
       /\ loaded \in {Units(journal.before), Units(journal.after)}
       /\ Phase \in {"prepared", "publishing"} \/ ctl.mode = "undo" => loaded = Units(journal.before)
       /\ ctl.pc \in {"restoreWorker", "restoreGateway", "settle", "wait", "release", "finish"} /\ Phase = "rolled-back" =>
            loaded = Units(journal.before)
       /\ (ctl.pc \in {"startWorker", "startGateway", "wait", "hold", "commit"} /\ Phase = "published")
            \/ Phase = "committed" => loaded = Units(journal.after)

\* A worker that the lease of an activation does not stop runs the installed release.
Serving == InstalledPair # None /\ worker.release = InstalledPair.worker

Admitted ==
  /\ worker.lease.sealed => ~worker.busy
  /\ worker.state = "ready" /\ (~worker.lease.sealed \/ worker.lease.op = Other) => Serving
  /\ worker.state = "booting" /\ worker.hold = None => Serving

\* Once it was sealed for a stop, a worker and whatever replaces it stay held.
Sealed ==
  ctl.pc \in {"check", "kill"} =>
    /\ worker.state = "ready" => worker.lease = StartupHold(journal.id)
    /\ worker.state = "booting" => worker.hold = journal.id

\* Which release a worker runs that the controller is about to let go.
OldWorker == NativelyUp(worker) => worker.release = journal.before.worker
NewWorker == NativelyUp(worker) => worker.release = journal.after.worker
Alone == Scope = "worker" /\ journal.prior.worker = "running" /\ journal.prior.gateway # "running"
Ending == Phase = "committed" \/ ctl.pc \in {"hold", "commit"}
Restored == Phase = "rolled-back" /\ ctl.pc \in {"settle", "wait", "release", "finish"}

Replaced ==
  /\ journal = None /\ At("stage") /\ ctl.scope = "worker" /\ ctl.prior.worker = "running" =>
       (NativelyUp(worker) => worker.release = files.worker)
  /\ journal # None =>
       /\ Scope # "gateway" /\ Ending => NewWorker
       /\ At("release") /\ Phase = "rolled-back" => OldWorker
       /\ Untouched /\ ~At("stage") /\ Scope = "worker" /\ journal.prior.worker = "running" => OldWorker
       /\ Alone /\ Phase \in {"rolling-back", "rolled-back"} =>
            OldWorker /\ (worker.state # "stopped" => loaded.worker = journal.before.worker)
       /\ Alone /\ At("rollback") /\ ctl.mode = "recover" => worker.state = "stopped"

\* A service is down only while the activation has it down.
GatewayKept ==
  /\ At("stage") => (ctl.prior.gateway = "running" <=> gateway.state # "stopped")
  /\ journal # None =>
       /\ Scope = "worker" => (journal.prior.gateway = "running" <=> gateway.state # "stopped")
       /\ ~At("stage") /\ Untouched /\ journal.prior.gateway = "running" => gateway.state # "stopped"
       /\ Restored /\ journal.prior.gateway = "running" => gateway.state # "stopped"
       /\ Ending => gateway.state # "stopped"

WorkerKept ==
  /\ At("stage") /\ ctl.prior.worker = "running" => worker.state # "stopped"
  /\ journal # None =>
       /\ Scope = "gateway" /\ journal.prior.worker = "running" => worker.state # "stopped"
       /\ ~At("stage") /\ Untouched /\ journal.prior.worker = "running" => worker.state # "stopped"
       /\ Restored /\ journal.prior.worker = "running" => worker.state # "stopped"
       /\ Ending => worker.state # "stopped"

IInv ==
  /\ TypeOK /\ Planned /\ Published /\ Course /\ Loaded
  /\ Admitted /\ Sealed /\ Replaced /\ GatewayKept /\ WorkerKept

-----------------------------------------------------------------------------
(* The values                                                               *)

LEMMA Bounds ==
  /\ Activations \in Nat /\ MaxFaults \in Nat /\ MaxCrashes \in Nat /\ MaxJobs \in Nat /\ Others \in Nat
  /\ None \notin Int /\ None \notin Layouts /\ None \notin Journals
  /\ Scopes \subseteq {"worker", "gateway", "migration"}
  BY ActivationAssumption, NoneAssumption DEF ActivationAssumption, NoneAssumption

LEMMA GenerationIs ==
  ASSUME NEW w \in Releases, NEW g \in Releases
  PROVE  /\ Generation(w, g) \in Files /\ Generation(w, g).layout \in Layouts
         /\ Generation(w, g).worker = w /\ Generation(w, g).gateway = g
         /\ Generation(w, g).layout.worker = w /\ Generation(w, g).layout.gateway = g
  BY DEF Generation, Files, Layouts, Configured

LEMMA JournalIs ==
  ASSUME TypeOK, journal # None
  PROVE  /\ journal \in Journals /\ journal.id \in Releases /\ journal.id \in Int
         /\ journal.scope \in {"worker", "gateway", "migration"}
         /\ journal.before \in Files /\ journal.after \in Files /\ journal.prior \in Prior
  BY Bounds DEF TypeOK, Journals, Releases

\* A step of the controller that only moves on.
LEMMA Moves ==
  ASSUME NEW c \in Controllers, NEW d, NEW pc \in PCs, d = [c EXCEPT !.pc = pc]
  PROVE  /\ d \in Controllers /\ d.pc = pc /\ d.mode = c.mode /\ d.scope = c.scope
         /\ d.changed = c.changed /\ d.stopping = c.stopping /\ d.pid = c.pid /\ d.prior = c.prior
  BY DEF Controllers

LEMMA Phases ==
  ASSUME NEW j \in Journals, NEW k,
         NEW phase \in {"prepared", "publishing", "published", "committed", "rolling-back", "rolled-back"},
         k = [j EXCEPT !.phase = phase]
  PROVE  /\ k \in Journals /\ k # None /\ k.phase = phase /\ k.id = j.id /\ k.scope = j.scope
         /\ k.before = j.before /\ k.after = j.after /\ k.prior = j.prior
  BY Bounds DEF Journals

\* What the controller is after an exception.
LEMMA Raises ==
  ASSUME IInv, ~At("idle"), ctl' = Raised(ChangesServices)
  PROVE  /\ ctl' \in Controllers /\ ~ctl'.stopping
         /\ \/ ctl'.mode = "none" /\ ctl'.pc = "idle"
            \/ ctl'.mode = "recover" /\ ctl'.pc = "load" /\ journal # None
            \/ /\ ctl'.mode = "undo" /\ ctl'.pc = "rollback" /\ Phase = "prepared"
               /\ Untouched /\ ~At("stage") /\ journal # None
  <1>1. Idle \in Controllers /\ ~Idle.stopping /\ Idle.mode = "none" /\ Idle.pc = "idle"
    BY DEF Idle, Controllers, PCs, Prior
  <1>2. /\ [Idle EXCEPT !.mode = "recover", !.pc = "load"] \in Controllers
        /\ ~[Idle EXCEPT !.mode = "recover", !.pc = "load"].stopping
        /\ [Idle EXCEPT !.mode = "recover", !.pc = "load"].mode = "recover"
        /\ [Idle EXCEPT !.mode = "recover", !.pc = "load"].pc = "load"
    BY DEF Idle, Controllers, PCs, Prior
  <1>3. /\ [Idle EXCEPT !.mode = "undo", !.pc = "rollback"] \in Controllers
        /\ ~[Idle EXCEPT !.mode = "undo", !.pc = "rollback"].stopping
        /\ [Idle EXCEPT !.mode = "undo", !.pc = "rollback"].mode = "undo"
        /\ [Idle EXCEPT !.mode = "undo", !.pc = "rollback"].pc = "rollback"
    BY DEF Idle, Controllers, PCs, Prior
  <1>4. CASE ~(ctl.mode = "apply" /\ ~At("stage") /\ Phase # "committed")
    BY <1>1, <1>4 DEF Raised
  <1>5. CASE ctl.mode = "apply" /\ ~At("stage") /\ Phase # "committed"
    <2>1. journal # None
      BY <1>5 DEF IInv, TypeOK, At
    <2>2. CASE ChangesServices
      BY <2>1, <2>2, <1>2, <1>5 DEF Raised
    <2>3. CASE ~ChangesServices
      <3>1. ctl' = [Idle EXCEPT !.mode = "undo", !.pc = "rollback"]
        BY <2>3, <1>5 DEF Raised
      <3>2. Untouched /\ Phase = "prepared"
        BY <2>3, <1>5 DEF ChangesServices, IInv, Course, Applying, At, Stopping, Untouched, TypeOK, Controllers
      <3> QED BY <3>1, <3>2, <2>1, <1>3, <1>5
    <2> QED BY <2>2, <2>3
  <1> QED BY <1>4, <1>5

\* The two generations of an activation.
LEMMA Sides ==
  ASSUME IInv, journal # None
  PROVE  /\ journal.after.layout \in Layouts /\ journal.after.layout # None
         /\ journal.after.worker = journal.after.layout.worker
         /\ journal.after.gateway = journal.after.layout.gateway
         /\ Scope # "gateway" => journal.after.worker = journal.id
         /\ Scope # "worker" => journal.after.gateway = journal.id
         /\ Scope = "migration" => journal.before = NoFiles
         /\ Scope # "migration" =>
              /\ journal.before.layout \in Layouts /\ journal.before.layout # None
              /\ journal.before.worker = journal.before.layout.worker
              /\ journal.before.gateway = journal.before.layout.gateway
              /\ journal.before.worker \in 0 .. (journal.id - 1)
              /\ journal.before.gateway \in 0 .. (journal.id - 1)
              /\ Scope = "gateway" => journal.after.worker = journal.before.worker
              /\ Scope = "worker" => journal.after.gateway = journal.before.gateway
  <1>1. journal.id \in Releases /\ journal.id > 0 /\ Scope \in {"worker", "gateway", "migration"}
    BY JournalIs DEF IInv, Planned, Scope
  <1>2. CASE Scope = "migration"
    <2>1. journal.after = Generation(journal.id, journal.id) /\ journal.before = NoFiles
      BY <1>2 DEF IInv, Planned, NextFiles
    <2> QED BY <1>1, <1>2, <2>1, GenerationIs, Bounds
  <1>3. CASE Scope # "migration"
    <2>1. PICK w, g \in 0 .. (journal.id - 1) : journal.before = Generation(w, g)
      BY <1>3 DEF IInv, Planned
    <2>2. w \in Releases /\ g \in Releases
      BY <1>1, Bounds DEF Releases
    <2>3. journal.before.layout.worker = w /\ journal.before.layout.gateway = g
          /\ journal.before.layout \in Layouts /\ journal.before.worker = w /\ journal.before.gateway = g
      BY <2>1, <2>2, GenerationIs
    <2>4. journal.after = IF Scope = "gateway" THEN Generation(w, journal.id) ELSE Generation(journal.id, g)
      BY <1>1, <1>3, <2>3 DEF IInv, Planned, NextFiles
    <2>5. CASE Scope = "gateway"
      <3>1. journal.after = Generation(w, journal.id)
        BY <2>4, <2>5
      <3>2. /\ journal.after.layout \in Layouts /\ journal.after.worker = w /\ journal.after.gateway = journal.id
            /\ journal.after.layout.worker = w /\ journal.after.layout.gateway = journal.id
        BY <1>1, <2>2, <3>1 DEF Generation, Layouts
      <3> QED BY <2>3, <2>5, <3>2, Bounds
    <2>6. CASE Scope = "worker"
      <3>1. journal.after = Generation(journal.id, g)
        BY <2>4, <2>6
      <3>2. /\ journal.after.layout \in Layouts /\ journal.after.worker = journal.id /\ journal.after.gateway = g
            /\ journal.after.layout.worker = journal.id /\ journal.after.layout.gateway = g
        BY <1>1, <2>2, <3>1 DEF Generation, Layouts
      <3> QED BY <2>3, <2>6, <3>2, Bounds
    <2> QED BY <1>1, <1>3, <2>5, <2>6
  <1> QED BY <1>2, <1>3

LEMMA NoneHeld == ~Held(NoLease)
  BY DEF Held, NoLease

-----------------------------------------------------------------------------
(* Steps of the controller that change nothing but its own place            *)

LEMMA PrepareKeeps ==
  ASSUME IInv, Prepare
  PROVE  IInv'
  <1>1. /\ ctl.pc = "prepare" /\ ctl' \in Controllers /\ journal # None
        /\ ctl'.mode = ctl.mode /\ ctl'.scope = ctl.scope /\ ctl'.prior = ctl.prior
        /\ ctl'.changed = ctl.changed /\ ctl'.stopping = ctl.stopping
        /\ \/ ctl'.pc = "acquire" /\ Scope # "gateway" /\ journal.prior.worker = "running"
           \/ ctl'.pc = "observe" /\ Scope = "worker"
           \/ ctl'.pc = "stopGateway" /\ Scope # "worker"
    <2> DEFINE acquiring == [ctl EXCEPT !.pc = "acquire", !.pid = journal.prior.pid]
    <2>1. ctl \in Controllers /\ ctl.pc = "prepare" /\ journal # None
      BY DEF Prepare, At, IInv, TypeOK
    <2>2. Scope \in {"worker", "gateway", "migration"} /\ journal.prior.pid \in Nat
      BY <2>1, JournalIs DEF IInv, Scope, Prior
    <2>3. CASE ctl' = acquiring /\ Scope # "gateway" /\ journal.prior.worker = "running"
      BY <2>1, <2>2, <2>3 DEF Controllers, PCs
    <2>4. CASE Goto(FirstStop)
      <3>1. FirstStop \in PCs
        BY DEF FirstStop, PCs
      <3> QED BY <2>1, <2>2, <2>4, <3>1, Moves DEF Goto, FirstStop, StopGatewayFirst
    <2> QED BY <2>3, <2>4 DEF Prepare
  <1>2. UNCHANGED <<files, loaded, journal, worker, gateway, used>>
    BY DEF Prepare
  <1>3. TypeOK'
    BY <1>1, <1>2 DEF IInv, TypeOK
  <1>4. Planned'
    BY <1>1, <1>2 DEF IInv, Planned, At, Scope
  <1>5. Published'
    BY <1>1, <1>2 DEF IInv, Published, Scope, Phase
  <1>6. Course'
    BY <1>1, <1>2 DEF IInv, Course, Applying, Recovering, Undoing, At, Phase, Scope, Stopping, Planned,
      TypeOK, Controllers
  <1>7. Loaded'
    BY <1>1, <1>2 DEF IInv, Loaded, Phase
  <1>8. Admitted'
    BY <1>1, <1>2 DEF IInv, Admitted, Serving, InstalledPair, Phase
  <1>9. Sealed'
    BY <1>1, <1>2 DEF IInv, Sealed
  <1>10. Replaced'
    BY <1>1, <1>2 DEF IInv, Replaced, OldWorker, NewWorker, Alone, Ending, Untouched, At, Phase, Scope
  <1>11. GatewayKept'
    BY <1>1, <1>2 DEF IInv, GatewayKept, Ending, Restored, Untouched, At, Phase, Scope
  <1>12. WorkerKept'
    BY <1>1, <1>2 DEF IInv, WorkerKept, Ending, Restored, Untouched, At, Phase, Scope
  <1> QED BY <1>3, <1>4, <1>5, <1>6, <1>7, <1>8, <1>9, <1>10, <1>11, <1>12 DEF IInv

LEMMA ObserveKeeps ==
  ASSUME IInv, Observe
  PROVE  IInv'
  <1>1. /\ ctl.pc = "observe" /\ ctl' \in Controllers
        /\ ctl'.mode = ctl.mode /\ ctl'.scope = ctl.scope /\ ctl'.prior = ctl.prior
        /\ ctl'.changed
        /\ ctl'.pc = "acquire" => ctl'.stopping
        /\ ctl'.pc = "kill" => worker.state \notin {"booting", "ready"}
        /\ ctl'.pc \in {"acquire", "kill"}
    BY DEF Observe, NativelyUp, At, IInv, TypeOK, Controllers, Workers, PCs
  <1>2. UNCHANGED <<files, loaded, journal, worker, gateway, used>>
    BY DEF Observe
  <1>3. TypeOK'
    BY <1>1, <1>2 DEF IInv, TypeOK
  <1>4. Planned'
    BY <1>1, <1>2 DEF IInv, Planned, At, Scope
  <1>5. Published'
    BY <1>1, <1>2 DEF IInv, Published, Scope, Phase
  <1>6. Course'
    BY <1>1, <1>2 DEF IInv, Course, Applying, Recovering, Undoing, At, Phase, Scope, Stopping
  <1>7. Loaded'
    BY <1>1, <1>2 DEF IInv, Loaded, Phase
  <1>8. Admitted'
    BY <1>1, <1>2 DEF IInv, Admitted, Serving, InstalledPair, Phase
  <1>9. Sealed'
    BY <1>1, <1>2 DEF IInv, Sealed
  <1>10. Replaced'
    BY <1>1, <1>2 DEF IInv, Replaced, OldWorker, NewWorker, Alone, Ending, Untouched, At, Phase, Scope
  <1>11. GatewayKept'
    BY <1>1, <1>2 DEF IInv, GatewayKept, Ending, Restored, Untouched, At, Phase, Scope
  <1>12. WorkerKept'
    BY <1>1, <1>2 DEF IInv, WorkerKept, Ending, Restored, Untouched, At, Phase, Scope
  <1> QED BY <1>3, <1>4, <1>5, <1>6, <1>7, <1>8, <1>9, <1>10, <1>11, <1>12 DEF IInv

LEMMA CheckKeeps ==
  ASSUME IInv, Check
  PROVE  IInv'
  <1>1. /\ ctl.pc = "check" /\ ctl' \in Controllers /\ ctl'.pc = "kill"
        /\ ctl'.mode = ctl.mode /\ ctl'.scope = ctl.scope /\ ctl'.prior = ctl.prior
        /\ ctl'.changed = ctl.changed /\ ctl'.stopping = ctl.stopping
    BY Moves DEF Check, Goto, At, IInv, TypeOK, PCs
  <1>2. UNCHANGED <<files, loaded, journal, worker, gateway, used>>
    BY DEF Check
  <1>3. TypeOK'
    BY <1>1, <1>2 DEF IInv, TypeOK
  <1>4. Planned'
    BY <1>1, <1>2 DEF IInv, Planned, At, Scope
  <1>5. Published'
    BY <1>1, <1>2 DEF IInv, Published, Scope, Phase
  <1>6. Course'
    BY <1>1, <1>2 DEF IInv, Course, Applying, Recovering, Undoing, At, Phase, Scope, Stopping
  <1>7. Loaded'
    BY <1>1, <1>2 DEF IInv, Loaded, Phase
  <1>8. Admitted'
    BY <1>1, <1>2 DEF IInv, Admitted, Serving, InstalledPair, Phase
  <1>9. Sealed'
    BY <1>1, <1>2 DEF IInv, Sealed
  <1>10. Replaced'
    BY <1>1, <1>2 DEF IInv, Replaced, OldWorker, NewWorker, Alone, Ending, Untouched, At, Phase, Scope
  <1>11. GatewayKept'
    BY <1>1, <1>2 DEF IInv, GatewayKept, Ending, Restored, Untouched, At, Phase, Scope
  <1>12. WorkerKept'
    BY <1>1, <1>2 DEF IInv, WorkerKept, Ending, Restored, Untouched, At, Phase, Scope
  <1> QED BY <1>3, <1>4, <1>5, <1>6, <1>7, <1>8, <1>9, <1>10, <1>11, <1>12 DEF IInv

LEMMA SettleKeeps ==
  ASSUME IInv, Settle
  PROVE  IInv'
  <1>1. /\ ctl.pc = "settle" /\ ctl' \in Controllers
        /\ ctl'.mode = ctl.mode /\ ctl'.scope = ctl.scope /\ ctl'.prior = ctl.prior
        /\ ctl'.changed = ctl.changed /\ ctl'.stopping = ctl.stopping
        /\ ctl.mode = "recover" /\ Phase = "rolled-back"
        /\ ctl'.pc = "release" => Alone /\ journal.prior.worker = "running"
        /\ ctl'.pc = "finish" => Scope = "gateway" \/ journal.prior.worker # "running"
        /\ ctl'.pc \in {"wait", "release", "finish"}
    BY JournalIs, Bounds, Moves, GenerationIs, SMTT(60) DEF Settle, Undoing, Applying, Controllers, AfterRestore, OwnsHold, BothRan, Alone, Goto, At, IInv, Course, Recovering, TypeOK, PCs, Planned, Scope, Releases
  <1>2. UNCHANGED <<files, loaded, journal, worker, gateway, used>>
    BY DEF Settle
  <1>3. TypeOK'
    BY <1>1, <1>2 DEF IInv, TypeOK
  <1>4. Planned'
    BY <1>1, <1>2 DEF IInv, Planned, At, Scope
  <1>5. Published'
    BY <1>1, <1>2 DEF IInv, Published, Scope, Phase
  <1>6. Course'
    BY <1>1, <1>2 DEF IInv, Course, Applying, Recovering, Undoing, At, Phase, Scope, Stopping, Alone
  <1>7. Loaded'
    BY <1>1, <1>2 DEF IInv, Loaded, Phase
  <1>8. Admitted'
    BY <1>1, <1>2 DEF IInv, Admitted, Serving, InstalledPair, Phase
  <1>9. Sealed'
    BY <1>1, <1>2 DEF IInv, Sealed
  <1>10. Replaced'
    BY <1>1, <1>2 DEF IInv, Replaced, OldWorker, NewWorker, Alone, Ending, Untouched, At, Phase, Scope
  <1>11. GatewayKept'
    BY <1>1, <1>2 DEF IInv, GatewayKept, Ending, Restored, Untouched, At, Phase, Scope
  <1>12. WorkerKept'
    BY <1>1, <1>2 DEF IInv, WorkerKept, Ending, Restored, Untouched, At, Phase, Scope
  <1> QED BY <1>3, <1>4, <1>5, <1>6, <1>7, <1>8, <1>9, <1>10, <1>11, <1>12 DEF IInv

LEMMA ReceiptKeeps ==
  ASSUME IInv, Receipt
  PROVE  IInv'
  <1>1. /\ ctl.pc = "wait" /\ ctl' \in Controllers
        /\ ctl'.mode = ctl.mode /\ ctl'.scope = ctl.scope /\ ctl'.prior = ctl.prior
        /\ ctl'.changed = ctl.changed /\ ctl'.stopping = ctl.stopping
        /\ \/ ctl.mode = "apply" /\ Phase = "published"
           \/ ctl.mode = "recover" /\ Phase \in {"committed", "rolled-back"}
        /\ worker.state = "ready" /\ gateway.state = "running" /\ worker.release = Expected.worker
        /\ ctl'.pc \in {"hold", "commit"} => Phase = "published"
        /\ ctl'.pc = "commit" => Scope = "gateway"
        /\ ctl'.pc = "hold" => Scope # "gateway"
        /\ ctl'.pc = "release" => Scope # "gateway" /\ Phase # "published"
        /\ ctl'.pc = "release" /\ Phase = "rolled-back" => Scope = "worker"
        /\ ctl'.pc = "finish" => Phase # "published" /\ (Scope = "gateway" \/ (Phase = "rolled-back" /\ journal.prior.worker # "running"))
        /\ ctl'.pc \in {"hold", "commit", "release", "finish"}
    BY JournalIs, Moves, SMTT(60) DEF Receipt, Course, Applying, Recovering, Undoing, Controllers, Healthy, AfterRestore, OwnsHold, Goto, At, IInv, Planned, TypeOK, PCs, Scope, Phase
  <1>2. UNCHANGED <<files, loaded, journal, worker, gateway, used>>
    BY DEF Receipt
  <1>3. TypeOK'
    BY <1>1, <1>2 DEF IInv, TypeOK
  <1>4. Planned'
    BY <1>1, <1>2 DEF IInv, Planned, At, Scope
  <1>5. Published'
    BY <1>1, <1>2 DEF IInv, Published, Scope, Phase
  <1>6. Course'
    BY <1>1, <1>2 DEF IInv, Course, Applying, Recovering, Undoing, At, Phase, Scope, Stopping
  <1>7. Loaded'
    BY <1>1, <1>2 DEF IInv, Loaded, Phase
  <1>8. Admitted'
    BY <1>1, <1>2 DEF IInv, Admitted, Serving, InstalledPair, Phase
  <1>9. Sealed'
    BY <1>1, <1>2 DEF IInv, Sealed
  <1>10. Replaced'
    BY <1>1, <1>2, Sides DEF IInv, Replaced, OldWorker, NewWorker, Alone, Ending, Untouched, At, Phase,
      Scope, Expected, TypeOK, Course, Applying
  <1>11. GatewayKept'
    BY <1>1, <1>2 DEF IInv, GatewayKept, Ending, Restored, Untouched, At, Phase, Scope
  <1>12. WorkerKept'
    BY <1>1, <1>2 DEF IInv, WorkerKept, Ending, Restored, Untouched, At, Phase, Scope
  <1> QED BY <1>3, <1>4, <1>5, <1>6, <1>7, <1>8, <1>9, <1>10, <1>11, <1>12 DEF IInv

LEMMA HoldKeeps ==
  ASSUME IInv, Hold
  PROVE  IInv'
  <1>1. /\ ctl.pc = "hold" /\ ctl' \in Controllers /\ ctl'.pc = "commit"
        /\ ctl'.mode = ctl.mode /\ ctl'.scope = ctl.scope /\ ctl'.prior = ctl.prior
        /\ ctl'.changed = ctl.changed /\ ctl'.stopping = ctl.stopping
    BY Moves DEF Hold, Goto, At, IInv, TypeOK, PCs
  <1>2. UNCHANGED <<files, loaded, journal, worker, gateway, used>>
    BY DEF Hold
  <1>3. TypeOK'
    BY <1>1, <1>2 DEF IInv, TypeOK
  <1>4. Planned'
    BY <1>1, <1>2 DEF IInv, Planned, At, Scope
  <1>5. Published'
    BY <1>1, <1>2 DEF IInv, Published, Scope, Phase
  <1>6. Course'
    BY <1>1, <1>2 DEF IInv, Course, Applying, Recovering, Undoing, At, Phase, Scope, Stopping
  <1>7. Loaded'
    BY <1>1, <1>2 DEF IInv, Loaded, Phase
  <1>8. Admitted'
    BY <1>1, <1>2 DEF IInv, Admitted, Serving, InstalledPair, Phase
  <1>9. Sealed'
    BY <1>1, <1>2 DEF IInv, Sealed
  <1>10. Replaced'
    BY <1>1, <1>2 DEF IInv, Replaced, OldWorker, NewWorker, Alone, Ending, Untouched, At, Phase, Scope
  <1>11. GatewayKept'
    BY <1>1, <1>2 DEF IInv, GatewayKept, Ending, Restored, Untouched, At, Phase, Scope
  <1>12. WorkerKept'
    BY <1>1, <1>2 DEF IInv, WorkerKept, Ending, Restored, Untouched, At, Phase, Scope
  <1> QED BY <1>3, <1>4, <1>5, <1>6, <1>7, <1>8, <1>9, <1>10, <1>11, <1>12 DEF IInv

LEMMA RecoverKeeps ==
  ASSUME IInv, Recover
  PROVE  IInv'
  <1>1. /\ ctl.pc = "idle" /\ journal # None
        /\ ctl' \in Controllers /\ ctl'.mode = "recover" /\ ctl'.pc = "load" /\ ~ctl'.stopping
    BY DEF Recover, At, Idle, Controllers, PCs, Prior
  <1>2. UNCHANGED <<files, loaded, journal, worker, gateway, used>>
    BY DEF Recover
  <1>3. TypeOK'
    BY <1>1, <1>2 DEF IInv, TypeOK
  <1>4. Planned'
    BY <1>1, <1>2 DEF IInv, Planned, At, Scope
  <1>5. Published'
    BY <1>1, <1>2 DEF IInv, Published, Scope, Phase
  <1>6. Course'
    BY <1>1, <1>2 DEF IInv, Course, Applying, Recovering, Undoing, At, Phase, Scope, Stopping
  <1>7. Loaded'
    BY <1>1, <1>2 DEF IInv, Loaded, Phase
  <1>8. Admitted'
    BY <1>1, <1>2 DEF IInv, Admitted, Serving, InstalledPair, Phase
  <1>9. Sealed'
    BY <1>1, <1>2 DEF IInv, Sealed
  <1>10. Replaced'
    BY <1>1, <1>2 DEF IInv, Replaced, OldWorker, NewWorker, Alone, Ending, Untouched, At, Phase, Scope
  <1>11. GatewayKept'
    BY <1>1, <1>2 DEF IInv, GatewayKept, Ending, Restored, Untouched, At, Phase, Scope
  <1>12. WorkerKept'
    BY <1>1, <1>2 DEF IInv, WorkerKept, Ending, Restored, Untouched, At, Phase, Scope
  <1> QED BY <1>3, <1>4, <1>5, <1>6, <1>7, <1>8, <1>9, <1>10, <1>11, <1>12 DEF IInv

LEMMA LoadKeeps ==
  ASSUME IInv, Load
  PROVE  IInv'
  <1>1. /\ ctl.pc = "load" /\ ctl' \in Controllers
        /\ ctl'.mode = ctl.mode /\ ctl'.scope = ctl.scope /\ ctl'.prior = ctl.prior
        /\ ctl'.changed = ctl.changed /\ ctl'.stopping = ctl.stopping
        /\ ctl'.pc = "wait" => Phase = "committed"
        /\ ctl'.pc = "reload" => Phase = "rolled-back"
        /\ ctl'.pc \in {"stopGateway", "observe"} => Phase \notin {"committed", "rolled-back"}
        /\ ctl'.pc = "stopGateway" => Scope = "gateway"
        /\ ctl'.pc = "observe" => Scope # "gateway"
        /\ ctl'.pc \in {"wait", "reload", "stopGateway", "observe"}
    BY Moves DEF Load, Goto, At, IInv, TypeOK, PCs
  <1>2. UNCHANGED <<files, loaded, journal, worker, gateway, used>>
    BY DEF Load
  <1>3. TypeOK'
    BY <1>1, <1>2 DEF IInv, TypeOK
  <1>4. Planned'
    BY <1>1, <1>2 DEF IInv, Planned, At, Scope
  <1>5. Published'
    BY <1>1, <1>2 DEF IInv, Published, Scope, Phase
  <1>6. Course'
    BY <1>1, <1>2 DEF IInv, Course, Applying, Recovering, Undoing, At, Phase, Scope, Stopping
  <1>7. Loaded'
    BY <1>1, <1>2 DEF IInv, Loaded, Phase
  <1>8. Admitted'
    BY <1>1, <1>2 DEF IInv, Admitted, Serving, InstalledPair, Phase
  <1>9. Sealed'
    BY <1>1, <1>2 DEF IInv, Sealed
  <1>10. Replaced'
    BY <1>1, <1>2 DEF IInv, Replaced, OldWorker, NewWorker, Alone, Ending, Untouched, At, Phase, Scope
  <1>11. GatewayKept'
    BY <1>1, <1>2 DEF IInv, GatewayKept, Ending, Restored, Untouched, At, Phase, Scope
  <1>12. WorkerKept'
    BY <1>1, <1>2 DEF IInv, WorkerKept, Ending, Restored, Untouched, At, Phase, Scope
  <1> QED BY <1>3, <1>4, <1>5, <1>6, <1>7, <1>8, <1>9, <1>10, <1>11, <1>12 DEF IInv

LEMMA PreflightKeeps ==
  ASSUME IInv, NEW scope \in Scopes, Preflight(scope)
  PROVE  IInv'
  <1>1. /\ ctl.pc = "idle" /\ ctl' \in Controllers /\ used.activations < Activations
        /\ ctl'.mode = "apply" /\ ctl'.pc = "stage" /\ ctl'.scope = scope /\ ~ctl'.changed /\ ~ctl'.stopping
        /\ gateway.state # "starting"
        /\ ctl'.prior.gateway = "running" <=> gateway.state = "running"
        /\ ctl'.prior.worker # "running" => worker.state = "stopped"
        /\ ctl'.prior.worker = "running" =>
             worker.state = "ready" /\ (scope = "worker" => ~worker.lease.sealed)
    <2>1. At("idle") /\ SnapshotOK /\ ctl' = [Idle EXCEPT !.mode = "apply", !.pc = "stage", !.scope = scope, !.prior = Snapshot]
      BY DEF Preflight
    <2>2. Snapshot \in Prior /\ (Snapshot.gateway = "running" <=> gateway.state = "running")
          /\ (Snapshot.worker = "running" <=> NativelyUp(worker))
      BY DEF Snapshot, NativeState, Prior, IInv, TypeOK, Workers
    <2>6. Snapshot.worker # "running" => worker.state = "stopped"
      BY <2>1, <2>2 DEF SnapshotOK, NativelyUp, IInv, TypeOK, Workers
    <2>3. Snapshot.worker = "running" => worker.state = "ready" /\ (scope = "worker" => ~worker.lease.sealed)
      BY DEF Preflight, Serves, Held
    <2>4. scope \in {"worker", "gateway", "migration"}
      BY Bounds
    <2>5. used.activations < Activations
      BY DEF Preflight
    <2> QED BY <2>1, <2>2, <2>3, <2>4, <2>5, <2>6 DEF Idle, Controllers, PCs, At, SnapshotOK
  <1>2. UNCHANGED <<files, loaded, journal, worker, gateway, used>>
    BY DEF Preflight
  <1>3. TypeOK'
    BY <1>1, <1>2 DEF IInv, TypeOK
  <1>4. Planned'
    BY <1>1, <1>2 DEF IInv, Planned, At, Scope
  <1>5. Published'
    BY <1>1, <1>2 DEF IInv, Published, Scope, Phase
  <1>6. Course'
    BY <1>1, <1>2 DEF IInv, Course, Applying, Recovering, Undoing, At, Phase, Scope, Stopping
  <1>7. Loaded'
    BY <1>1, <1>2 DEF IInv, Loaded, Phase
  <1>8. Admitted'
    BY <1>1, <1>2 DEF IInv, Admitted, Serving, InstalledPair, Phase
  <1>9. Sealed'
    BY <1>1, <1>2 DEF IInv, Sealed
  <1>10. Replaced'
    <2>1. journal = None /\ worker.state = "ready" /\ ~worker.lease.sealed => worker.release = files.worker
      <3> SUFFICES ASSUME journal = None, worker.state = "ready", ~worker.lease.sealed PROVE worker.release = files.worker
        OBVIOUS
      <3>1. files.layout # None /\ worker.release = files.layout.worker
        BY DEF IInv, Admitted, Serving, InstalledPair
      <3>2. PICK w, g \in 0 .. used.activations : files = Generation(w, g)
        BY <3>1 DEF IInv, Published, Settled, NoFiles
      <3> QED BY <3>1, <3>2 DEF Generation
    <2> QED BY <1>1, <1>2, <2>1 DEF IInv, Replaced, OldWorker, NewWorker, Alone, Ending, Untouched, At, Phase, Scope, NativelyUp
  <1>11. GatewayKept'
    BY <1>1, <1>2 DEF IInv, GatewayKept, Ending, Restored, Untouched, At, Phase, Scope, TypeOK, Gateways
  <1>12. WorkerKept'
    BY <1>1, <1>2 DEF IInv, WorkerKept, Ending, Restored, Untouched, At, Phase, Scope
  <1> QED BY <1>3, <1>4, <1>5, <1>6, <1>7, <1>8, <1>9, <1>10, <1>11, <1>12 DEF IInv

LEMMA RefuseKeeps ==
  ASSUME IInv, Refuse
  PROVE  IInv'
  <1>1. /\ ctl.pc # "idle" /\ ctl' \in Controllers /\ ~ctl'.stopping
        /\ \/ ctl'.mode = "none" /\ ctl'.pc = "idle"
           \/ ctl'.mode = "recover" /\ ctl'.pc = "load" /\ journal # None
           \/ ctl'.mode = "undo" /\ ctl'.pc = "rollback" /\ Phase = "prepared" /\ Untouched /\ ctl.pc # "stage" /\ journal # None
    BY Raises DEF Refuse, Blocked, At
  <1>2. UNCHANGED <<files, loaded, journal, worker, gateway, used>>
    BY DEF Refuse
  <1>3. TypeOK'
    BY <1>1, <1>2 DEF IInv, TypeOK
  <1>4. Planned'
    BY <1>1, <1>2 DEF IInv, Planned, At, Scope
  <1>5. Published'
    BY <1>1, <1>2 DEF IInv, Published, Scope, Phase
  <1>6. Course'
    BY <1>1, <1>2 DEF IInv, Course, Applying, Recovering, Undoing, At, Phase, Scope, Stopping
  <1>7. Loaded'
    BY <1>1, <1>2 DEF IInv, Loaded, Phase
  <1>8. Admitted'
    BY <1>1, <1>2 DEF IInv, Admitted, Serving, InstalledPair, Phase
  <1>9. Sealed'
    BY <1>1, <1>2 DEF IInv, Sealed
  <1>10. Replaced'
    BY <1>1, <1>2 DEF IInv, Replaced, OldWorker, NewWorker, Alone, Ending, Untouched, At, Phase, Scope
  <1>11. GatewayKept'
    BY <1>1, <1>2 DEF IInv, GatewayKept, Ending, Restored, Untouched, At, Phase, Scope
  <1>12. WorkerKept'
    BY <1>1, <1>2 DEF IInv, WorkerKept, Ending, Restored, Untouched, At, Phase, Scope
  <1> QED BY <1>3, <1>4, <1>5, <1>6, <1>7, <1>8, <1>9, <1>10, <1>11, <1>12 DEF IInv

LEMMA FailKeeps ==
  ASSUME IInv, Fail
  PROVE  IInv'
  <1>1. /\ ctl.pc # "idle" /\ ctl' \in Controllers /\ ~ctl'.stopping
        /\ \/ ctl'.mode = "none" /\ ctl'.pc = "idle"
           \/ ctl'.mode = "recover" /\ ctl'.pc = "load" /\ journal # None
           \/ ctl'.mode = "undo" /\ ctl'.pc = "rollback" /\ Phase = "prepared" /\ Untouched /\ ctl.pc # "stage" /\ journal # None
    BY Raises DEF Fail, Blocked, At
  <1>2. UNCHANGED <<files, loaded, journal, worker, gateway, used.activations>>
    BY DEF Fail, Fault, IInv, TypeOK
  <1>3. TypeOK'
    BY <1>1, <1>2, Bounds DEF IInv, TypeOK, Fail, Fault
  <1>4. Planned'
    BY <1>1, <1>2 DEF IInv, Planned, At, Scope
  <1>5. Published'
    BY <1>1, <1>2 DEF IInv, Published, Scope, Phase
  <1>6. Course'
    BY <1>1, <1>2 DEF IInv, Course, Applying, Recovering, Undoing, At, Phase, Scope, Stopping
  <1>7. Loaded'
    BY <1>1, <1>2 DEF IInv, Loaded, Phase
  <1>8. Admitted'
    BY <1>1, <1>2 DEF IInv, Admitted, Serving, InstalledPair, Phase
  <1>9. Sealed'
    BY <1>1, <1>2 DEF IInv, Sealed
  <1>10. Replaced'
    BY <1>1, <1>2 DEF IInv, Replaced, OldWorker, NewWorker, Alone, Ending, Untouched, At, Phase, Scope
  <1>11. GatewayKept'
    BY <1>1, <1>2 DEF IInv, GatewayKept, Ending, Restored, Untouched, At, Phase, Scope
  <1>12. WorkerKept'
    BY <1>1, <1>2 DEF IInv, WorkerKept, Ending, Restored, Untouched, At, Phase, Scope
  <1> QED BY <1>3, <1>4, <1>5, <1>6, <1>7, <1>8, <1>9, <1>10, <1>11, <1>12 DEF IInv

LEMMA KillControllerKeeps ==
  ASSUME IInv, KillController
  PROVE  IInv'
  <1>1. /\ ctl' \in Controllers /\ ~ctl'.stopping /\ ctl'.mode = "none" /\ ctl'.pc = "idle"
    BY DEF KillController, Idle, Controllers, PCs, Prior
  <1>2. UNCHANGED <<files, loaded, journal, worker, gateway, used.activations>>
    BY DEF KillController, Fault, IInv, TypeOK
  <1>3. TypeOK'
    BY <1>1, <1>2, Bounds DEF IInv, TypeOK, KillController, Fault
  <1>4. Planned'
    BY <1>1, <1>2 DEF IInv, Planned, At, Scope
  <1>5. Published'
    BY <1>1, <1>2 DEF IInv, Published, Scope, Phase
  <1>6. Course'
    BY <1>1, <1>2 DEF IInv, Course, Applying, Recovering, Undoing, At, Phase, Scope, Stopping
  <1>7. Loaded'
    BY <1>1, <1>2 DEF IInv, Loaded, Phase
  <1>8. Admitted'
    BY <1>1, <1>2 DEF IInv, Admitted, Serving, InstalledPair, Phase
  <1>9. Sealed'
    BY <1>1, <1>2 DEF IInv, Sealed
  <1>10. Replaced'
    BY <1>1, <1>2 DEF IInv, Replaced, OldWorker, NewWorker, Alone, Ending, Untouched, At, Phase, Scope
  <1>11. GatewayKept'
    BY <1>1, <1>2 DEF IInv, GatewayKept, Ending, Restored, Untouched, At, Phase, Scope
  <1>12. WorkerKept'
    BY <1>1, <1>2 DEF IInv, WorkerKept, Ending, Restored, Untouched, At, Phase, Scope
  <1> QED BY <1>3, <1>4, <1>5, <1>6, <1>7, <1>8, <1>9, <1>10, <1>11, <1>12 DEF IInv

-----------------------------------------------------------------------------
(* Steps of the controller up to the stops                                  *)

LEMMA StageKeeps ==
  ASSUME IInv, Stage
  PROVE  IInv'
  <1>1. /\ ctl.pc = "stage" /\ ctl' \in Controllers /\ ctl'.pc = "prepare"
        /\ ctl'.mode = ctl.mode /\ ctl'.scope = ctl.scope /\ ctl'.prior = ctl.prior
        /\ ctl'.changed = ctl.changed /\ ctl'.stopping = ctl.stopping
        /\ journal = None /\ used.activations < Activations /\ used'.activations = used.activations + 1
        /\ journal' \in Journals /\ journal' # None
        /\ journal'.id = used.activations + 1 /\ journal'.phase = "prepared" /\ journal'.scope = ctl.scope
        /\ journal'.before = files /\ journal'.prior = ctl.prior
        /\ journal'.after = NextFiles(ctl.scope, files, used.activations + 1)
    <2> DEFINE n == used.activations + 1
    <2>1. At("stage") /\ CanStage /\ Goto("prepare")
      BY DEF Stage
    <2>8. used.activations < Activations
      BY <2>1 DEF IInv, Planned
    <2>2. journal' = [id |-> n, scope |-> ctl.scope, phase |-> "prepared", before |-> files,
                      after |-> NextFiles(ctl.scope, files, n), prior |-> ctl.prior]
      BY DEF Stage
    <2>3. n \in Releases /\ used.activations \in Nat
      BY <2>8, Bounds DEF IInv, TypeOK, Releases
    <2>4. NextFiles(ctl.scope, files, n) \in Files
      <3>1. ctl.scope \in {"worker", "gateway", "migration"} /\ files \in Files
        BY DEF IInv, TypeOK, Controllers
      <3>2. ctl.scope # "migration" => files.layout.worker \in Releases /\ files.layout.gateway \in Releases
        BY <2>1, <3>1 DEF CanStage, Files, Layouts
      <3> QED BY <2>3, <3>1, <3>2, GenerationIs DEF NextFiles
    <2>5. journal' \in Journals
      BY <2>2, <2>3, <2>4 DEF Journals, IInv, TypeOK, Controllers
    <2>6. ctl' \in Controllers /\ ctl'.pc = "prepare" /\ ctl'.mode = ctl.mode /\ ctl'.scope = ctl.scope
          /\ ctl'.prior = ctl.prior /\ ctl'.changed = ctl.changed /\ ctl'.stopping = ctl.stopping
      BY <2>1, Moves DEF Goto, IInv, TypeOK, PCs
    <2>7. used'.activations = n
      BY DEF Stage, IInv, TypeOK
    <2> QED BY <2>1, <2>2, <2>3, <2>5, <2>6, <2>7, <2>8, Bounds DEF CanStage, At
  <1>2. UNCHANGED <<files, loaded, worker, gateway>>
    BY DEF Stage
  <1>3. TypeOK'
    BY <1>1, <1>2, Bounds DEF IInv, TypeOK, Stage, PCs
  <1>4. Planned'
    <2>1. CanStage /\ ctl.scope \in {"worker", "gateway", "migration"} /\ used.activations \in Nat
      BY DEF Stage, IInv, TypeOK, Controllers
    <2>2. CASE ctl.scope = "migration"
      <3>1. files = NoFiles
        <4>1. files.layout = None
          BY <2>1, <2>2 DEF CanStage
        <4>2. Settled(files, used.activations)
          BY <1>1 DEF IInv, Published
        <4>3. ASSUME NEW w \in 0 .. used.activations, NEW g \in 0 .. used.activations, files = Generation(w, g) PROVE FALSE
          <5>1. w \in Releases /\ g \in Releases
            BY <1>1, <2>1, Bounds DEF Releases
          <5> QED BY <4>1, <4>3, <5>1, GenerationIs, Bounds
        <4> QED BY <4>2, <4>3 DEF Settled
      <3>2. ctl.prior.worker = "absent" /\ ctl.prior.gateway = "absent"
        BY <2>1, <3>1 DEF CanStage, NoFiles
      <3> QED BY <1>1, <2>1, <2>2, <3>1, <3>2 DEF Planned, At, Scope
    <2>3. CASE ctl.scope # "migration"
      <3>1. files.layout # None
        BY <2>1, <2>3 DEF CanStage
      <3>2. PICK w, g \in 0 .. used.activations : files = Generation(w, g)
        BY <1>1, <3>1 DEF IInv, Published, Settled, NoFiles
      <3>3. journal'.id - 1 = used.activations
        BY <1>1, <2>1
      <3> QED BY <1>1, <2>1, <2>3, <3>2, <3>3 DEF Planned, At, Scope
    <2> QED BY <2>2, <2>3
  <1>5. Published'
    BY <1>1, <1>2 DEF IInv, Published, Scope, Phase
  <1>6. Course'
    BY <1>1, <1>2 DEF IInv, Course, Applying, Recovering, Undoing, At, Phase, Scope, Stopping
  <1>7. Loaded'
    BY <1>1, <1>2 DEF IInv, Loaded, Phase, Course
  <1>8. Admitted'
    BY <1>1, <1>2 DEF IInv, Admitted, Serving, InstalledPair, Phase, Loaded
  <1>9. Sealed'
    BY <1>1, <1>2 DEF IInv, Sealed
  <1>10. Replaced'
    BY <1>1, <1>2, Bounds DEF IInv, Replaced, OldWorker, NewWorker, Alone, Ending, Untouched, At, Phase,
      Scope, Loaded, Units, TypeOK
  <1>11. GatewayKept'
    BY <1>1, <1>2 DEF IInv, GatewayKept, Ending, Restored, Untouched, At, Phase, Scope
  <1>12. WorkerKept'
    BY <1>1, <1>2 DEF IInv, WorkerKept, Ending, Restored, Untouched, At, Phase, Scope
  <1> QED BY <1>3, <1>4, <1>5, <1>6, <1>7, <1>8, <1>9, <1>10, <1>11, <1>12 DEF IInv

LEMMA AcquireKeeps ==
  ASSUME IInv, Acquire
  PROVE  IInv'
  <1>1. /\ ctl.pc = "acquire" /\ ctl' \in Controllers /\ ctl'.pc = "seal"
        /\ ctl'.mode = ctl.mode /\ ctl'.scope = ctl.scope /\ ctl'.prior = ctl.prior
        /\ ctl'.changed = ctl.changed /\ ctl'.stopping = ctl.stopping
        /\ worker' \in Workers /\ worker'.state = worker.state /\ worker'.release = worker.release /\ worker'.hold = worker.hold
        /\ worker'.busy = worker.busy /\ worker.state = "ready"
        /\ \/ worker'.lease = worker.lease
           \/ worker'.lease.op # Other /\ worker'.lease.op = journal.id /\ ~worker'.lease.sealed /\ ~worker.lease.sealed
    <2>1. journal.id \in Releases /\ journal.id # Other
      BY JournalIs DEF Acquire, At, IInv, TypeOK, Releases, Other
    <2>2. ctl' \in Controllers /\ ctl.pc = "acquire" /\ ctl'.pc = "seal" /\ ctl'.mode = ctl.mode /\ ctl'.scope = ctl.scope
          /\ ctl'.prior = ctl.prior /\ ctl'.changed = ctl.changed /\ ctl'.stopping = ctl.stopping
      BY Moves DEF Acquire, At, Goto, IInv, TypeOK, PCs
    <2>3. worker.state = "ready" /\ worker \in Workers
      BY DEF Acquire, CanAcquire, Reachable, Serves, IInv, TypeOK
    <2>4. CASE Held(worker.lease)
      BY <2>2, <2>3, <2>4 DEF Acquire
    <2>5. CASE ~Held(worker.lease)
      <3>1. worker' = [worker EXCEPT !.lease = [op |-> journal.id, sealed |-> FALSE, live |-> TRUE]]
        BY <2>5 DEF Acquire
      <3>2. [op |-> journal.id, sealed |-> FALSE, live |-> TRUE] \in Lease
        BY <2>1 DEF Lease
      <3> QED BY <2>1, <2>2, <2>3, <2>5, <3>1, <3>2 DEF Workers, Held
    <2> QED BY <2>4, <2>5
  <1>2. UNCHANGED <<files, loaded, journal, gateway, used>>
    BY DEF Acquire
  <1>3. TypeOK'
    BY <1>1, <1>2 DEF IInv, TypeOK
  <1>4. Planned'
    BY <1>1, <1>2 DEF IInv, Planned, At, Scope
  <1>5. Published'
    BY <1>1, <1>2 DEF IInv, Published, Scope, Phase
  <1>6. Course'
    BY <1>1, <1>2 DEF IInv, Course, Applying, Recovering, Undoing, At, Phase, Scope, Stopping
  <1>7. Loaded'
    BY <1>1, <1>2 DEF IInv, Loaded, Phase
  <1>8. Admitted'
    BY <1>1, <1>2 DEF IInv, Admitted, Serving, InstalledPair, Phase
  <1>9. Sealed'
    BY <1>1, <1>2 DEF IInv, Sealed
  <1>10. Replaced'
    BY <1>1, <1>2 DEF IInv, Replaced, OldWorker, NewWorker, Alone, Ending, Untouched, At, Phase, Scope,
      NativelyUp
  <1>11. GatewayKept'
    BY <1>1, <1>2 DEF IInv, GatewayKept, Ending, Restored, Untouched, At, Phase, Scope
  <1>12. WorkerKept'
    BY <1>1, <1>2 DEF IInv, WorkerKept, Ending, Restored, Untouched, At, Phase, Scope
  <1> QED BY <1>3, <1>4, <1>5, <1>6, <1>7, <1>8, <1>9, <1>10, <1>11, <1>12 DEF IInv

LEMMA SealKeeps ==
  ASSUME IInv, Seal
  PROVE  IInv'
  <1>1. /\ ctl.pc = "seal" /\ ctl' \in Controllers
        /\ ctl'.mode = ctl.mode /\ ctl'.scope = ctl.scope /\ ctl'.prior = ctl.prior
        /\ ctl'.changed = ctl.changed /\ ctl'.stopping = ctl.stopping
        /\ ctl'.pc = "check" => ctl.stopping
        /\ ctl'.pc = "observe" => ~ctl.stopping /\ Scope = "worker"
        /\ ctl'.pc = "stopGateway" => ~ctl.stopping /\ Scope # "worker"
        /\ ctl'.pc \in {"check", "observe", "stopGateway"}
        /\ worker' \in Workers /\ worker'.state = worker.state /\ worker'.release = worker.release /\ worker'.hold = worker.hold
        /\ ~worker'.busy /\ worker.state = "ready"
        /\ worker'.lease = StartupHold(journal.id) /\ worker'.lease.sealed /\ worker'.lease.op # Other /\ worker'.lease.op = journal.id
    <2>1. journal.id \in Releases /\ journal.id # Other /\ journal.id # None /\ Scope \in {"worker", "gateway", "migration"}
      BY JournalIs, Bounds DEF Seal, At, IInv, TypeOK, Releases, Other, Scope
    <2>2. StartupHold(journal.id) \in Lease /\ StartupHold(journal.id).sealed
          /\ StartupHold(journal.id).op # Other /\ StartupHold(journal.id).op = journal.id
      BY <2>1 DEF StartupHold, Lease
    <2>3. worker.state = "ready" /\ worker \in Workers /\ ~worker.busy
      BY DEF Seal, CanSeal, Reachable, Serves, IInv, TypeOK
    <2>4. worker' = [worker EXCEPT !.lease = StartupHold(journal.id)]
      BY DEF Seal
    <2>5. (IF ctl.stopping THEN "check" ELSE FirstStop) \in PCs
      BY DEF FirstStop, PCs
    <2>6. ctl.pc = "seal" /\ Goto(IF ctl.stopping THEN "check" ELSE FirstStop) /\ ctl \in Controllers
      BY DEF Seal, At, IInv, TypeOK
    <2>7. ctl' \in Controllers /\ ctl'.pc = (IF ctl.stopping THEN "check" ELSE FirstStop)
          /\ ctl'.mode = ctl.mode /\ ctl'.scope = ctl.scope
          /\ ctl'.prior = ctl.prior /\ ctl'.changed = ctl.changed /\ ctl'.stopping = ctl.stopping
      BY <2>5, <2>6, Moves DEF Goto
    <2>8. worker' \in Workers /\ worker'.lease = StartupHold(journal.id) /\ ~worker'.busy
          /\ worker'.state = worker.state /\ worker'.release = worker.release /\ worker'.hold = worker.hold
      BY <2>2, <2>3, <2>4 DEF Workers
    <2> QED BY <2>1, <2>2, <2>3, <2>6, <2>7, <2>8 DEF FirstStop, StopGatewayFirst
  <1>2. UNCHANGED <<files, loaded, journal, gateway, used>>
    BY DEF Seal
  <1>3. TypeOK'
    BY <1>1, <1>2 DEF IInv, TypeOK
  <1>4. Planned'
    BY <1>1, <1>2 DEF IInv, Planned, At, Scope
  <1>5. Published'
    BY <1>1, <1>2 DEF IInv, Published, Scope, Phase
  <1>6. Course'
    BY <1>1, <1>2 DEF IInv, Course, Applying, Recovering, Undoing, At, Phase, Scope, Stopping, TypeOK,
      Controllers
  <1>7. Loaded'
    BY <1>1, <1>2 DEF IInv, Loaded, Phase
  <1>8. Admitted'
    BY <1>1, <1>2 DEF IInv, Admitted, Serving, InstalledPair, Phase
  <1>9. Sealed'
    BY <1>1, <1>2 DEF IInv, Sealed
  <1>10. Replaced'
    BY <1>1, <1>2 DEF IInv, Replaced, OldWorker, NewWorker, Alone, Ending, Untouched, At, Phase, Scope,
      NativelyUp
  <1>11. GatewayKept'
    BY <1>1, <1>2 DEF IInv, GatewayKept, Ending, Restored, Untouched, At, Phase, Scope
  <1>12. WorkerKept'
    BY <1>1, <1>2 DEF IInv, WorkerKept, Ending, Restored, Untouched, At, Phase, Scope
  <1> QED BY <1>3, <1>4, <1>5, <1>6, <1>7, <1>8, <1>9, <1>10, <1>11, <1>12 DEF IInv

LEMMA StopGatewayKeeps ==
  ASSUME IInv, StopGateway
  PROVE  IInv'
  <1>1. /\ ctl.pc = "stopGateway" /\ ctl' \in Controllers /\ ctl'.changed
        /\ ctl'.mode = ctl.mode /\ ctl'.scope = ctl.scope /\ ctl'.prior = ctl.prior
        /\ gateway' \in Gateways /\ gateway'.state = "stopped" /\ journal # None
        /\ \/ ctl'.pc = "observe" /\ ctl.mode = "apply" /\ Scope = "migration"
           \/ ctl'.pc = "publish" /\ ctl.mode = "apply" /\ Scope # "migration"
           \/ ctl'.pc = "rollback" /\ ctl.mode # "apply"
    BY DEF StopGateway, AfterStops, At, IInv, TypeOK, Controllers, PCs, Gateways
  <1>2. UNCHANGED <<files, loaded, journal, worker, used>>
    BY DEF StopGateway
  <1>3. TypeOK'
    BY <1>1, <1>2 DEF IInv, TypeOK
  <1>4. Planned'
    BY <1>1, <1>2 DEF IInv, Planned, At, Scope
  <1>5. Published'
    BY <1>1, <1>2 DEF IInv, Published, Scope, Phase
  <1>6. Course'
    BY <1>1, <1>2, JournalIs DEF IInv, Course, Applying, Recovering, Undoing, At, Phase, Scope,
      Stopping, TypeOK, Controllers
  <1>7. Loaded'
    BY <1>1, <1>2 DEF IInv, Loaded, Phase
  <1>8. Admitted'
    BY <1>1, <1>2 DEF IInv, Admitted, Serving, InstalledPair, Phase
  <1>9. Sealed'
    BY <1>1, <1>2 DEF IInv, Sealed
  <1>10. Replaced'
    BY <1>1, <1>2 DEF IInv, Replaced, OldWorker, NewWorker, Alone, Ending, Untouched, At, Phase, Scope,
      Course, Applying, Recovering, Undoing
  <1>11. GatewayKept'
    BY <1>1, <1>2 DEF IInv, GatewayKept, Ending, Restored, Untouched, At, Phase, Scope, Course,
      Applying, Recovering, Undoing, Stopping, TypeOK, Controllers, Planned
  <1>12. WorkerKept'
    BY <1>1, <1>2 DEF IInv, WorkerKept, Ending, Restored, Untouched, At, Phase, Scope, Course, Applying,
      Recovering, Undoing, Stopping, TypeOK, Controllers
  <1> QED BY <1>3, <1>4, <1>5, <1>6, <1>7, <1>8, <1>9, <1>10, <1>11, <1>12 DEF IInv

LEMMA KillKeeps ==
  ASSUME IInv, Kill
  PROVE  IInv'
  <1>1. /\ ctl.pc = "kill" /\ ctl' \in Controllers /\ ~ctl'.stopping /\ ctl'.changed = ctl.changed
        /\ ctl'.mode = ctl.mode /\ ctl'.scope = ctl.scope /\ ctl'.prior = ctl.prior
        /\ worker' \in Workers /\ worker'.state = "stopped" /\ journal # None
        /\ worker'.lease = NoLease /\ worker'.hold = None /\ ~worker'.busy /\ ~NoLease.sealed /\ ~NoLease.live
        /\ \/ ctl'.pc = "stopGateway" /\ ctl.mode = "recover" /\ Scope = "migration"
           \/ ctl'.pc = "publish" /\ ctl.mode = "apply"
           \/ ctl'.pc = "rollback" /\ ctl.mode # "apply"
    <2>1. worker \in Workers /\ ctl \in Controllers /\ NoLease \in Lease /\ ~NoLease.sealed /\ ~NoLease.live
      BY DEF IInv, TypeOK, NoLease, Lease
    <2>2. worker' \in Workers /\ worker'.state = "stopped" /\ worker'.lease = NoLease /\ worker'.hold = None /\ ~worker'.busy
      BY <2>1 DEF Kill, Down, Workers
    <2> QED BY <2>1, <2>2 DEF Kill, AfterStops, At, IInv, TypeOK, Controllers, PCs
  <1>2. UNCHANGED <<files, loaded, journal, gateway, used>>
    BY DEF Kill
  <1>3. TypeOK'
    BY <1>1, <1>2 DEF IInv, TypeOK
  <1>4. Planned'
    BY <1>1, <1>2 DEF IInv, Planned, At, Scope
  <1>5. Published'
    BY <1>1, <1>2 DEF IInv, Published, Scope, Phase
  <1>6. Course'
    BY <1>1, <1>2 DEF IInv, Course, Applying, Recovering, Undoing, At, Phase, Scope, Stopping, TypeOK,
      Controllers
  <1>7. Loaded'
    BY <1>1, <1>2 DEF IInv, Loaded, Phase
  <1>8. Admitted'
    BY <1>1, <1>2 DEF IInv, Admitted, Serving, InstalledPair, Phase
  <1>9. Sealed'
    BY <1>1, <1>2 DEF IInv, Sealed
  <1>10. Replaced'
    BY <1>1, <1>2 DEF IInv, Replaced, OldWorker, NewWorker, Alone, Ending, Untouched, At, Phase, Scope,
      NativelyUp, Course, Applying, Recovering, Undoing, Stopping
  <1>11. GatewayKept'
    BY <1>1, <1>2 DEF IInv, GatewayKept, Ending, Restored, Untouched, At, Phase, Scope, Course,
      Applying, Recovering, Undoing, Stopping, TypeOK, Controllers, Planned
  <1>12. WorkerKept'
    BY <1>1, <1>2 DEF IInv, WorkerKept, Ending, Restored, Untouched, At, Phase, Scope, Course, Applying,
      Recovering, Undoing, Stopping, TypeOK, Controllers, Planned
  <1> QED BY <1>3, <1>4, <1>5, <1>6, <1>7, <1>8, <1>9, <1>10, <1>11, <1>12 DEF IInv

-----------------------------------------------------------------------------
(* Publication and rollback                                                 *)

\* One file becomes that of the other generation.
LEMMA OneWritten ==
  ASSUME IInv, journal # None, NEW side \in {journal.before, journal.after}, WriteOne(side)
  PROVE  /\ files' \in Files
         /\ \A k \in {"worker", "gateway", "current", "layout"} :
              /\ files'[k] \in {journal.before[k], journal.after[k]}
              /\ k \notin Affected(Scope) => files'[k] = journal.before[k]
  <1>1. files \in Files /\ side \in Files
    BY JournalIs DEF IInv, TypeOK
  <1>2. Affected(Scope) \subseteq {"worker", "gateway", "current", "layout"}
    BY DEF Affected
  <1>3. PICK f \in Affected(Scope) : files' = [files EXCEPT ![f] = side[f]]
    BY DEF WriteOne, Unequal
  <1>4. \A k \in {"worker", "gateway", "current", "layout"} : files'[k] = IF k = f THEN side[f] ELSE files[k]
    BY <1>1, <1>2, <1>3 DEF Files
  <1>5. files' \in Files
    BY <1>1, <1>2, <1>3 DEF Files
  <1> QED BY <1>3, <1>4, <1>5 DEF IInv, Published

\* Files that are equal to one generation where the activation may write are that
\* generation.
LEMMA AllWritten ==
  ASSUME IInv, journal # None, NEW side \in {journal.before, journal.after}, Unequal(side) = {}
  PROVE  files = side
  <1>1. files \in Files /\ side \in Files /\ journal.before \in Files /\ journal.after \in Files
    BY JournalIs DEF IInv, TypeOK
  <1>2. \A k \in {"worker", "gateway", "current", "layout"} : k \notin Affected(Scope) => journal.after[k] = journal.before[k]
    <2>1. Scope \in {"worker", "gateway", "migration"}
      BY JournalIs DEF IInv, Scope
    <2>2. CASE Scope = "gateway"
      BY <2>2, Sides DEF Affected
    <2>3. CASE Scope = "worker"
      <3>1. \E w, g \in 0 .. (journal.id - 1) : journal.before = Generation(w, g)
        BY <2>3 DEF IInv, Planned
      <3>2. journal.before.current = journal.before.gateway
        BY <3>1 DEF Generation
      <3>3. journal.after.current = journal.after.gateway
        BY <2>3 DEF IInv, Planned, NextFiles, Generation
      <3> QED BY <2>3, <3>2, <3>3, Sides DEF Affected
    <2>4. CASE Scope = "migration"
      BY <2>4 DEF Affected
    <2> QED BY <2>1, <2>2, <2>3, <2>4
  <1>3. \A k \in {"worker", "gateway", "current", "layout"} : files[k] = side[k]
    BY <1>2 DEF Unequal, IInv, Published
  <1> QED BY <1>1, <1>3 DEF Files

LEMMA PublishKeeps ==
  ASSUME IInv, Publish
  PROVE  IInv'
  <1>1. /\ ctl.pc = "publish" /\ ctl' \in Controllers /\ journal # None
        /\ ctl'.pc = "write"
        /\ ctl'.mode = ctl.mode /\ ctl'.scope = ctl.scope /\ ctl'.prior = ctl.prior
        /\ ctl'.changed = ctl.changed /\ ctl'.stopping = ctl.stopping
        /\ journal' \in Journals /\ journal' # None /\ journal'.phase = "publishing"
        /\ journal'.id = journal.id /\ journal'.scope = journal.scope /\ journal'.prior = journal.prior
        /\ journal'.before = journal.before /\ journal'.after = journal.after
    <2>1. journal # None /\ journal \in Journals /\ ctl \in Controllers /\ ctl.pc = "publish"
      BY JournalIs DEF Publish, At, IInv, TypeOK
    <2>2. journal' = [journal EXCEPT !.phase = "publishing"]
      BY DEF Publish, SetPhase
    <2>3. journal' \in Journals /\ journal' # None /\ journal'.phase = "publishing" /\ journal'.id = journal.id /\ journal'.scope = journal.scope /\ journal'.prior = journal.prior
          /\ journal'.before = journal.before /\ journal'.after = journal.after
      BY <2>1, <2>2, Phases
    <2>4. ctl' \in Controllers /\ ctl'.pc = "write"
          /\ ctl'.mode = ctl.mode /\ ctl'.scope = ctl.scope /\ ctl'.prior = ctl.prior /\ ctl'.changed = ctl.changed /\ ctl'.stopping = ctl.stopping
      BY <2>1, Moves DEF Publish, Goto, PCs
    <2> QED BY <2>1, <2>3, <2>4
  <1>2. UNCHANGED <<files, loaded, worker, gateway, used>>
    BY DEF Publish
  <1>3. TypeOK'
    BY <1>1, <1>2 DEF IInv, TypeOK
  <1>4. Planned'
    BY <1>1, <1>2 DEF IInv, Planned, At, Scope, TypeOK
  <1>5. Published'
    BY <1>1, <1>2 DEF IInv, Published, Scope, Phase, TypeOK, Course, At, Applying, Recovering, Undoing,
      Stopping, Controllers
  <1>6. Course'
    BY <1>1, <1>2 DEF IInv, Course, Applying, Recovering, Undoing, At, Phase, Scope, Stopping, TypeOK,
      Controllers
  <1>7. Loaded'
    BY <1>1, <1>2 DEF IInv, Loaded, Phase, Course, At, Applying, Recovering, Undoing, Stopping, TypeOK,
      Controllers
  <1>8. Admitted'
    BY <1>1, <1>2 DEF IInv, Admitted, Serving, InstalledPair, Phase, Course, At, Applying, Recovering,
      Undoing, Stopping, TypeOK, Controllers
  <1>9. Sealed'
    BY <1>1, <1>2 DEF IInv, Sealed
  <1>10. Replaced'
    BY <1>1, <1>2 DEF IInv, Replaced, OldWorker, NewWorker, Alone, Ending, Untouched, At, Phase, Scope,
      Course, Applying, Recovering, Undoing, Stopping, TypeOK, Controllers
  <1>11. GatewayKept'
    BY <1>1, <1>2 DEF IInv, GatewayKept, Ending, Restored, Untouched, At, Phase, Scope, Course,
      Applying, Recovering, Undoing, Stopping, TypeOK, Controllers
  <1>12. WorkerKept'
    BY <1>1, <1>2 DEF IInv, WorkerKept, Ending, Restored, Untouched, At, Phase, Scope, Course, Applying,
      Recovering, Undoing, Stopping, TypeOK, Controllers
  <1> QED BY <1>3, <1>4, <1>5, <1>6, <1>7, <1>8, <1>9, <1>10, <1>11, <1>12 DEF IInv

LEMMA WriteFileKeeps ==
  ASSUME IInv, At("write"), WriteOne(journal.after),
         UNCHANGED <<loaded, journal, worker, gateway, ctl, used>>
  PROVE  IInv'
  <1>1. /\ ctl.pc = "write" /\ journal # None /\ files' \in Files
        /\ \A k \in {"worker", "gateway", "current", "layout"} :
           /\ files'[k] \in {journal.before[k], journal.after[k]}
           /\ k \notin Affected(Scope) => files'[k] = journal.before[k]
        /\ Phase = "publishing"
    BY OneWritten DEF At, IInv, TypeOK, Course, Applying, Recovering, Undoing, Controllers
  <1>2. UNCHANGED <<loaded, journal, worker, gateway, ctl, used>>
    OBVIOUS
  <1>3. TypeOK'
    BY <1>1, <1>2 DEF IInv, TypeOK
  <1>4. Planned'
    BY <1>1, <1>2 DEF IInv, Planned, At, Scope
  <1>5. Published'
    BY <1>1, <1>2 DEF IInv, Published, Scope, Phase
  <1>6. Course'
    BY <1>1, <1>2 DEF IInv, Course, Applying, Recovering, Undoing, At, Phase, Scope, Stopping
  <1>7. Loaded'
    BY <1>1, <1>2 DEF IInv, Loaded, Phase
  <1>8. Admitted'
    BY <1>1, <1>2 DEF IInv, Admitted, Serving, InstalledPair, Phase
  <1>9. Sealed'
    BY <1>1, <1>2 DEF IInv, Sealed
  <1>10. Replaced'
    BY <1>1, <1>2 DEF IInv, Replaced, OldWorker, NewWorker, Alone, Ending, Untouched, At, Phase, Scope
  <1>11. GatewayKept'
    BY <1>1, <1>2 DEF IInv, GatewayKept, Ending, Restored, Untouched, At, Phase, Scope
  <1>12. WorkerKept'
    BY <1>1, <1>2 DEF IInv, WorkerKept, Ending, Restored, Untouched, At, Phase, Scope
  <1> QED BY <1>3, <1>4, <1>5, <1>6, <1>7, <1>8, <1>9, <1>10, <1>11, <1>12 DEF IInv

LEMMA WriteDoneKeeps ==
  ASSUME IInv, At("write"), Unequal(journal.after) = {}, SetPhase("published"), Goto("reload"),
         UNCHANGED <<files, loaded, worker, gateway, used>>
  PROVE  IInv'
  <1>1. /\ ctl.pc = "write" /\ ctl' \in Controllers /\ journal # None
        /\ ctl'.pc = "reload"
        /\ ctl'.mode = ctl.mode /\ ctl'.scope = ctl.scope /\ ctl'.prior = ctl.prior
        /\ ctl'.changed = ctl.changed /\ ctl'.stopping = ctl.stopping
        /\ journal' \in Journals /\ journal' # None /\ journal'.phase = "published"
        /\ journal'.id = journal.id /\ journal'.scope = journal.scope /\ journal'.prior = journal.prior
        /\ journal'.before = journal.before /\ journal'.after = journal.after
        /\ files = journal.after
        /\ Phase = "publishing"
    <2>1. journal # None /\ journal \in Journals /\ ctl \in Controllers /\ ctl.pc = "write"
      BY JournalIs DEF At, IInv, TypeOK
    <2>2. journal' = [journal EXCEPT !.phase = "published"]
      BY DEF SetPhase
    <2>3. journal' \in Journals /\ journal' # None /\ journal'.phase = "published" /\ journal'.id = journal.id /\ journal'.scope = journal.scope /\ journal'.prior = journal.prior
          /\ journal'.before = journal.before /\ journal'.after = journal.after
      BY <2>1, <2>2, Phases
    <2>4. ctl' \in Controllers /\ ctl'.pc = "reload"
          /\ ctl'.mode = ctl.mode /\ ctl'.scope = ctl.scope /\ ctl'.prior = ctl.prior /\ ctl'.changed = ctl.changed /\ ctl'.stopping = ctl.stopping
      BY <2>1, Moves DEF Goto, PCs
    <2>5. files = journal.after
      BY <2>1, AllWritten
    <2>6. Phase = "publishing"
      BY <2>1 DEF IInv, Course, Applying, Recovering, Undoing, Controllers, At
    <2> QED BY <2>1, <2>3, <2>4, <2>5, <2>6
  <1>2. UNCHANGED <<files, loaded, worker, gateway, used>>
    OBVIOUS
  <1>3. TypeOK'
    BY <1>1, <1>2 DEF IInv, TypeOK
  <1>4. Planned'
    BY <1>1, <1>2 DEF IInv, Planned, At, Scope, TypeOK
  <1>5. Published'
    BY <1>1, <1>2 DEF IInv, Published, Scope, Phase, TypeOK
  <1>6. Course'
    BY <1>1, <1>2 DEF IInv, Course, Applying, Recovering, Undoing, At, Phase, Scope, Stopping, TypeOK,
      Controllers
  <1>7. Loaded'
    BY <1>1, <1>2 DEF IInv, Loaded, Phase, Course, At, Applying, Recovering, Undoing, Stopping, TypeOK,
      Controllers
  <1>8. Admitted'
    BY <1>1, <1>2 DEF IInv, Admitted, Serving, InstalledPair, Phase
  <1>9. Sealed'
    BY <1>1, <1>2 DEF IInv, Sealed
  <1>10. Replaced'
    BY <1>1, <1>2 DEF IInv, Replaced, OldWorker, NewWorker, Alone, Ending, Untouched, At, Phase, Scope,
      Course, Applying, Recovering, Undoing, Stopping, TypeOK, Controllers
  <1>11. GatewayKept'
    BY <1>1, <1>2 DEF IInv, GatewayKept, Ending, Restored, Untouched, At, Phase, Scope, Course,
      Applying, Recovering, Undoing, Stopping, TypeOK, Controllers
  <1>12. WorkerKept'
    BY <1>1, <1>2 DEF IInv, WorkerKept, Ending, Restored, Untouched, At, Phase, Scope, Course, Applying,
      Recovering, Undoing, Stopping, TypeOK, Controllers
  <1> QED BY <1>3, <1>4, <1>5, <1>6, <1>7, <1>8, <1>9, <1>10, <1>11, <1>12 DEF IInv

LEMMA WriteKeeps ==
  ASSUME IInv, Write
  PROVE  IInv'
  BY WriteFileKeeps, WriteDoneKeeps DEF Write

LEMMA RollbackKeeps ==
  ASSUME IInv, Rollback
  PROVE  IInv'
  <1>1. /\ ctl.pc = "rollback" /\ ctl' \in Controllers /\ journal # None
        /\ ctl'.pc = "unwrite"
        /\ ctl'.mode = ctl.mode /\ ctl'.scope = ctl.scope /\ ctl'.prior = ctl.prior
        /\ ctl'.changed = ctl.changed /\ ctl'.stopping = ctl.stopping
        /\ journal' \in Journals /\ journal' # None /\ journal'.phase = "rolling-back"
        /\ journal'.id = journal.id /\ journal'.scope = journal.scope /\ journal'.prior = journal.prior
        /\ journal'.before = journal.before /\ journal'.after = journal.after
        /\ Phase \notin {"committed", "rolled-back"}
    <2>1. journal # None /\ journal \in Journals /\ ctl \in Controllers /\ ctl.pc = "rollback"
      BY JournalIs DEF Rollback, At, IInv, TypeOK
    <2>2. journal' = [journal EXCEPT !.phase = "rolling-back"]
      BY DEF Rollback, SetPhase
    <2>3. journal' \in Journals /\ journal' # None /\ journal'.phase = "rolling-back" /\ journal'.id = journal.id /\ journal'.scope = journal.scope /\ journal'.prior = journal.prior
          /\ journal'.before = journal.before /\ journal'.after = journal.after
      BY <2>1, <2>2, Phases
    <2>4. ctl' \in Controllers /\ ctl'.pc = "unwrite"
          /\ ctl'.mode = ctl.mode /\ ctl'.scope = ctl.scope /\ ctl'.prior = ctl.prior /\ ctl'.changed = ctl.changed /\ ctl'.stopping = ctl.stopping
      BY <2>1, Moves DEF Rollback, Goto, PCs
    <2>5. Phase \notin {"committed", "rolled-back"}
      BY <2>1 DEF IInv, Course, Applying, Recovering, Undoing, Controllers, At
    <2> QED BY <2>1, <2>3, <2>4, <2>5
  <1>2. UNCHANGED <<files, loaded, worker, gateway, used>>
    BY DEF Rollback
  <1>3. TypeOK'
    BY <1>1, <1>2 DEF IInv, TypeOK
  <1>4. Planned'
    BY <1>1, <1>2 DEF IInv, Planned, At, Scope, TypeOK
  <1>5. Published'
    BY <1>1, <1>2 DEF IInv, Published, Scope, Phase, TypeOK, Course, At, Applying, Recovering, Undoing,
      Stopping, Controllers
  <1>6. Course'
    BY <1>1, <1>2 DEF IInv, Course, Applying, Recovering, Undoing, At, Phase, Scope, Stopping, TypeOK,
      Controllers
  <1>7. Loaded'
    BY <1>1, <1>2 DEF IInv, Loaded, Phase, Course, At, Applying, Recovering, Undoing, Stopping, TypeOK,
      Controllers
  <1>8. Admitted'
    BY <1>1, <1>2 DEF IInv, Admitted, Serving, InstalledPair, Phase, Course, At, Applying, Recovering,
      Undoing, Stopping, TypeOK, Controllers
  <1>9. Sealed'
    BY <1>1, <1>2 DEF IInv, Sealed
  <1>10. Replaced'
    <2>1. ctl.mode \in {"recover", "undo"}
      BY <1>1 DEF IInv, Course, Applying, TypeOK, Controllers, At
    <2>2. Alone => OldWorker /\ (worker.state # "stopped" => loaded.worker = journal.before.worker)
      <3>1. CASE ctl.mode = "recover"
        BY <1>1, <3>1 DEF IInv, Replaced, At, OldWorker, NativelyUp
      <3>2. CASE ctl.mode = "undo"
        <4>1. loaded.worker = journal.before.worker
          BY <1>1, <3>2 DEF IInv, Loaded, Units
        <4> QED BY <1>1, <3>2, <4>1 DEF IInv, Replaced, Alone, Untouched, At
      <3> QED BY <2>1, <3>1, <3>2
    <2> QED BY <1>1, <1>2, <2>1, <2>2 DEF IInv, Replaced, OldWorker, NewWorker, Alone, Ending, Untouched, At, Phase, Scope, NativelyUp
  <1>11. GatewayKept'
    BY <1>1, <1>2 DEF IInv, GatewayKept, Ending, Restored, Untouched, At, Phase, Scope, Course,
      Applying, Recovering, Undoing, Stopping, TypeOK, Controllers
  <1>12. WorkerKept'
    BY <1>1, <1>2 DEF IInv, WorkerKept, Ending, Restored, Untouched, At, Phase, Scope, Course, Applying,
      Recovering, Undoing, Stopping, TypeOK, Controllers
  <1> QED BY <1>3, <1>4, <1>5, <1>6, <1>7, <1>8, <1>9, <1>10, <1>11, <1>12 DEF IInv

LEMMA UnwriteFileKeeps ==
  ASSUME IInv, At("unwrite"), WriteOne(journal.before),
         UNCHANGED <<loaded, journal, worker, gateway, ctl, used>>
  PROVE  IInv'
  <1>1. /\ ctl.pc = "unwrite" /\ journal # None /\ files' \in Files
        /\ \A k \in {"worker", "gateway", "current", "layout"} :
           /\ files'[k] \in {journal.before[k], journal.after[k]}
           /\ k \notin Affected(Scope) => files'[k] = journal.before[k]
        /\ Phase = "rolling-back"
    BY OneWritten DEF At, IInv, TypeOK, Course
  <1>2. UNCHANGED <<loaded, journal, worker, gateway, ctl, used>>
    OBVIOUS
  <1>3. TypeOK'
    BY <1>1, <1>2 DEF IInv, TypeOK
  <1>4. Planned'
    BY <1>1, <1>2 DEF IInv, Planned, At, Scope
  <1>5. Published'
    BY <1>1, <1>2 DEF IInv, Published, Scope, Phase
  <1>6. Course'
    BY <1>1, <1>2 DEF IInv, Course, Applying, Recovering, Undoing, At, Phase, Scope, Stopping
  <1>7. Loaded'
    BY <1>1, <1>2 DEF IInv, Loaded, Phase
  <1>8. Admitted'
    BY <1>1, <1>2 DEF IInv, Admitted, Serving, InstalledPair, Phase
  <1>9. Sealed'
    BY <1>1, <1>2 DEF IInv, Sealed
  <1>10. Replaced'
    BY <1>1, <1>2 DEF IInv, Replaced, OldWorker, NewWorker, Alone, Ending, Untouched, At, Phase, Scope
  <1>11. GatewayKept'
    BY <1>1, <1>2 DEF IInv, GatewayKept, Ending, Restored, Untouched, At, Phase, Scope
  <1>12. WorkerKept'
    BY <1>1, <1>2 DEF IInv, WorkerKept, Ending, Restored, Untouched, At, Phase, Scope
  <1> QED BY <1>3, <1>4, <1>5, <1>6, <1>7, <1>8, <1>9, <1>10, <1>11, <1>12 DEF IInv

LEMMA UnwriteDoneKeeps ==
  ASSUME IInv, At("unwrite"), Unequal(journal.before) = {}, SetPhase("rolled-back"),
         Goto(IF ctl.mode = "recover" THEN "reload" ELSE IF OwnsHold THEN "release" ELSE "finish"),
         UNCHANGED <<files, loaded, worker, gateway, used>>
  PROVE  IInv'
  <1>1. /\ ctl.pc = "unwrite" /\ ctl' \in Controllers /\ journal # None
        /\ ctl'.pc \in {"reload", "release", "finish"}
        /\ ctl'.mode = ctl.mode /\ ctl'.scope = ctl.scope /\ ctl'.prior = ctl.prior
        /\ ctl'.changed = ctl.changed /\ ctl'.stopping = ctl.stopping
        /\ journal' \in Journals /\ journal' # None /\ journal'.phase = "rolled-back"
        /\ journal'.id = journal.id /\ journal'.scope = journal.scope /\ journal'.prior = journal.prior
        /\ journal'.before = journal.before /\ journal'.after = journal.after
        /\ files = journal.before
        /\ Phase = "rolling-back"
        /\ ctl.mode = "recover" => ctl'.pc = "reload"
        /\ ctl.mode # "recover" => ctl.mode = "undo" /\ ctl'.pc # "reload"
        /\ ctl'.pc = "release" => Scope = "worker" /\ journal.prior.worker = "running"
        /\ ctl'.pc = "finish" => ~OwnsHold
    <2>1. journal # None /\ journal \in Journals /\ ctl \in Controllers /\ ctl.pc = "unwrite"
      BY JournalIs DEF At, IInv, TypeOK
    <2>2. journal' = [journal EXCEPT !.phase = "rolled-back"]
      BY DEF SetPhase
    <2>3. journal' \in Journals /\ journal' # None /\ journal'.phase = "rolled-back" /\ journal'.id = journal.id /\ journal'.scope = journal.scope /\ journal'.prior = journal.prior
          /\ journal'.before = journal.before /\ journal'.after = journal.after
      BY <2>1, <2>2, Phases
    <2>4. (IF ctl.mode = "recover" THEN "reload" ELSE IF OwnsHold THEN "release" ELSE "finish") \in PCs
      BY DEF PCs
    <2>5. ctl' \in Controllers /\ ctl'.pc = (IF ctl.mode = "recover" THEN "reload" ELSE IF OwnsHold THEN "release" ELSE "finish")
          /\ ctl'.mode = ctl.mode /\ ctl'.scope = ctl.scope /\ ctl'.prior = ctl.prior /\ ctl'.changed = ctl.changed /\ ctl'.stopping = ctl.stopping
      BY <2>1, <2>4, Moves DEF Goto
    <2>6. files = journal.before
      BY <2>1, AllWritten
    <2>7. Phase = "rolling-back" /\ (ctl.mode # "recover" => ctl.mode = "undo")
      BY <2>1 DEF IInv, Course, Applying, Recovering, Undoing, Controllers, At
    <2>8. OwnsHold => Scope = "worker" /\ journal.prior.worker = "running"
      BY <2>1, JournalIs DEF OwnsHold, IInv, Planned, Scope
    <2> QED BY <2>1, <2>3, <2>5, <2>6, <2>7, <2>8
  <1>2. UNCHANGED <<files, loaded, worker, gateway, used>>
    OBVIOUS
  <1>3. TypeOK'
    BY <1>1, <1>2 DEF IInv, TypeOK
  <1>4. Planned'
    BY <1>1, <1>2 DEF IInv, Planned, At, Scope, TypeOK
  <1>5. Published'
    BY <1>1, <1>2 DEF IInv, Published, Scope, Phase, TypeOK
  <1>6. Course'
    BY <1>1, <1>2 DEF IInv, Course, Applying, Recovering, Undoing, At, Phase, Scope, Stopping, TypeOK,
      Controllers
  <1>7. Loaded'
    BY <1>1, <1>2 DEF IInv, Loaded, Phase, Course, At, Applying, Recovering, Undoing, Stopping, TypeOK,
      Controllers
  <1>8. Admitted'
    BY <1>1, <1>2 DEF IInv, Admitted, Serving, InstalledPair, Phase
  <1>9. Sealed'
    BY <1>1, <1>2 DEF IInv, Sealed
  <1>10. Replaced'
    BY <1>1, <1>2 DEF IInv, Replaced, OldWorker, NewWorker, Alone, Ending, Untouched, At, Phase, Scope,
      Course, Applying, Recovering, Undoing, Stopping, TypeOK, Controllers
  <1>11. GatewayKept'
    BY <1>1, <1>2 DEF IInv, GatewayKept, Ending, Restored, Untouched, At, Phase, Scope, Course,
      Applying, Recovering, Undoing, Stopping, TypeOK, Controllers
  <1>12. WorkerKept'
    BY <1>1, <1>2 DEF IInv, WorkerKept, Ending, Restored, Untouched, At, Phase, Scope, Course, Applying,
      Recovering, Undoing, Stopping, TypeOK, Controllers
  <1> QED BY <1>3, <1>4, <1>5, <1>6, <1>7, <1>8, <1>9, <1>10, <1>11, <1>12 DEF IInv

LEMMA UnwriteKeeps ==
  ASSUME IInv, Unwrite
  PROVE  IInv'
  BY UnwriteFileKeeps, UnwriteDoneKeeps DEF Unwrite

LEMMA CommitKeeps ==
  ASSUME IInv, Commit
  PROVE  IInv'
  <1>1. /\ ctl.pc = "commit" /\ ctl' \in Controllers /\ journal # None
        /\ ctl'.pc \in {"release", "finish"}
        /\ ctl'.mode = ctl.mode /\ ctl'.scope = ctl.scope /\ ctl'.prior = ctl.prior
        /\ ctl'.changed = ctl.changed /\ ctl'.stopping = ctl.stopping
        /\ journal' \in Journals /\ journal' # None /\ journal'.phase = "committed"
        /\ journal'.id = journal.id /\ journal'.scope = journal.scope /\ journal'.prior = journal.prior
        /\ journal'.before = journal.before /\ journal'.after = journal.after
        /\ Phase = "published" /\ files = journal.after /\ ctl.mode = "apply"
        /\ ctl'.pc = "release" => Scope # "gateway"
        /\ ctl'.pc = "finish" => Scope = "gateway"
    <2>1. journal # None /\ journal \in Journals /\ ctl \in Controllers /\ ctl.pc = "commit"
      BY JournalIs DEF Commit, At, IInv, TypeOK
    <2>2. journal' = [journal EXCEPT !.phase = "committed"]
      BY DEF Commit, SetPhase
    <2>3. journal' \in Journals /\ journal' # None /\ journal'.phase = "committed" /\ journal'.id = journal.id /\ journal'.scope = journal.scope /\ journal'.prior = journal.prior
          /\ journal'.before = journal.before /\ journal'.after = journal.after
      BY <2>1, <2>2, Phases
    <2>4. (IF Scope = "gateway" THEN "finish" ELSE "release") \in PCs
      BY DEF PCs
    <2>5. ctl' \in Controllers /\ ctl'.pc = (IF Scope = "gateway" THEN "finish" ELSE "release")
          /\ ctl'.mode = ctl.mode /\ ctl'.scope = ctl.scope /\ ctl'.prior = ctl.prior /\ ctl'.changed = ctl.changed /\ ctl'.stopping = ctl.stopping
      BY <2>1, <2>4, Moves DEF Commit, Goto
    <2>6. Phase = "published" /\ files = journal.after
      BY DEF Commit, CanCommit
    <2>7. ctl.mode = "apply"
      BY <2>1 DEF IInv, Course, Applying, Recovering, Undoing, Controllers, At
    <2> QED BY <2>1, <2>3, <2>5, <2>6, <2>7
  <1>2. UNCHANGED <<files, loaded, worker, gateway, used>>
    BY DEF Commit
  <1>3. TypeOK'
    BY <1>1, <1>2 DEF IInv, TypeOK
  <1>4. Planned'
    BY <1>1, <1>2 DEF IInv, Planned, At, Scope, TypeOK
  <1>5. Published'
    BY <1>1, <1>2 DEF IInv, Published, Scope, Phase, TypeOK
  <1>6. Course'
    BY <1>1, <1>2 DEF IInv, Course, Applying, Recovering, Undoing, At, Phase, Scope, Stopping, TypeOK,
      Controllers
  <1>7. Loaded'
    BY <1>1, <1>2 DEF IInv, Loaded, Phase
  <1>8. Admitted'
    <2>1. InstalledPair' = journal.after.layout /\ InstalledPair' # None
      BY <1>1, <1>2, Sides DEF InstalledPair, Phase
    <2>2. Scope # "gateway" => (NativelyUp(worker) => worker.release = journal.after.layout.worker)
      BY <1>1, Sides DEF IInv, Replaced, NewWorker, Ending
    <2>3. Scope = "gateway" => (Serving => worker.release = journal.after.layout.worker)
      BY <1>1, Sides DEF Serving, InstalledPair, Phase
    <2>4. worker.release = journal.after.layout.worker => Serving'
      BY <1>2, <2>1 DEF Serving
    <2>5. /\ worker.state = "ready" /\ (~worker.lease.sealed \/ worker.lease.op = Other) => worker.release = journal.after.layout.worker
          /\ worker.state = "booting" /\ worker.hold = None => worker.release = journal.after.layout.worker
      BY <2>2, <2>3 DEF IInv, Admitted, NativelyUp
    <2> QED BY <1>2, <2>4, <2>5 DEF IInv, Admitted
  <1>9. Sealed'
    BY <1>1, <1>2 DEF IInv, Sealed
  <1>10. Replaced'
    BY <1>1, <1>2 DEF IInv, Replaced, OldWorker, NewWorker, Alone, Ending, Untouched, At, Phase, Scope,
      Course, Applying, Recovering, Undoing, Stopping, TypeOK, Controllers
  <1>11. GatewayKept'
    BY <1>1, <1>2 DEF IInv, GatewayKept, Ending, Restored, Untouched, At, Phase, Scope, Course,
      Applying, Recovering, Undoing, Stopping, TypeOK, Controllers
  <1>12. WorkerKept'
    BY <1>1, <1>2 DEF IInv, WorkerKept, Ending, Restored, Untouched, At, Phase, Scope, Course, Applying,
      Recovering, Undoing, Stopping, TypeOK, Controllers
  <1> QED BY <1>3, <1>4, <1>5, <1>6, <1>7, <1>8, <1>9, <1>10, <1>11, <1>12 DEF IInv

LEMMA FinishKeeps ==
  ASSUME IInv, Finish
  PROVE  IInv'
  <1>1. /\ ctl.pc = "finish" /\ journal # None /\ journal' = None
        /\ ctl' \in Controllers /\ ctl'.mode = "none" /\ ctl'.pc = "idle" /\ ~ctl'.stopping
        /\ \/ Phase = "committed" /\ files = journal.after
           \/ Phase = "rolled-back" /\ files = journal.before
    BY DEF Finish, CanFinish, Idle, At, IInv, TypeOK, Controllers, PCs, Prior
  <1>2. UNCHANGED <<files, loaded, worker, gateway, used>>
    BY DEF Finish
  <1>3. TypeOK'
    BY <1>1, <1>2 DEF IInv, TypeOK
  <1>4. Planned'
    BY <1>1, <1>2 DEF IInv, Planned, At, Scope
  <1>5. Published'
    <2>1. journal.id = used.activations /\ used.activations \in Nat /\ journal.id > 0
      BY <1>1 DEF IInv, Planned, TypeOK
    <2>2. CASE Scope = "migration"
      BY <1>1, <1>2, <2>1, <2>2 DEF Published, Settled, IInv, Planned, NextFiles
    <2>3. CASE Scope # "migration"
      <3>1. PICK w, g \in 0 .. (journal.id - 1) : journal.before = Generation(w, g)
        BY <1>1, <2>3 DEF IInv, Planned
      <3>2. journal.before.layout.worker = w /\ journal.before.layout.gateway = g
        BY <3>1 DEF Generation
      <3>3. w \in 0 .. used.activations /\ g \in 0 .. used.activations /\ journal.id \in 0 .. used.activations
        BY <2>1
      <3>4. journal.after \in {Generation(w, journal.id), Generation(journal.id, g)}
        BY <1>1, <2>3, <3>2, JournalIs DEF IInv, Planned, NextFiles, Scope
      <3> QED BY <1>1, <1>2, <3>1, <3>3, <3>4 DEF Published, Settled
    <2> QED BY <2>2, <2>3
  <1>6. Course'
    BY <1>1, <1>2 DEF IInv, Course, Applying, Recovering, Undoing, At, Phase, Scope, Stopping
  <1>7. Loaded'
    BY <1>1, <1>2 DEF IInv, Loaded, Phase, At
  <1>8. Admitted'
    BY <1>1, <1>2, Sides DEF IInv, Admitted, Serving, InstalledPair, Phase
  <1>9. Sealed'
    BY <1>1, <1>2 DEF IInv, Sealed
  <1>10. Replaced'
    BY <1>1, <1>2 DEF IInv, Replaced, OldWorker, NewWorker, Alone, Ending, Untouched, At, Phase, Scope
  <1>11. GatewayKept'
    BY <1>1, <1>2 DEF IInv, GatewayKept, Ending, Restored, Untouched, At, Phase, Scope
  <1>12. WorkerKept'
    BY <1>1, <1>2 DEF IInv, WorkerKept, Ending, Restored, Untouched, At, Phase, Scope
  <1> QED BY <1>3, <1>4, <1>5, <1>6, <1>7, <1>8, <1>9, <1>10, <1>11, <1>12 DEF IInv

-----------------------------------------------------------------------------
(* Starting the new services, or restoring the old ones                     *)

LEMMA Starts ==
  ASSUME TypeOK, NEW next, next \in {Start(worker), worker}
  PROVE  /\ next \in Workers
         /\ next = Start(worker) => next.state # "stopped"
         /\ \/ next = worker
            \/ /\ worker.state = "stopped" /\ next = Start(worker) /\ next.state = "starting"
               /\ next.lease = NoLease /\ ~next.lease.sealed /\ next.hold = None /\ ~next.busy
  <1>1. worker \in Workers /\ NoLease \in Lease /\ ~NoLease.sealed
    BY DEF TypeOK, NoLease, Lease
  <1>2. CASE worker.state # "stopped"
    BY <1>1, <1>2 DEF Start
  <1>3. CASE worker.state = "stopped"
    <2>1. /\ Start(worker) \in Workers /\ Start(worker).state = "starting" /\ Start(worker).lease = NoLease
          /\ Start(worker).hold = None /\ ~Start(worker).busy
      BY <1>1, <1>3 DEF Start, Down, Workers
    <2> QED BY <1>1, <1>3, <2>1
  <1> QED BY <1>2, <1>3

LEMMA StartsGateway ==
  ASSUME TypeOK
  PROVE  /\ StartGatewayJob \in Gateways /\ StartGatewayJob.state # "stopped"
         /\ gateway.state # "stopped" => StartGatewayJob = gateway
  BY DEF TypeOK, Gateways, StartGatewayJob

LEMMA ReloadKeeps ==
  ASSUME IInv, Reload
  PROVE  IInv'
  <1>1. /\ ctl.pc = "reload" /\ ctl' \in Controllers /\ journal # None
        /\ ctl'.mode = ctl.mode /\ ctl'.scope = ctl.scope /\ ctl'.prior = ctl.prior
        /\ ctl'.changed = ctl.changed /\ ctl'.stopping = ctl.stopping
        /\ \/ /\ ctl.mode = "apply" /\ Phase = "published" /\ files = journal.after
              /\ ctl'.pc = IF Scope = "gateway" THEN "startGateway" ELSE "startWorker"
           \/ /\ ctl.mode = "recover" /\ Phase = "rolled-back" /\ files = journal.before
              /\ ctl'.pc = IF Scope = "gateway" THEN "restoreGateway" ELSE "restoreWorker"
        /\ loaded' = Units(files) /\ loaded' \in [worker : Configured, gateway : Configured]
    <2> DEFINE pc == IF ctl.mode = "apply"
                     THEN IF Scope = "gateway" THEN "startGateway" ELSE "startWorker"
                     ELSE IF Scope = "gateway" THEN "restoreGateway" ELSE "restoreWorker"
    <2>1. journal # None /\ ctl \in Controllers /\ ctl.pc = "reload"
      BY DEF Reload, At, IInv, TypeOK
    <2>2. pc \in PCs
      BY DEF PCs
    <2>3. ctl' = [ctl EXCEPT !.pc = pc]
      BY DEF Reload, Goto
    <2>4. ctl' \in Controllers /\ ctl'.pc = pc
          /\ ctl'.mode = ctl.mode /\ ctl'.scope = ctl.scope /\ ctl'.prior = ctl.prior /\ ctl'.changed = ctl.changed /\ ctl'.stopping = ctl.stopping
      <3> HIDE DEF pc
      <3> QED BY <2>1, <2>2, <2>3, Moves
    <2>5. \/ ctl.mode = "apply" /\ Phase = "published"
          \/ ctl.mode = "recover" /\ Phase = "rolled-back"
      BY <2>1 DEF IInv, Course, Applying, Recovering, Undoing, Controllers, At
    <2>6. loaded' = Units(files) /\ loaded' \in [worker : Configured, gateway : Configured]
      BY DEF Reload, Units, IInv, TypeOK, Files
    <2>7. \/ Phase = "published" /\ files = journal.after
          \/ Phase = "rolled-back" /\ files = journal.before
      BY <2>1, <2>5 DEF IInv, Published
    <2> QED BY <2>1, <2>4, <2>5, <2>6, <2>7
  <1>2. UNCHANGED <<files, journal, worker, gateway, used>>
    BY DEF Reload
  <1>3. TypeOK'
    BY <1>1, <1>2 DEF IInv, TypeOK
  <1>4. Planned'
    BY <1>1, <1>2 DEF IInv, Planned, At, Scope
  <1>5. Published'
    BY <1>1, <1>2 DEF IInv, Published, Scope, Phase
  <1>6. Course'
    BY <1>1, <1>2 DEF IInv, Course, Applying, Recovering, Undoing, At, Phase, Scope, Stopping, TypeOK,
      Controllers
  <1>7. Loaded'
    BY <1>1, <1>2 DEF IInv, Loaded, Phase
  <1>8. Admitted'
    BY <1>1, <1>2 DEF IInv, Admitted, Serving, InstalledPair, Phase
  <1>9. Sealed'
    BY <1>1, <1>2 DEF IInv, Sealed
  <1>10. Replaced'
    BY <1>1, <1>2 DEF IInv, Replaced, OldWorker, NewWorker, Alone, Ending, Untouched, At, Phase, Scope,
      Units
  <1>11. GatewayKept'
    BY <1>1, <1>2 DEF IInv, GatewayKept, Ending, Restored, Untouched, At, Phase, Scope
  <1>12. WorkerKept'
    BY <1>1, <1>2 DEF IInv, WorkerKept, Ending, Restored, Untouched, At, Phase, Scope
  <1> QED BY <1>3, <1>4, <1>5, <1>6, <1>7, <1>8, <1>9, <1>10, <1>11, <1>12 DEF IInv

LEMMA StartWorkerKeeps ==
  ASSUME IInv, StartWorker
  PROVE  IInv'
  <1>1. /\ ctl.pc = "startWorker" /\ ctl' \in Controllers /\ journal # None
        /\ ctl'.mode = ctl.mode /\ ctl'.scope = ctl.scope /\ ctl'.prior = ctl.prior
        /\ ctl'.changed = ctl.changed /\ ctl'.stopping = ctl.stopping
        /\ ctl'.pc = IF Scope = "migration" THEN "startGateway" ELSE "wait"
        /\ worker' \in Workers
        /\ \/ worker' = worker
           \/ /\ worker.state = "stopped" /\ worker'.state = "starting" /\ worker'.lease = NoLease
              /\ ~worker'.lease.sealed /\ worker'.hold = None /\ ~worker'.busy
        /\ worker'.state # "stopped"
    <2>1. journal # None /\ ctl \in Controllers /\ ctl.pc = "startWorker"
      BY DEF StartWorker, At, IInv, TypeOK
    <2>2. (IF Scope = "migration" THEN "startGateway" ELSE "wait") \in PCs
      BY DEF PCs
    <2>3. ctl' \in Controllers /\ ctl'.pc = (IF Scope = "migration" THEN "startGateway" ELSE "wait")
          /\ ctl'.mode = ctl.mode /\ ctl'.scope = ctl.scope /\ ctl'.prior = ctl.prior /\ ctl'.changed = ctl.changed /\ ctl'.stopping = ctl.stopping
      BY <2>1, <2>2, Moves DEF StartWorker, Goto
    <2>4. worker' \in Workers /\ (worker' = Start(worker) => worker'.state # "stopped")
          /\ \/ worker' = worker
             \/ /\ worker.state = "stopped" /\ worker'.state = "starting" /\ worker'.lease = NoLease
                /\ ~worker'.lease.sealed /\ worker'.hold = None /\ ~worker'.busy
      BY Starts DEF StartWorker, IInv
    <2> QED BY <2>1, <2>3, <2>4 DEF StartWorker
  <1>2. UNCHANGED <<files, loaded, journal, gateway, used>>
    BY DEF StartWorker
  <1>3. TypeOK'
    BY <1>1, <1>2 DEF IInv, TypeOK
  <1>4. Planned'
    BY <1>1, <1>2 DEF IInv, Planned, At, Scope
  <1>5. Published'
    BY <1>1, <1>2 DEF IInv, Published, Scope, Phase
  <1>6. Course'
    BY <1>1, <1>2 DEF IInv, Course, Applying, Recovering, Undoing, At, Phase, Scope, Stopping, TypeOK,
      Controllers
  <1>7. Loaded'
    BY <1>1, <1>2 DEF IInv, Loaded, Phase, Course, At, Applying, Recovering, Undoing, Stopping, TypeOK,
      Controllers
  <1>8. Admitted'
    BY <1>1, <1>2 DEF IInv, Admitted, Serving, InstalledPair, Phase
  <1>9. Sealed'
    BY <1>1, <1>2 DEF IInv, Sealed
  <1>10. Replaced'
    BY <1>1, <1>2 DEF IInv, Replaced, OldWorker, NewWorker, Alone, Ending, Untouched, At, Phase, Scope,
      NativelyUp, Course, Applying, Recovering, Undoing, Stopping, TypeOK, Controllers
  <1>11. GatewayKept'
    BY <1>1, <1>2 DEF IInv, GatewayKept, Ending, Restored, Untouched, At, Phase, Scope, Course,
      Applying, Recovering, Undoing, Stopping, TypeOK, Controllers
  <1>12. WorkerKept'
    BY <1>1, <1>2 DEF IInv, WorkerKept, Ending, Restored, Untouched, At, Phase, Scope, Course, Applying,
      Recovering, Undoing, Stopping, TypeOK, Controllers
  <1> QED BY <1>3, <1>4, <1>5, <1>6, <1>7, <1>8, <1>9, <1>10, <1>11, <1>12 DEF IInv

LEMMA StartGatewayKeeps ==
  ASSUME IInv, StartGateway
  PROVE  IInv'
  <1>1. /\ ctl.pc = "startGateway" /\ ctl' \in Controllers /\ journal # None
        /\ ctl'.mode = ctl.mode /\ ctl'.scope = ctl.scope /\ ctl'.prior = ctl.prior
        /\ ctl'.changed = ctl.changed /\ ctl'.stopping = ctl.stopping
        /\ ctl'.pc = "wait"
        /\ gateway' \in Gateways
        /\ gateway.state # "stopped" => gateway' = gateway
        /\ gateway'.state # "stopped"
    <2>1. journal # None /\ ctl \in Controllers /\ ctl.pc = "startGateway"
      BY DEF StartGateway, At, IInv, TypeOK
    <2>2. ("wait") \in PCs
      BY DEF PCs
    <2>3. ctl' \in Controllers /\ ctl'.pc = ("wait")
          /\ ctl'.mode = ctl.mode /\ ctl'.scope = ctl.scope /\ ctl'.prior = ctl.prior /\ ctl'.changed = ctl.changed /\ ctl'.stopping = ctl.stopping
      BY <2>1, <2>2, Moves DEF StartGateway, Goto
    <2>4. gateway' \in Gateways /\ (gateway.state # "stopped" => gateway' = gateway)
          /\ (gateway' = StartGatewayJob => gateway'.state # "stopped")
      BY StartsGateway DEF StartGateway, IInv, TypeOK
    <2> QED BY <2>1, <2>3, <2>4 DEF StartGateway
  <1>2. UNCHANGED <<files, loaded, journal, worker, used>>
    BY DEF StartGateway
  <1>3. TypeOK'
    BY <1>1, <1>2 DEF IInv, TypeOK
  <1>4. Planned'
    BY <1>1, <1>2 DEF IInv, Planned, At, Scope
  <1>5. Published'
    BY <1>1, <1>2 DEF IInv, Published, Scope, Phase
  <1>6. Course'
    BY <1>1, <1>2 DEF IInv, Course, Applying, Recovering, Undoing, At, Phase, Scope, Stopping, TypeOK,
      Controllers
  <1>7. Loaded'
    BY <1>1, <1>2 DEF IInv, Loaded, Phase, Course, At, Applying, Recovering, Undoing, Stopping, TypeOK,
      Controllers
  <1>8. Admitted'
    BY <1>1, <1>2 DEF IInv, Admitted, Serving, InstalledPair, Phase
  <1>9. Sealed'
    BY <1>1, <1>2 DEF IInv, Sealed
  <1>10. Replaced'
    BY <1>1, <1>2 DEF IInv, Replaced, OldWorker, NewWorker, Alone, Ending, Untouched, At, Phase, Scope,
      Course, Applying, Recovering, Undoing, Stopping, TypeOK, Controllers
  <1>11. GatewayKept'
    BY <1>1, <1>2 DEF IInv, GatewayKept, Ending, Restored, Untouched, At, Phase, Scope, Course,
      Applying, Recovering, Undoing, Stopping, TypeOK, Controllers
  <1>12. WorkerKept'
    BY <1>1, <1>2 DEF IInv, WorkerKept, Ending, Restored, Untouched, At, Phase, Scope, Course, Applying,
      Recovering, Undoing, Stopping, TypeOK, Controllers
  <1> QED BY <1>3, <1>4, <1>5, <1>6, <1>7, <1>8, <1>9, <1>10, <1>11, <1>12 DEF IInv

LEMMA RestoreWorkerKeeps ==
  ASSUME IInv, RestoreWorker
  PROVE  IInv'
  <1>1. /\ ctl.pc = "restoreWorker" /\ ctl' \in Controllers /\ journal # None
        /\ ctl'.mode = ctl.mode /\ ctl'.scope = ctl.scope /\ ctl'.prior = ctl.prior
        /\ ctl'.changed = ctl.changed /\ ctl'.stopping = ctl.stopping
        /\ ctl'.pc = IF Scope = "migration" THEN "restoreGateway" ELSE "settle"
        /\ worker' \in Workers
        /\ \/ worker' = worker
           \/ /\ worker.state = "stopped" /\ worker'.state = "starting" /\ worker'.lease = NoLease
              /\ ~worker'.lease.sealed /\ worker'.hold = None /\ ~worker'.busy
        /\ journal.prior.worker = "running" => worker'.state # "stopped"
        /\ journal.prior.worker # "running" => worker' = worker
        /\ ctl.mode = "recover" /\ Phase = "rolled-back"
    <2>1. journal # None /\ ctl \in Controllers /\ ctl.pc = "restoreWorker"
      BY DEF RestoreWorker, At, IInv, TypeOK
    <2>2. (IF Scope = "migration" THEN "restoreGateway" ELSE "settle") \in PCs
      BY DEF PCs
    <2>3. ctl' \in Controllers /\ ctl'.pc = (IF Scope = "migration" THEN "restoreGateway" ELSE "settle")
          /\ ctl'.mode = ctl.mode /\ ctl'.scope = ctl.scope /\ ctl'.prior = ctl.prior /\ ctl'.changed = ctl.changed /\ ctl'.stopping = ctl.stopping
      BY <2>1, <2>2, Moves DEF RestoreWorker, Goto
    <2>4. worker' \in Workers /\ (worker' = Start(worker) => worker'.state # "stopped")
          /\ \/ worker' = worker
             \/ /\ worker.state = "stopped" /\ worker'.state = "starting" /\ worker'.lease = NoLease
                /\ ~worker'.lease.sealed /\ worker'.hold = None /\ ~worker'.busy
      BY Starts DEF RestoreWorker, IInv
    <2>5. ctl.mode = "recover" /\ Phase = "rolled-back"
      BY <2>1 DEF IInv, Course, Applying, Recovering, Undoing, Controllers, At
    <2> QED BY <2>1, <2>3, <2>4, <2>5 DEF RestoreWorker
  <1>2. UNCHANGED <<files, loaded, journal, gateway, used>>
    BY DEF RestoreWorker
  <1>3. TypeOK'
    BY <1>1, <1>2 DEF IInv, TypeOK
  <1>4. Planned'
    BY <1>1, <1>2 DEF IInv, Planned, At, Scope
  <1>5. Published'
    BY <1>1, <1>2 DEF IInv, Published, Scope, Phase
  <1>6. Course'
    BY <1>1, <1>2 DEF IInv, Course, Applying, Recovering, Undoing, At, Phase, Scope, Stopping, TypeOK,
      Controllers
  <1>7. Loaded'
    BY <1>1, <1>2 DEF IInv, Loaded, Phase, Course, At, Applying, Recovering, Undoing, Stopping, TypeOK,
      Controllers
  <1>8. Admitted'
    BY <1>1, <1>2 DEF IInv, Admitted, Serving, InstalledPair, Phase
  <1>9. Sealed'
    BY <1>1, <1>2 DEF IInv, Sealed
  <1>10. Replaced'
    BY <1>1, <1>2 DEF IInv, Replaced, OldWorker, NewWorker, Alone, Ending, Untouched, At, Phase, Scope,
      Units, NativelyUp, Loaded, Course, Applying, Recovering, Undoing, Stopping, TypeOK, Controllers
  <1>11. GatewayKept'
    BY <1>1, <1>2, JournalIs DEF IInv, GatewayKept, Ending, Restored, Untouched, At, Phase, Scope,
      Course
  <1>12. WorkerKept'
    BY <1>1, <1>2 DEF IInv, WorkerKept, Ending, Restored, Untouched, At, Phase, Scope, Planned, Course,
      Applying, Recovering, Undoing, Stopping, TypeOK, Controllers
  <1> QED BY <1>3, <1>4, <1>5, <1>6, <1>7, <1>8, <1>9, <1>10, <1>11, <1>12 DEF IInv

LEMMA RestoreGatewayKeeps ==
  ASSUME IInv, RestoreGateway
  PROVE  IInv'
  <1>1. /\ ctl.pc = "restoreGateway" /\ ctl' \in Controllers /\ journal # None
        /\ ctl'.mode = ctl.mode /\ ctl'.scope = ctl.scope /\ ctl'.prior = ctl.prior
        /\ ctl'.changed = ctl.changed /\ ctl'.stopping = ctl.stopping
        /\ ctl'.pc = "settle"
        /\ gateway' \in Gateways
        /\ gateway.state # "stopped" => gateway' = gateway
        /\ journal.prior.gateway = "running" => gateway'.state # "stopped"
        /\ ctl.mode = "recover" /\ Phase = "rolled-back" /\ Scope # "worker"
    <2>1. journal # None /\ ctl \in Controllers /\ ctl.pc = "restoreGateway"
      BY DEF RestoreGateway, At, IInv, TypeOK
    <2>2. ("settle") \in PCs
      BY DEF PCs
    <2>3. ctl' \in Controllers /\ ctl'.pc = ("settle")
          /\ ctl'.mode = ctl.mode /\ ctl'.scope = ctl.scope /\ ctl'.prior = ctl.prior /\ ctl'.changed = ctl.changed /\ ctl'.stopping = ctl.stopping
      BY <2>1, <2>2, Moves DEF RestoreGateway, Goto
    <2>4. gateway' \in Gateways /\ (gateway.state # "stopped" => gateway' = gateway)
          /\ (gateway' = StartGatewayJob => gateway'.state # "stopped")
      BY StartsGateway DEF RestoreGateway, IInv, TypeOK
    <2>5. ctl.mode = "recover" /\ Phase = "rolled-back" /\ Scope # "worker"
      BY <2>1 DEF IInv, Course, Applying, Recovering, Undoing, Controllers, At
    <2> QED BY <2>1, <2>3, <2>4, <2>5 DEF RestoreGateway
  <1>2. UNCHANGED <<files, loaded, journal, worker, used>>
    BY DEF RestoreGateway
  <1>3. TypeOK'
    BY <1>1, <1>2 DEF IInv, TypeOK
  <1>4. Planned'
    BY <1>1, <1>2 DEF IInv, Planned, At, Scope
  <1>5. Published'
    BY <1>1, <1>2 DEF IInv, Published, Scope, Phase
  <1>6. Course'
    BY <1>1, <1>2 DEF IInv, Course, Applying, Recovering, Undoing, At, Phase, Scope, Stopping, TypeOK,
      Controllers
  <1>7. Loaded'
    BY <1>1, <1>2 DEF IInv, Loaded, Phase, Course, At, Applying, Recovering, Undoing, Stopping, TypeOK,
      Controllers
  <1>8. Admitted'
    BY <1>1, <1>2 DEF IInv, Admitted, Serving, InstalledPair, Phase
  <1>9. Sealed'
    BY <1>1, <1>2 DEF IInv, Sealed
  <1>10. Replaced'
    BY <1>1, <1>2 DEF IInv, Replaced, OldWorker, NewWorker, Alone, Ending, Untouched, At, Phase, Scope,
      Course, Applying, Recovering, Undoing, Stopping, TypeOK, Controllers
  <1>11. GatewayKept'
    BY <1>1, <1>2 DEF IInv, GatewayKept, Ending, Restored, Untouched, At, Phase, Scope
  <1>12. WorkerKept'
    BY <1>1, <1>2, JournalIs DEF IInv, WorkerKept, Ending, Restored, Untouched, At, Phase, Scope,
      Planned, Course, Applying, Recovering, Undoing, Stopping, TypeOK, Controllers
  <1> QED BY <1>3, <1>4, <1>5, <1>6, <1>7, <1>8, <1>9, <1>10, <1>11, <1>12 DEF IInv

LEMMA ReleaseKeeps ==
  ASSUME IInv, Release
  PROVE  IInv'
  <1>1. /\ ctl.pc = "release" /\ ctl' \in Controllers /\ ctl'.pc = "finish" /\ journal # None
        /\ ctl'.mode = ctl.mode /\ ctl'.scope = ctl.scope /\ ctl'.prior = ctl.prior
        /\ ctl'.changed = ctl.changed /\ ctl'.stopping = ctl.stopping
        /\ worker' \in Workers /\ worker'.state = worker.state /\ worker'.release = worker.release /\ worker'.hold = worker.hold
        /\ worker'.busy = worker.busy /\ worker.state = "ready" /\ Phase \in {"committed", "rolled-back"}
        /\ worker' = worker \/ (~worker'.lease.sealed /\ Serving)
    <2>1. journal # None /\ ctl \in Controllers /\ ctl.pc = "release" /\ worker \in Workers /\ worker.state = "ready"
      BY DEF Release, CanRelease, Serves, At, IInv, TypeOK
    <2>2. ctl' \in Controllers /\ ctl'.pc = "finish"
          /\ ctl'.mode = ctl.mode /\ ctl'.scope = ctl.scope /\ ctl'.prior = ctl.prior /\ ctl'.changed = ctl.changed /\ ctl'.stopping = ctl.stopping
      BY <2>1, Moves DEF Release, Goto, PCs
    <2>3. NoLease \in Lease /\ ~NoLease.sealed /\ ~NoLease.live
      BY DEF NoLease, Lease
    <2>4. worker' = worker \/ worker' = [worker EXCEPT !.lease = NoLease]
      BY DEF Release
    <2>5. worker' \in Workers /\ worker'.state = worker.state /\ worker'.release = worker.release /\ worker'.hold = worker.hold
          /\ worker'.busy = worker.busy /\ (worker' = worker \/ ~worker'.lease.sealed)
      BY <2>1, <2>3, <2>4 DEF Workers
    <2>6. Phase \in {"committed", "rolled-back"} /\ Scope # "gateway" /\ (Phase = "rolled-back" => Scope = "worker")
      BY <2>1 DEF IInv, Course, Applying, Recovering, Undoing, Controllers, At
    <2>7. CASE Phase = "committed"
      <3>1. worker.release = journal.after.worker
        BY <2>1, <2>6, <2>7 DEF IInv, Replaced, Ending, NewWorker, NativelyUp
      <3>2. InstalledPair = journal.after.layout
        BY <2>1, <2>7 DEF IInv, Published, InstalledPair
      <3> QED BY <2>1, <2>2, <2>5, <2>6, <3>1, <3>2, Sides DEF Serving
    <2>8. CASE Phase = "rolled-back"
      <3>1. worker.release = journal.before.worker
        BY <2>1, <2>6, <2>8 DEF IInv, Replaced, OldWorker, NativelyUp, At
      <3>2. InstalledPair = journal.before.layout
        BY <2>1, <2>8 DEF InstalledPair
      <3> QED BY <2>1, <2>2, <2>5, <2>6, <2>8, <3>1, <3>2, Sides DEF Serving
    <2> QED BY <2>6, <2>7, <2>8
  <1>2. UNCHANGED <<files, loaded, journal, gateway, used>>
    BY DEF Release
  <1>3. TypeOK'
    BY <1>1, <1>2 DEF IInv, TypeOK
  <1>4. Planned'
    BY <1>1, <1>2 DEF IInv, Planned, At, Scope
  <1>5. Published'
    BY <1>1, <1>2 DEF IInv, Published, Scope, Phase
  <1>6. Course'
    BY <1>1, <1>2 DEF IInv, Course, Applying, Recovering, Undoing, At, Phase, Scope, Stopping, TypeOK,
      Controllers
  <1>7. Loaded'
    BY <1>1, <1>2 DEF IInv, Loaded, Phase
  <1>8. Admitted'
    BY <1>1, <1>2 DEF IInv, Admitted, Serving, InstalledPair, Phase
  <1>9. Sealed'
    BY <1>1, <1>2 DEF IInv, Sealed
  <1>10. Replaced'
    BY <1>1, <1>2 DEF IInv, Replaced, OldWorker, NewWorker, Alone, Ending, Untouched, At, Phase, Scope,
      NativelyUp
  <1>11. GatewayKept'
    BY <1>1, <1>2 DEF IInv, GatewayKept, Ending, Restored, Untouched, At, Phase, Scope
  <1>12. WorkerKept'
    BY <1>1, <1>2 DEF IInv, WorkerKept, Ending, Restored, Untouched, At, Phase, Scope
  <1> QED BY <1>3, <1>4, <1>5, <1>6, <1>7, <1>8, <1>9, <1>10, <1>11, <1>12 DEF IInv

-----------------------------------------------------------------------------
(* Crashes, and what the service manager starts                             *)

\* A step that neither the controller takes nor the files see.
LEMMA Aside ==
  ASSUME IInv, UNCHANGED <<files, loaded, journal, ctl>>, used'.activations = used.activations
  PROVE  Planned' /\ Published' /\ Course' /\ Loaded' /\ InstalledPair' = InstalledPair
  <1>1. Planned'
    BY DEF IInv, Planned, At, Scope
  <1>2. Published'
    BY DEF IInv, Published, Phase, Scope
  <1>3. Course'
    BY DEF IInv, Course, Applying, Recovering, Undoing, Stopping, At, Phase, Scope
  <1>4. Loaded'
    BY DEF IInv, Loaded, Phase
  <1>5. InstalledPair' = InstalledPair
    BY DEF InstalledPair, Phase
  <1> QED BY <1>1, <1>2, <1>3, <1>4, <1>5

LEMMA WorkerCrashKeeps ==
  ASSUME IInv, WorkerCrash
  PROVE  IInv'
  <1>1. /\ worker' \in Workers /\ worker'.state = "starting" /\ worker'.lease = NoLease /\ ~NoLease.sealed
        /\ worker'.hold = None /\ ~worker'.busy /\ NativelyUp(worker)
    <2>1. worker \in Workers /\ NoLease \in Lease /\ ~NoLease.sealed
      BY DEF IInv, TypeOK, NoLease, Lease
    <2> QED BY <2>1 DEF WorkerCrash, Down, Workers
  <1>2. UNCHANGED <<files, loaded, journal, gateway, ctl>> /\ used'.activations = used.activations
    BY DEF WorkerCrash, Crash, IInv, TypeOK
  <1>3. TypeOK'
    BY <1>1, <1>2, Bounds DEF IInv, TypeOK, WorkerCrash, Crash
  <1>4. Planned' /\ Published' /\ Course' /\ Loaded' /\ InstalledPair' = InstalledPair
    BY <1>2, Aside
  <1>5. Admitted'
    BY <1>1 DEF Admitted
  <1>6. Sealed'
    BY <1>1 DEF Sealed
  <1>7. Replaced'
    <2>1. journal # None /\ Alone /\ Phase \in {"rolling-back", "rolled-back"} => loaded.worker = journal.before.worker
      BY <1>1 DEF IInv, Replaced, NativelyUp
    <2> QED BY <1>1, <1>2, <2>1 DEF IInv, Replaced, OldWorker, NewWorker, Alone, Ending, Untouched, At, Phase, Scope, NativelyUp
  <1>8. GatewayKept'
    BY <1>2 DEF IInv, GatewayKept, Ending, Restored, Untouched, At, Phase, Scope
  <1>9. WorkerKept'
    BY <1>1 DEF WorkerKept
  <1> QED BY <1>3, <1>4, <1>5, <1>6, <1>7, <1>8, <1>9 DEF IInv

LEMMA GatewayCrashKeeps ==
  ASSUME IInv, GatewayCrash
  PROVE  IInv'
  <1>1. gateway' \in Gateways /\ gateway'.state # "stopped" /\ gateway.state # "stopped"
    BY DEF GatewayCrash, IInv, TypeOK, Gateways
  <1>2. UNCHANGED <<files, loaded, journal, worker, ctl>> /\ used'.activations = used.activations
    BY DEF GatewayCrash, Crash, IInv, TypeOK
  <1>3. TypeOK'
    BY <1>1, <1>2, Bounds DEF IInv, TypeOK, GatewayCrash, Crash
  <1>4. Planned' /\ Published' /\ Course' /\ Loaded' /\ InstalledPair' = InstalledPair
    BY <1>2, Aside
  <1>5. Admitted' /\ Sealed'
    BY <1>2, <1>4 DEF IInv, Admitted, Serving, Sealed
  <1>6. Replaced'
    BY <1>2 DEF IInv, Replaced, OldWorker, NewWorker, Alone, Ending, Untouched, At, Phase, Scope
  <1>7. GatewayKept'
    BY <1>1, <1>2 DEF IInv, GatewayKept, Ending, Restored, Untouched, At, Phase, Scope
  <1>8. WorkerKept'
    BY <1>2 DEF IInv, WorkerKept, Ending, Restored, Untouched, At, Phase, Scope
  <1> QED BY <1>3, <1>4, <1>5, <1>6, <1>7, <1>8 DEF IInv

\* A worker that starts runs the installed release, or is held.
LEMMA WorkerExecKeeps ==
  ASSUME IInv, WorkerExec
  PROVE  IInv'
  <1>1. /\ worker' \in Workers /\ worker'.state = "booting" /\ worker'.release = loaded.worker
        /\ worker'.hold = PendingOperation /\ worker'.lease = worker.lease /\ worker'.busy = worker.busy
        /\ worker.state = "starting" /\ loaded.worker # None
    <2>1. worker \in Workers /\ loaded.worker \in Configured
      BY DEF IInv, TypeOK
    <2>2. PendingOperation \in Releases \cup {None}
      BY JournalIs DEF PendingOperation, IInv
    <2>3. worker' = [worker EXCEPT !.state = "booting", !.epoch = worker.epoch + 1, !.release = loaded.worker,
                                   !.hold = PendingOperation]
      BY DEF WorkerExec
    <2>4. PICK hold \in Releases \cup {None} : hold = PendingOperation
      BY <2>2
    <2>5. PICK release \in Configured : release = loaded.worker
      BY <2>1
    <2>6. PICK epoch \in Nat : epoch = worker.epoch + 1
      BY <2>1 DEF Workers
    <2>7. worker' = [worker EXCEPT !.state = "booting", !.epoch = epoch, !.release = release, !.hold = hold]
      BY <2>3, <2>4, <2>5, <2>6
    <2>8. /\ worker' \in Workers /\ worker'.state = "booting" /\ worker'.release = release
          /\ worker'.hold = hold /\ worker'.lease = worker.lease /\ worker'.busy = worker.busy
      BY <2>1, <2>7 DEF Workers
    <2> QED BY <2>4, <2>5, <2>8 DEF WorkerExec
  <1>2. UNCHANGED <<files, loaded, journal, gateway, ctl, used>>
    BY DEF WorkerExec
  <1>3. TypeOK'
    BY <1>1, <1>2 DEF IInv, TypeOK
  <1>4. Planned' /\ Published' /\ Course' /\ Loaded' /\ InstalledPair' = InstalledPair
    BY <1>2, Aside
  <1>5. Admitted'
    <2>1. ~worker.lease.sealed
      BY <1>1 DEF IInv, TypeOK, NoLease
    <2>2. PendingOperation = None => Serving'
      <3>1. CASE journal = None
        <4>1. PICK w, g \in 0 .. used.activations : files = Generation(w, g)
          BY <1>1, <3>1 DEF IInv, Published, Loaded, Settled, NoFiles, Units
        <4>2. files.layout # None /\ files.layout.worker = files.worker
          <5>1. w \in Releases /\ g \in Releases
            BY Bounds DEF IInv, TypeOK, Releases
          <5> QED BY <4>1, <5>1, GenerationIs, Bounds
        <4> QED BY <1>1, <1>4, <3>1, <4>2 DEF IInv, Loaded, Units, Serving, InstalledPair
      <3>2. CASE journal # None /\ PendingOperation = None
        <4>1. Scope = "gateway"
          BY <3>2, JournalIs, Bounds DEF PendingOperation, IInv
        <4>2. loaded.worker = journal.before.worker /\ loaded.worker = journal.after.worker
          BY <3>2, <4>1, Sides DEF IInv, Loaded, Units
        <4> QED BY <1>1, <1>4, <3>2, <4>1, <4>2, Sides DEF Serving, InstalledPair, IInv, Published
      <3> QED BY <3>1, <3>2
    <2> QED BY <1>1, <2>1, <2>2 DEF Admitted
  <1>6. Sealed'
    BY <1>1, <1>2 DEF IInv, Course, Sealed, PendingOperation, TypeOK
  <1>7. Replaced'
    <2>1. journal = None => loaded.worker = files.worker
      BY DEF IInv, Loaded, Units
    <2>2. journal # None /\ Scope # "gateway" /\ Ending => loaded.worker = journal.after.worker
      BY DEF IInv, Loaded, Ending, Units, Course, Applying, Recovering, Undoing, TypeOK, Controllers, At
    <2>3. journal # None /\ At("release") /\ Phase = "rolled-back" => loaded.worker = journal.before.worker
      BY DEF IInv, Loaded, Units, At
    <2>4. journal # None /\ Untouched /\ ~At("stage") => loaded.worker = journal.before.worker
      BY DEF IInv, Loaded, Units, Untouched, Course, Applying, Stopping, At
    <2>5. journal # None /\ Alone /\ Phase \in {"rolling-back", "rolled-back"} => loaded.worker = journal.before.worker
      BY <1>1 DEF IInv, Replaced
    <2>6. ~(journal # None /\ Alone /\ At("rollback") /\ ctl.mode = "recover")
      BY <1>1 DEF IInv, Replaced
    <2> QED BY <1>1, <1>2, <2>1, <2>2, <2>3, <2>4, <2>5, <2>6
        DEF Replaced, OldWorker, NewWorker, Alone, Ending, Untouched, At, Phase, Scope
  <1>8. GatewayKept'
    BY <1>2 DEF IInv, GatewayKept, Ending, Restored, Untouched, At, Phase, Scope
  <1>9. WorkerKept'
    BY <1>1 DEF WorkerKept
  <1> QED BY <1>3, <1>4, <1>5, <1>6, <1>7, <1>8, <1>9 DEF IInv

LEMMA WorkerReadyKeeps ==
  ASSUME IInv, WorkerReady
  PROVE  IInv'
  <1>1. /\ worker' \in Workers /\ worker'.state = "ready" /\ worker'.release = worker.release /\ worker'.hold = None
        /\ worker'.busy = worker.busy /\ ~worker.busy /\ worker.state = "booting"
        /\ worker'.lease = StartupHold(worker.hold)
    <2>1. worker \in Workers /\ worker.hold \in Releases \cup {None}
      BY DEF IInv, TypeOK, Workers
    <2>2. StartupHold(worker.hold) \in Lease
      BY <2>1 DEF StartupHold, NoLease, Lease
    <2> QED BY <2>1, <2>2 DEF WorkerReady, Workers, IInv, TypeOK
  <1>2. UNCHANGED <<files, loaded, journal, gateway, ctl, used>>
    BY DEF WorkerReady
  <1>3. TypeOK'
    BY <1>1, <1>2 DEF IInv, TypeOK
  <1>4. Planned' /\ Published' /\ Course' /\ Loaded' /\ InstalledPair' = InstalledPair
    BY <1>2, Aside
  <1>5. Admitted'
    <2>1. worker.hold = None => Serving'
      BY <1>1, <1>2, <1>4 DEF IInv, Admitted, Serving
    <2>2. worker.hold # None => StartupHold(worker.hold).sealed /\ StartupHold(worker.hold).op # Other
      BY DEF StartupHold, IInv, TypeOK, Workers, Releases, Other
    <2> QED BY <1>1, <2>1, <2>2 DEF Admitted
  <1>6. Sealed'
    BY <1>1, <1>2 DEF IInv, Sealed
  <1>7. Replaced'
    BY <1>1, <1>2 DEF IInv, Replaced, OldWorker, NewWorker, Alone, Ending, Untouched, At, Phase, Scope, NativelyUp
  <1>8. GatewayKept'
    BY <1>2 DEF IInv, GatewayKept, Ending, Restored, Untouched, At, Phase, Scope
  <1>9. WorkerKept'
    BY <1>1 DEF WorkerKept
  <1> QED BY <1>3, <1>4, <1>5, <1>6, <1>7, <1>8, <1>9 DEF IInv

LEMMA GatewayUpKeeps ==
  ASSUME IInv, GatewayUp
  PROVE  IInv'
  <1>1. /\ gateway' \in Gateways /\ gateway'.state = "running" /\ gateway.state = "starting"
        /\ worker' \in Workers
        /\ \/ worker' = worker
           \/ /\ worker.state = "stopped" /\ worker'.state = "starting" /\ worker'.lease = NoLease
              /\ ~worker'.lease.sealed /\ worker'.hold = None /\ ~worker'.busy
    <2>1. gateway' \in Gateways /\ gateway'.state = "running" /\ gateway.state = "starting"
      BY DEF GatewayUp, IInv, TypeOK, Gateways
    <2>2. worker' \in {Start(worker), worker}
      BY DEF GatewayUp
    <2> QED BY <2>1, <2>2, Starts DEF IInv
  <1>2. UNCHANGED <<files, loaded, journal, ctl, used>>
    BY DEF GatewayUp
  <1>3. TypeOK'
    BY <1>1, <1>2 DEF IInv, TypeOK
  <1>4. Planned' /\ Published' /\ Course' /\ Loaded' /\ InstalledPair' = InstalledPair
    BY <1>2, Aside
  <1>5. Admitted' /\ Sealed'
    BY <1>1, <1>2, <1>4 DEF IInv, Admitted, Serving, Sealed
  <1>6. ~(journal # None /\ Alone)
    BY <1>1 DEF IInv, GatewayKept, Alone
  <1>7. Replaced'
    BY <1>1, <1>2, <1>6 DEF IInv, Replaced, OldWorker, NewWorker, Alone, Ending, Untouched, At, Phase, Scope, NativelyUp
  <1>8. GatewayKept'
    BY <1>1, <1>2 DEF IInv, GatewayKept, Ending, Restored, Untouched, At, Phase, Scope
  <1>9. WorkerKept'
    BY <1>1, <1>2 DEF IInv, WorkerKept, Ending, Restored, Untouched, At, Phase, Scope
  <1> QED BY <1>3, <1>4, <1>5, <1>7, <1>8, <1>9 DEF IInv

-----------------------------------------------------------------------------
(* The worker's work and other maintenance clients                          *)

\* A step that changes no more of the worker than its work or its lease.
LEMMA LeaseStep ==
  ASSUME IInv, UNCHANGED <<files, loaded, journal, gateway, ctl>>, used'.activations = used.activations,
         TypeOK', worker'.state = worker.state, worker'.release = worker.release, worker'.hold = worker.hold,
         worker'.lease.sealed => ~worker'.busy,
         worker.state = "ready" /\ (~worker'.lease.sealed \/ worker'.lease.op = Other) =>
           Serving \/ worker'.lease = worker.lease,
         worker'.lease = worker.lease \/ (~At("kill") /\ ~At("check")) \/ worker.state # "ready"
  PROVE  IInv'
  <1>1. Planned' /\ Published' /\ Course' /\ Loaded' /\ InstalledPair' = InstalledPair
    BY Aside
  <1>2. Serving' = Serving
    BY <1>1 DEF Serving
  <1>3. Admitted'
    BY <1>2 DEF IInv, Admitted
  <1>4. Sealed'
    BY DEF IInv, Sealed, At
  <1>5. Replaced'
    BY DEF IInv, Replaced, OldWorker, NewWorker, Alone, Ending, Untouched, At, Phase, Scope, NativelyUp
  <1>6. GatewayKept'
    BY DEF IInv, GatewayKept, Ending, Restored, Untouched, At, Phase, Scope
  <1>7. WorkerKept'
    BY DEF IInv, WorkerKept, Ending, Restored, Untouched, At, Phase, Scope
  <1> QED BY <1>1, <1>3, <1>4, <1>5, <1>6, <1>7 DEF IInv

LEMMA StartWorkKeeps ==
  ASSUME IInv, StartWork
  PROVE  IInv'
  <1>1. /\ worker' \in Workers /\ worker'.state = worker.state /\ worker'.release = worker.release /\ worker'.hold = worker.hold
        /\ worker'.lease = worker.lease /\ worker'.busy /\ worker.state = "ready" /\ ~worker.lease.sealed
    BY DEF StartWork, Admits, Held, IInv, TypeOK, Workers
  <1>2. UNCHANGED <<files, loaded, journal, gateway, ctl>> /\ used'.activations = used.activations
    BY DEF StartWork, IInv, TypeOK
  <1>3. TypeOK'
    BY <1>1, <1>2, Bounds DEF IInv, TypeOK, StartWork
  <1>4. worker'.lease.sealed => ~worker'.busy
    BY <1>1
  <1>5. /\ worker.state = "ready" /\ (~worker'.lease.sealed \/ worker'.lease.op = Other) => Serving \/ worker'.lease = worker.lease
        /\ worker'.lease = worker.lease \/ (~At("kill") /\ ~At("check")) \/ worker.state # "ready"
    BY <1>1
  <1> QED BY <1>1, <1>2, <1>3, <1>4, <1>5, LeaseStep

LEMMA EndWorkKeeps ==
  ASSUME IInv, EndWork
  PROVE  IInv'
  <1>1. /\ worker' \in Workers /\ worker'.state = worker.state /\ worker'.release = worker.release /\ worker'.hold = worker.hold
        /\ worker'.lease = worker.lease /\ ~worker'.busy
    BY DEF EndWork, IInv, TypeOK, Workers
  <1>2. UNCHANGED <<files, loaded, journal, gateway, ctl, used>>
    BY DEF EndWork
  <1>3. TypeOK'
    BY <1>1, <1>2 DEF IInv, TypeOK
  <1>4. worker'.lease.sealed => ~worker'.busy
    BY <1>1
  <1>5. /\ worker.state = "ready" /\ (~worker'.lease.sealed \/ worker'.lease.op = Other) => Serving \/ worker'.lease = worker.lease
        /\ worker'.lease = worker.lease \/ (~At("kill") /\ ~At("check")) \/ worker.state # "ready"
    BY <1>1
  <1> QED BY <1>1, <1>2, <1>3, <1>4, <1>5, LeaseStep

\* A worker that waits to be stopped is held by this activation alone.
LEMMA SealedIsOurs ==
  ASSUME IInv, At("kill") \/ At("check"), worker.state = "ready"
  PROVE  worker.lease.sealed /\ ~worker.lease.live /\ worker.lease.op # Other /\ worker.lease.op = journal.id
  <1>1. journal # None
    BY DEF IInv, TypeOK, At
  <1>2. journal.id \in Releases /\ journal.id # Other /\ journal.id # None
    BY <1>1, JournalIs, Bounds DEF IInv, Releases, Other
  <1>3. worker.lease = StartupHold(journal.id)
    BY DEF IInv, Sealed, At
  <1> QED BY <1>2, <1>3 DEF StartupHold

LEMMA OtherAcquireKeeps ==
  ASSUME IInv, OtherAcquire
  PROVE  IInv'
  <1> DEFINE lease == [op |-> Other, sealed |-> FALSE, live |-> TRUE]
  <1>1. /\ worker' \in Workers /\ worker'.state = worker.state /\ worker'.release = worker.release /\ worker'.hold = worker.hold
        /\ worker'.lease = lease /\ worker'.busy = worker.busy /\ worker.state = "ready" /\ ~worker.lease.sealed /\ ~lease.sealed
    <2>1. lease \in Lease
      BY DEF Lease
    <2> QED BY <2>1 DEF OtherAcquire, Admits, Held, IInv, TypeOK, Workers
  <1>2. UNCHANGED <<files, loaded, journal, gateway, ctl>> /\ used'.activations = used.activations
    BY DEF OtherAcquire, IInv, TypeOK
  <1>3. TypeOK'
    BY <1>1, <1>2, Bounds DEF IInv, TypeOK, OtherAcquire
  <1>4. Serving /\ ~At("kill") /\ ~At("check")
    BY <1>1, SealedIsOurs DEF IInv, Admitted
  <1> QED BY <1>1, <1>2, <1>3, <1>4, LeaseStep

LEMMA OtherSealKeeps ==
  ASSUME IInv, OtherSeal
  PROVE  IInv'
  <1>1. /\ worker' \in Workers /\ worker'.state = worker.state /\ worker'.release = worker.release /\ worker'.hold = worker.hold
        /\ ~worker'.busy /\ worker.state = "ready" /\ worker.lease.op = Other /\ worker'.lease.op = Other
    <2>1. StartupHold(Other) \in Lease /\ StartupHold(Other).op = Other
      BY Bounds DEF StartupHold, NoLease, Lease, Other
    <2> QED BY <2>1 DEF OtherSeal, HeldBy, IInv, TypeOK, Workers
  <1>2. UNCHANGED <<files, loaded, journal, gateway, ctl, used>>
    BY DEF OtherSeal
  <1>3. TypeOK'
    BY <1>1, <1>2 DEF IInv, TypeOK
  <1>4. Serving /\ ~At("kill") /\ ~At("check")
    BY <1>1, SealedIsOurs DEF IInv, Admitted
  <1> QED BY <1>1, <1>2, <1>3, <1>4, LeaseStep

LEMMA OtherReleaseKeeps ==
  ASSUME IInv, OtherRelease
  PROVE  IInv'
  <1>1. /\ worker' \in Workers /\ worker'.state = worker.state /\ worker'.release = worker.release /\ worker'.hold = worker.hold
        /\ worker'.busy = worker.busy /\ worker.state = "ready" /\ worker.lease.op = Other /\ ~worker'.lease.sealed
        /\ worker'.lease = NoLease
    <2>1. NoLease \in Lease /\ ~NoLease.sealed
      BY DEF NoLease, Lease
    <2> QED BY <2>1 DEF OtherRelease, IInv, TypeOK, Workers
  <1>2. UNCHANGED <<files, loaded, journal, gateway, ctl, used>>
    BY DEF OtherRelease
  <1>3. TypeOK'
    BY <1>1, <1>2 DEF IInv, TypeOK
  <1>4. Serving /\ ~At("kill") /\ ~At("check")
    BY <1>1, SealedIsOurs DEF IInv, Admitted
  <1> QED BY <1>1, <1>2, <1>3, <1>4, LeaseStep

LEMMA ExpireKeeps ==
  ASSUME IInv, Expire
  PROVE  IInv'
  <1>1. /\ worker' \in Workers /\ worker'.state = worker.state /\ worker'.release = worker.release /\ worker'.hold = worker.hold
        /\ worker'.busy = worker.busy /\ worker.lease.live /\ worker.state = "ready"
        /\ worker'.lease.sealed = worker.lease.sealed /\ worker'.lease.op = worker.lease.op
    <2>1. worker \in Workers /\ worker.lease \in Lease /\ worker.lease.live /\ worker.state = "ready"
      BY DEF Expire, IInv, TypeOK, Workers, NoLease
    <2>2. worker' = [worker EXCEPT !.lease = [worker.lease EXCEPT !.live = FALSE]]
      BY <2>1 DEF Expire, Workers
    <2>3. [worker.lease EXCEPT !.live = FALSE] \in Lease
          /\ [worker.lease EXCEPT !.live = FALSE].sealed = worker.lease.sealed
          /\ [worker.lease EXCEPT !.live = FALSE].op = worker.lease.op
      BY <2>1 DEF Lease
    <2> QED BY <2>1, <2>2, <2>3 DEF Workers
  <1>2. UNCHANGED <<files, loaded, journal, gateway, ctl, used>>
    BY DEF Expire
  <1>3. TypeOK'
    BY <1>1, <1>2 DEF IInv, TypeOK
  <1>4. ~At("kill") /\ ~At("check")
    BY <1>1, SealedIsOurs
  <1>5. ~worker.lease.sealed \/ worker.lease.op = Other => Serving
    BY <1>1 DEF IInv, Admitted
  <1>6. worker.lease.sealed => ~worker.busy
    BY DEF IInv, Admitted
  <1> QED BY <1>1, <1>2, <1>3, <1>4, <1>5, <1>6, LeaseStep

-----------------------------------------------------------------------------
(* The invariant holds                                                      *)

LEMMA InitHolds == Init => IInv
  <1> SUFFICES ASSUME Init PROVE IInv
    OBVIOUS
  <1>1. PICK installed \in Installed : files = IF installed THEN Generation(0, 0) ELSE NoFiles
    BY DEF Init
  <1>2. 0 \in Releases /\ Installed \subseteq BOOLEAN
    BY ActivationAssumption DEF ActivationAssumption, Releases
  <1>3. Generation(0, 0) \in Files /\ Generation(0, 0).layout \in Layouts
        /\ Generation(0, 0).worker = 0 /\ Generation(0, 0).layout.worker = 0
    BY <1>2, GenerationIs
  <1>4. files \in Files /\ journal = None /\ ctl = Idle
    BY <1>1, <1>3 DEF Init, NoFiles, Files, Configured
  <1>5. Idle \in Controllers /\ Idle.mode = "none" /\ Idle.pc = "idle" /\ ~Idle.stopping
    BY DEF Idle, Controllers, PCs, Prior
  <1>6. /\ worker \in Workers /\ worker.lease = NoLease /\ ~worker.busy /\ worker.hold = None /\ ~NoLease.sealed
        /\ worker.state \in {"ready", "stopped"} /\ worker.release = files.worker
        /\ files = NoFiles => worker.state = "stopped"
    BY <1>4 DEF Init, Workers, NoLease, Lease, Files
  <1>7. gateway \in Gateways
    BY <1>4 DEF Init, Gateways, Files
  <1>8. used = [activations |-> 0, faults |-> 0, crashes |-> 0, jobs |-> 0, others |-> 0]
    BY DEF Init
  <1>9. TypeOK
    BY <1>4, <1>5, <1>6, <1>7, <1>8, Bounds DEF Init, TypeOK, Files
  <1>10. Planned
    BY <1>4, <1>5 DEF Planned, At
  <1>11. Published
    BY <1>1, <1>4, <1>8 DEF Published, Settled
  <1>12. Course
    BY <1>4, <1>5 DEF Course, Applying, Recovering, Undoing, At
  <1>13. Loaded
    BY <1>4 DEF Init, Loaded, Units
  <1>14. Admitted
    BY <1>1, <1>3, <1>4, <1>6, Bounds DEF Admitted, Serving, InstalledPair
  <1>15. Sealed /\ Replaced /\ GatewayKept /\ WorkerKept
    BY <1>4, <1>5 DEF Sealed, Replaced, GatewayKept, WorkerKept, At
  <1> QED BY <1>9, <1>10, <1>11, <1>12, <1>13, <1>14, <1>15 DEF IInv

LEMMA NextKeeps == IInv /\ [Next]_vars => IInv'
  <1> SUFFICES ASSUME IInv, [Next]_vars PROVE IInv'
    OBVIOUS
  <1>1. ASSUME NEW scope \in Scopes, Preflight(scope) PROVE IInv'
    BY <1>1, PreflightKeeps
  <1>2. CASE Controller
    BY <1>2, StageKeeps, PrepareKeeps, AcquireKeeps, SealKeeps, StopGatewayKeeps, ObserveKeeps, CheckKeeps,
       KillKeeps, PublishKeeps, WriteKeeps, RollbackKeeps, UnwriteKeeps, ReloadKeeps, StartWorkerKeeps,
       StartGatewayKeeps, RestoreWorkerKeeps, RestoreGatewayKeeps, SettleKeeps, ReceiptKeeps, HoldKeeps,
       CommitKeeps, ReleaseKeeps, FinishKeeps, RecoverKeeps, LoadKeeps DEF Controller
  <1>3. CASE Refuse \/ Fail \/ KillController \/ WorkerCrash \/ GatewayCrash
    BY <1>3, RefuseKeeps, FailKeeps, KillControllerKeeps, WorkerCrashKeeps, GatewayCrashKeeps
  <1>4. CASE Services
    BY <1>4, WorkerExecKeeps, WorkerReadyKeeps, GatewayUpKeeps DEF Services
  <1>5. CASE StartWork \/ EndWork \/ OtherAcquire \/ OtherSeal \/ OtherRelease \/ Expire
    BY <1>5, StartWorkKeeps, EndWorkKeeps, OtherAcquireKeeps, OtherSealKeeps, OtherReleaseKeeps, ExpireKeeps
  <1>6. CASE UNCHANGED vars
    <2>1. UNCHANGED <<files, loaded, journal, worker, gateway, ctl, used>>
      BY <1>6 DEF vars
    <2>2. TypeOK'
      BY <2>1 DEF IInv, TypeOK
    <2>3. worker.lease.sealed => ~worker.busy
      BY DEF IInv, Admitted
    <2>4. worker.state = "ready" /\ (~worker.lease.sealed \/ worker.lease.op = Other) => Serving
      BY DEF IInv, Admitted
    <2> QED BY <2>1, <2>2, <2>3, <2>4, LeaseStep
  <1> QED BY <1>1, <1>2, <1>3, <1>4, <1>5, <1>6 DEF Next

\* The invariant that the theorems below rest on.
THEOREM Inductive == Spec => []IInv
  BY InitHolds, NextKeeps, PTL DEF Spec

\* Every step leaves each variable within its type.
THEOREM TypeCorrect == Spec => []TypeOK
  <1>1. IInv => TypeOK
    BY DEF IInv
  <1> QED BY <1>1, Inductive, PTL

\* The command that stops the worker only ever reaches one without work, whatever
\* worker the service manager runs when it arrives (seal_for_stop, _stop_worker).
THEOREM IdleWhenStopped == Spec => []OnlyIdleStopped
  <1>1. IInv => OnlyIdleStopped
    <2> SUFFICES ASSUME IInv, At("kill"), worker.busy PROVE FALSE
      BY DEF OnlyIdleStopped
    <2>1. worker.state = "ready" /\ ~worker.lease.sealed
      BY DEF IInv, TypeOK, Admitted
    <2> QED BY <2>1, SealedIsOurs
  <1> QED BY <1>1, Inductive, PTL

\* Whenever no activation is half way through its writes, the units, the layout and
\* the current link belong to one generation (publish, rollback, _affected).
THEOREM NeverMixed == Spec => []OneGeneration
  <1>1. IInv => OneGeneration
    <2> SUFFICES ASSUME IInv, journal = None \/ Phase \in {"prepared", "committed", "rolled-back"}
                 PROVE  files = NoFiles \/ \E w, g \in Releases : files = Generation(w, g)
      BY DEF OneGeneration
    <2>1. CASE journal = None
      <3>1. 0 .. used.activations \subseteq Releases
        BY Bounds DEF IInv, TypeOK, Releases
      <3> QED BY <2>1, <3>1 DEF IInv, Published, Settled
    <2>2. CASE journal # None
      <3>1. journal.id \in Releases /\ Scope \in {"worker", "gateway", "migration"}
        BY <2>2, JournalIs DEF IInv, Scope
      <3>2. files = journal.before \/ files = journal.after
        BY <2>2 DEF IInv, Published
      <3>3. CASE Scope = "migration"
        BY <2>2, <3>1, <3>2, <3>3 DEF IInv, Planned, NextFiles
      <3>4. CASE Scope # "migration"
        <4>1. PICK w, g \in 0 .. (journal.id - 1) : journal.before = Generation(w, g)
          BY <2>2, <3>4 DEF IInv, Planned
        <4>2. w \in Releases /\ g \in Releases
          BY <3>1, Bounds DEF Releases
        <4>3. journal.before.layout.worker = w /\ journal.before.layout.gateway = g
          BY <4>1 DEF Generation
        <4>4. journal.after \in {Generation(w, journal.id), Generation(journal.id, g)}
          BY <2>2, <3>1, <3>4, <4>3 DEF IInv, Planned, NextFiles
        <4> QED BY <3>1, <3>2, <4>1, <4>2, <4>4
      <3> QED BY <3>3, <3>4
    <2> QED BY <2>1, <2>2
  <1> QED BY <1>1, Inductive, PTL

-----------------------------------------------------------------------------
(* What a step of the controller does to the worker                         *)

\* A worker that another client holds.
LEMMA OthersStep == IInv /\ [Next]_vars => (ctl' # ctl /\ HeldBy(worker.lease, Other) => worker' = worker)
  <1> SUFFICES ASSUME IInv, [Next]_vars, ctl' # ctl, HeldBy(worker.lease, Other) PROVE worker' = worker
    OBVIOUS
  <1>1. worker.state = "ready" /\ worker.lease.op = Other /\ Held(worker.lease)
    BY DEF HeldBy, Held, IInv, TypeOK, NoLease
  <1>2. ASSUME journal # None PROVE ~HeldBy(worker.lease, journal.id)
    BY <1>1, <1>2, JournalIs DEF HeldBy, IInv, Releases, Other
  <1>3. ~At("kill")
    BY <1>1, SealedIsOurs
  <1>4. At("acquire") \/ At("seal") \/ At("release") => journal # None
    BY DEF IInv, TypeOK, At
  <1>5. Start(worker) = worker
    BY <1>1 DEF Start
  <1>6. CASE Controller
    <2>1. CASE Acquire
      BY <1>1, <2>1 DEF Acquire
    <2>2. CASE Seal
      BY <1>2, <1>4, <2>2 DEF Seal, CanSeal
    <2>3. CASE Kill
      BY <1>3, <2>3 DEF Kill
    <2>4. CASE StartWorker \/ RestoreWorker
      BY <1>5, <2>4 DEF StartWorker, RestoreWorker
    <2>5. CASE Release
      BY <1>2, <1>4, <2>5 DEF Release
    <2>6. CASE Stage \/ Prepare \/ StopGateway \/ Observe \/ Check \/ Publish \/ Write \/ Rollback \/ Unwrite \/ Reload
      BY <2>6 DEF Stage, Prepare, StopGateway, Observe, Check, Publish, Write, Rollback, Unwrite, Reload
    <2>7. CASE StartGateway \/ RestoreGateway \/ Settle \/ Receipt \/ Hold \/ Commit \/ Finish \/ Recover \/ Load
      BY <2>7 DEF StartGateway, RestoreGateway, Settle, Receipt, Hold, Commit, Finish, Recover, Load
    <2> QED BY <1>6, <2>1, <2>2, <2>3, <2>4, <2>5, <2>6, <2>7 DEF Controller
  <1>7. CASE (\E scope \in Scopes : Preflight(scope)) \/ Refuse \/ Fail \/ KillController
    BY <1>7 DEF Preflight, Refuse, Fail, KillController
  <1>8. ctl' = ctl \/ Controller \/ (\E scope \in Scopes : Preflight(scope)) \/ Refuse \/ Fail \/ KillController
    BY DEF Next, vars, WorkerCrash, GatewayCrash, Services, WorkerExec, WorkerReady, GatewayUp,
       StartWork, EndWork, OtherAcquire, OtherSeal, OtherRelease, Expire
  <1> QED BY <1>6, <1>7, <1>8

\* A step of the controller leaves the hold of another maintenance client on the
\* worker alone (seal_for_stop, release).
THEOREM OthersUndisturbed == Spec => OthersHoldKept
  BY OthersStep, Inductive, PTL DEF Spec, OthersHoldKept

\* Only the last step of an activation retires its journal.
LEMMA OnlyFinishRetires ==
  ASSUME IInv, [Next]_vars, journal # None, journal' = None
  PROVE  Finish
  <1>1. journal \in Journals
    BY JournalIs DEF IInv
  <1>2. ASSUME NEW phase \in {"publishing", "published", "committed", "rolling-back", "rolled-back"} PROVE ~SetPhase(phase)
    BY <1>1, Phases DEF SetPhase
  <1>3. ~Publish /\ ~Rollback /\ ~Commit
    BY <1>2 DEF Publish, Rollback, Commit
  <1>4. ~Write /\ ~Unwrite
    BY <1>2 DEF Write, Unwrite
  <1>5. ~Stage
    BY DEF Stage, CanStage
  <1>6. journal' = journal \/ Stage \/ Publish \/ Write \/ Rollback \/ Unwrite \/ Commit \/ Finish
    <2>1. CASE Controller
      BY <2>1 DEF Controller, Prepare, Acquire, Seal, StopGateway, Observe, Check, Kill, Reload, StartWorker, StartGateway,
         RestoreWorker, RestoreGateway, Settle, Receipt, Hold, Release, Recover, Load
    <2>2. CASE ~Controller
      BY <2>2 DEF Next, vars, Preflight, Refuse, Fail, KillController, WorkerCrash, GatewayCrash, Services, WorkerExec,
         WorkerReady, GatewayUp, StartWork, EndWork, OtherAcquire, OtherSeal, OtherRelease, Expire
    <2> QED BY <2>1, <2>2
  <1> QED BY <1>3, <1>4, <1>5, <1>6

LEMMA RetiredStep ==
  IInv /\ [Next]_vars =>
    (journal # None /\ journal' = None =>
       /\ journal.prior.worker = "running" => worker.state # "stopped"
       /\ journal.prior.gateway = "running" => gateway.state # "stopped"
       /\ Phase = "committed" => worker.state # "stopped" /\ gateway.state # "stopped")
  <1> SUFFICES ASSUME IInv, [Next]_vars, journal # None, journal' = None
               PROVE  /\ journal.prior.worker = "running" => worker.state # "stopped"
                      /\ journal.prior.gateway = "running" => gateway.state # "stopped"
                      /\ Phase = "committed" => worker.state # "stopped" /\ gateway.state # "stopped"
    OBVIOUS
  <1>1. ctl.pc = "finish" /\ Phase \in {"committed", "rolled-back"}
    BY OnlyFinishRetires DEF Finish, CanFinish, At
  <1> QED BY <1>1 DEF IInv, WorkerKept, GatewayKept, Restored, Ending

\* When an activation is retired, each service that ran before it, or that it
\* committed, runs or is about to (restore, commit).
THEOREM NothingLeftDown == Spec => NotLeftStopped
  BY RetiredStep, Inductive, PTL DEF Spec, NotLeftStopped

-----------------------------------------------------------------------------
(* The installed release                                                    *)

Working == IF worker.busy THEN worker.release ELSE None

\* Only the commit changes the installed pair.
LEMMA PairKept ==
  ASSUME IInv, [Next]_vars, ~Commit
  PROVE  InstalledPair' = InstalledPair
  <1>1. CASE Stage
    <2>1. IInv'
      BY <1>1, StageKeeps
    <2>2. ctl'.pc = "prepare"
      BY <1>1, Moves DEF Stage, Goto, PCs, IInv, TypeOK
    <2>3. journal' # None
      BY <2>1, <2>2 DEF IInv, TypeOK
    <2>4. journal'.phase = "prepared" /\ journal'.before = files /\ journal = None
      BY <1>1 DEF Stage, CanStage
    <2> QED BY <2>3, <2>4 DEF InstalledPair, Phase
  <1>2. CASE Publish \/ Write \/ Rollback \/ Unwrite
    <2>1. journal # None /\ journal \in Journals /\ Phase # "committed"
      BY <1>2, JournalIs DEF Publish, Write, Rollback, Unwrite, At, IInv, TypeOK, Course, Applying, Recovering,
         Undoing, Controllers
    <2>2. journal' = journal \/ \E phase \in {"publishing", "published", "rolling-back", "rolled-back"} : SetPhase(phase)
      BY <1>2 DEF Publish, Write, Rollback, Unwrite
    <2>3. journal' # None /\ journal'.before = journal.before /\ journal'.phase # "committed"
      BY <2>1, <2>2, Phases DEF SetPhase, Phase
    <2> QED BY <2>1, <2>3 DEF InstalledPair, Phase
  <1>3. CASE Finish
    BY <1>3 DEF Finish, CanFinish, InstalledPair, Phase
  <1>4. UNCHANGED <<files, journal>> \/ Stage \/ Publish \/ Write \/ Rollback \/ Unwrite \/ Finish
    <2>1. CASE Controller
      BY <2>1 DEF Controller, Prepare, Acquire, Seal, StopGateway, Observe, Check, Kill, Reload, StartWorker, StartGateway,
         RestoreWorker, RestoreGateway, Settle, Receipt, Hold, Release, Recover, Load
    <2>2. CASE ~Controller
      BY <2>2 DEF Next, vars, Preflight, Refuse, Fail, KillController, WorkerCrash, GatewayCrash, Services, WorkerExec,
         WorkerReady, GatewayUp, StartWork, EndWork, OtherAcquire, OtherSeal, OtherRelease, Expire
    <2> QED BY <2>1, <2>2
  <1> QED BY <1>1, <1>2, <1>3, <1>4 DEF InstalledPair, Phase

\* Work only ever runs on the installed release.
LEMMA WorksOnInstalled ==
  ASSUME IInv, worker.busy
  PROVE  InstalledPair # None /\ worker.release = InstalledPair.worker
  BY DEF IInv, TypeOK, Admitted, Serving

LEMMA PairIs ==
  ASSUME IInv
  PROVE  InstalledPair = None \/ (InstalledPair \in Layouts /\ InstalledPair.worker \in Releases)
  BY JournalIs DEF InstalledPair, IInv, TypeOK, Files, Layouts

\* Work starts, or it ends, or nothing happens to it.
LEMMA WorkSteps ==
  ASSUME IInv, [Next]_vars
  PROVE  Working' = Working \/ Working' = None \/ (StartWork /\ Working = None /\ Working' = worker.release)
  <1>1. worker \in Workers /\ (worker.busy => worker.state = "ready")
    BY DEF IInv, TypeOK
  <1>2. CASE StartWork
    <2>1. ~worker.busy /\ worker' = [worker EXCEPT !.busy = TRUE]
      BY <1>2 DEF StartWork
    <2> QED BY <1>1, <1>2, <2>1 DEF Working, Workers
  <1>3. CASE EndWork \/ WorkerCrash \/ Kill
    <2>1. worker' = [worker EXCEPT !.busy = FALSE] \/ \E state \in {"starting", "stopped"} : worker' = Down(worker, state)
      BY <1>3 DEF EndWork, WorkerCrash, Kill
    <2>2. ~worker'.busy
      BY <1>1, <2>1 DEF Down, Workers
    <2> QED BY <2>2 DEF Working
  <1>4. CASE \E lease : worker' = [worker EXCEPT !.lease = lease]
    BY <1>1, <1>4 DEF Working, Workers
  <1>5. CASE worker' = Start(worker)
    BY <1>5, Starts DEF Working, IInv, TypeOK
  <1>6. CASE WorkerExec \/ WorkerReady
    <2>1. worker.state # "ready" /\ worker'.busy = worker.busy
      BY <1>1, <1>6 DEF WorkerExec, WorkerReady, Workers
    <2> QED BY <1>1, <2>1 DEF Working
  <1>7. CASE worker' = worker
    BY <1>7 DEF Working
  <1>8. \/ StartWork \/ EndWork \/ WorkerCrash \/ Kill \/ WorkerExec \/ WorkerReady
        \/ worker' = Start(worker) \/ worker' = worker
        \/ Acquire \/ Seal \/ Release \/ OtherAcquire \/ OtherSeal \/ OtherRelease \/ Expire
    <2>1. CASE Controller
      BY <2>1 DEF Controller, Stage, Prepare, StopGateway, Observe, Check, Publish, Write, Rollback, Unwrite, Reload,
         StartWorker, StartGateway, RestoreWorker, RestoreGateway, Settle, Receipt, Hold, Commit, Finish, Recover, Load
    <2>2. CASE ~Controller
      BY <2>2 DEF Next, vars, Preflight, Refuse, Fail, KillController, GatewayCrash, Services, GatewayUp
    <2> QED BY <2>1, <2>2
  <1>9. ASSUME Acquire \/ Seal \/ Release \/ OtherAcquire \/ OtherSeal \/ OtherRelease
        PROVE  worker' = worker \/ \E lease : worker' = [worker EXCEPT !.lease = lease]
    BY <1>9 DEF Acquire, Seal, Release, OtherAcquire, OtherSeal, OtherRelease
  <1>10. ASSUME Expire PROVE \E lease : worker' = [worker EXCEPT !.lease = lease]
    <2>1. worker' = [worker EXCEPT !.lease = [worker.lease EXCEPT !.live = FALSE]]
      BY <1>1, <1>10 DEF Expire, Workers
    <2> QED BY <2>1
  <1> QED BY <1>2, <1>3, <1>4, <1>5, <1>6, <1>7, <1>8, <1>9, <1>10

LEMMA CommitReplaces ==
  ASSUME IInv, Commit
  PROVE  Promise!Next
  <1>1. journal # None /\ Phase = "published" /\ ctl.pc = "commit" /\ worker' = worker /\ journal' = [journal EXCEPT !.phase = "committed"]
        /\ files' = files /\ files = journal.after
    BY DEF Commit, CanCommit, SetPhase, At, IInv, TypeOK
  <1>2. journal' # None /\ journal'.phase = "committed"
    BY <1>1, JournalIs, Phases DEF IInv
  <1>3. InstalledPair = journal.before.layout /\ InstalledPair' = journal.after.layout
    BY <1>1, <1>2 DEF InstalledPair, Phase
  <1>4. Working' = Working
    BY <1>1 DEF Working
  <1>5. Scope \in {"worker", "gateway", "migration"} /\ journal.id \in Releases /\ journal.after.layout \in Promise!Pairs
    BY <1>1, JournalIs, Sides DEF IInv, Scope, Layouts, Promise!Pairs
  <1>6. Scope # "gateway" => Working = None
    <2> SUFFICES ASSUME Scope # "gateway", worker.busy PROVE FALSE
      BY DEF Working
    <2>1. worker.release = journal.after.worker
      BY <1>1 DEF IInv, TypeOK, Replaced, Ending, NewWorker, NativelyUp
    <2>2. journal.before.layout # None /\ worker.release = journal.before.layout.worker
      BY <1>3, WorksOnInstalled
    <2>3. Scope # "migration"
      BY <1>1, <2>2, Sides DEF NoFiles
    <2> QED BY <1>1, <1>5, <2>1, <2>2, <2>3, Sides
  <1>7. CASE Scope = "migration"
    <2>1. InstalledPair = None
      BY <1>1, <1>3, <1>7, Sides DEF NoFiles
    <2>2. journal.after.layout.worker = journal.after.layout.gateway
      BY <1>1, <1>7, Sides
    <2> QED BY <1>3, <1>4, <1>5, <1>6, <1>7, <2>1, <2>2 DEF Promise!Next, Promise!Install, Working
  <1>8. CASE Scope = "gateway"
    <2>1. InstalledPair # None /\ InstalledPair'.worker = InstalledPair.worker
      BY <1>1, <1>3, <1>8, Sides
    <2>2. InstalledPair'.gateway > InstalledPair.gateway
      <3>1. journal.before.layout.gateway \in 0 .. (journal.id - 1) /\ journal.after.layout.gateway = journal.id
        BY <1>1, <1>8, Sides
      <3> QED BY <1>3, <1>5, <3>1, Bounds DEF Releases
    <2> QED BY <1>3, <1>4, <1>5, <2>1, <2>2 DEF Promise!Next, Promise!ReplaceGateway, Working
  <1>9. CASE Scope = "worker"
    <2>1. InstalledPair # None /\ InstalledPair'.gateway = InstalledPair.gateway
      BY <1>1, <1>3, <1>9, Sides
    <2>2. InstalledPair'.worker > InstalledPair.worker
      <3>1. journal.before.layout.worker \in 0 .. (journal.id - 1) /\ journal.after.layout.worker = journal.id
        BY <1>1, <1>9, Sides
      <3> QED BY <1>3, <1>5, <3>1, Bounds DEF Releases
    <2> QED BY <1>3, <1>4, <1>5, <1>6, <1>9, <2>1, <2>2 DEF Promise!Next, Promise!ReplaceWorker, Working
  <1> QED BY <1>5, <1>7, <1>8, <1>9

LEMMA PromiseInit == Init => Promise!Init
  <1> SUFFICES ASSUME Init PROVE Promise!Init
    OBVIOUS
  <1>1. files \in Files
    BY InitHolds DEF IInv, TypeOK
  <1>2. journal = None /\ ~worker.busy
    BY DEF Init
  <1> QED BY <1>1, <1>2 DEF Promise!Init, Promise!Pairs, InstalledPair, Files, Layouts

LEMMA PromiseNext == IInv /\ [Next]_vars => [Promise!Next]_<<InstalledPair, Working>>
  <1> SUFFICES ASSUME IInv, [Next]_vars PROVE Promise!Next \/ UNCHANGED <<InstalledPair, Working>>
    OBVIOUS
  <1>1. CASE Commit
    BY <1>1, CommitReplaces
  <1>2. CASE ~Commit
    <2>1. InstalledPair' = InstalledPair
      BY <1>2, PairKept
    <2>2. CASE Working' = None /\ Working # None
      BY <2>1, <2>2 DEF Promise!Next, Promise!EndWork, Working
    <2>3. CASE StartWork /\ Working = None /\ Working' = worker.release
      <3>1. InstalledPair # None /\ worker.release = InstalledPair.worker
        BY <2>3 DEF StartWork, Admits, Held, IInv, Admitted, Serving
      <3> QED BY <2>1, <2>3, <3>1 DEF Promise!Next, Promise!StartWork, Working
    <2> QED BY <2>1, <2>2, <2>3, WorkSteps
  <1> QED BY <1>1, <1>2

\* Through every interleaving of activations, recoveries, crashes and work the
\* installed pair changes at the commit only, to a pair with a newer release, and
\* work runs on the installed worker only, never on a candidate (the commit boundary
\* of execution_manage.py and the startup hold of execution_service.py).
THEOREM Refinement == Spec => ImplementsInstalledRelease
  BY PromiseInit, PromiseNext, Inductive, PTL DEF Spec, ImplementsInstalledRelease, Promise!Spec, Working

-----------------------------------------------------------------------------
(* The holds of activations, with the history variable                      *)

\* While no service has crashed: a worker that did not run before an activation
\* is down until the candidate starts and from the stop of recover on, and
\* nothing comes up that could start one.
CalmStage ==
  At("stage") =>
    /\ gateway.state # "starting"
    /\ ctl.prior.worker # "running" => worker.state = "stopped"
    /\ ctl.prior.gateway # "running" => gateway.state = "stopped"

CalmPending ==
  journal # None /\ Scope # "gateway" =>
    /\ At("finish") => worker.state \in {"ready", "stopped"}
    /\ Scope = "worker" => gateway.state # "starting"
    /\ journal.prior.worker # "running" /\ Phase \notin {"published", "committed"} => worker.state = "stopped"
    /\ Scope = "migration" /\ Phase \notin {"published", "committed"} => gateway.state = "stopped"
    /\ ctl.mode = "recover" /\ At("rollback") => worker.state = "stopped"
    /\ ctl.mode = "recover" /\ Scope = "migration" =>
         /\ ctl.pc \in {"acquire", "seal", "check", "kill", "stopGateway", "rollback"} => gateway.state # "starting"
         /\ At("stopGateway") => worker.state = "stopped"
         /\ At("rollback") => gateway.state = "stopped"

Calm == used.crashes = 0 => CalmStage /\ CalmPending

\* A hold that its activation still has to let go: the one of the journal, not yet
\* at the end, and, where it will not be released, before the worker is stopped.
Owed == Ours /\ ~late

OwedIsPending ==
  Owed =>
    /\ journal # None /\ Scope # "gateway" /\ ~At("finish")
    /\ worker.hold # None => worker.hold = journal.id
    /\ Held(worker.lease) /\ worker.lease.op # Other => worker.lease.op = journal.id

OwedIsStopped ==
  Owed /\ journal.prior.worker # "running" =>
    /\ ~At("unwrite") /\ Phase # "rolled-back"
    /\ Untouched => At("stage")
    /\ ctl.mode = "recover" => ~At("rollback") /\ ~(At("stopGateway") /\ Scope = "migration")

\* A worker is sealed because it ran before, or to stop it.
SealedForCause ==
  ctl.pc \in {"acquire", "seal"} /\ ~ctl.stopping => journal.prior.worker = "running"

HInv == Calm /\ OwedIsPending /\ OwedIsStopped /\ SealedForCause

\* A step that does not run a worker makes no hold owed.
LEMMA StillOwed ==
  ASSUME Remember, worker'.epoch = worker.epoch, Ours' => Ours
  PROVE  Owed' => Owed
  BY DEF Remember, Owed

LEMMA SameWorker ==
  ASSUME Remember, worker' = worker
  PROVE  Owed' => Owed
  BY DEF Remember, Owed, Ours

\* Steps that change nothing but the place of the controller.
LEMMA PrepareOwes ==
  ASSUME IInv, HInv, Prepare, Remember
  PROVE  HInv'
  <1>1. /\ ctl.pc = "prepare" /\ journal # None
        /\ ctl'.mode = ctl.mode /\ ctl'.changed = ctl.changed /\ ctl'.stopping = ctl.stopping
        /\ \/ ctl'.pc = "acquire" /\ journal.prior.worker = "running"
           \/ ctl'.pc \in {"observe", "stopGateway"}
    BY DEF Prepare, Goto, FirstStop, At, IInv, TypeOK, Controllers
  <1>2. ctl.mode = "apply"
    BY <1>1 DEF IInv, Course, Recovering, Undoing, TypeOK, Controllers, At
  <1>3. UNCHANGED <<journal, worker, gateway, used>> /\ (Owed' => Owed)
    BY SameWorker DEF Prepare
  <1>4. Calm'
    BY <1>1, <1>2, <1>3 DEF HInv, Calm, CalmStage, CalmPending, At, Phase, Scope
  <1>5. OwedIsPending' /\ OwedIsStopped' /\ SealedForCause'
    BY <1>1, <1>2, <1>3 DEF HInv, OwedIsPending, OwedIsStopped, SealedForCause, Untouched, At, Phase, Scope
  <1> QED BY <1>4, <1>5 DEF HInv

LEMMA ObserveOwes ==
  ASSUME IInv, HInv, Observe, Remember
  PROVE  HInv'
  <1>1. /\ ctl.pc = "observe" /\ ctl'.pc \in {"acquire", "kill"}
        /\ ctl'.mode = ctl.mode /\ ctl'.changed /\ (ctl'.pc = "acquire" => ctl'.stopping)
        /\ gateway.state # "starting"
    BY DEF Observe, SnapshotOK, At, IInv, TypeOK, Controllers
  <1>2. ctl.mode # "undo"
    BY <1>1 DEF IInv, Course, Undoing
  <1>3. UNCHANGED <<journal, worker, gateway, used>> /\ (Owed' => Owed)
    BY SameWorker DEF Observe
  <1>4. Calm'
    BY <1>1, <1>3 DEF HInv, Calm, CalmStage, CalmPending, At, Phase, Scope
  <1>5. OwedIsPending' /\ OwedIsStopped' /\ SealedForCause'
    BY <1>1, <1>2, <1>3 DEF HInv, OwedIsPending, OwedIsStopped, SealedForCause, Untouched, At, Phase, Scope
  <1> QED BY <1>4, <1>5 DEF HInv

LEMMA CheckOwes ==
  ASSUME IInv, HInv, Check, Remember
  PROVE  HInv'
  <1>1. /\ ctl.pc = "check" /\ ctl'.pc = "kill" /\ ctl'.mode = ctl.mode /\ ctl'.changed = ctl.changed
    BY DEF Check, Goto, At, IInv, TypeOK, Controllers
  <1>2. UNCHANGED <<journal, worker, gateway, used>> /\ (Owed' => Owed)
    BY SameWorker DEF Check
  <1>3. Calm'
    BY <1>1, <1>2 DEF HInv, Calm, CalmStage, CalmPending, At, Phase, Scope
  <1>4. OwedIsPending' /\ OwedIsStopped' /\ SealedForCause'
    BY <1>1, <1>2 DEF HInv, OwedIsPending, OwedIsStopped, SealedForCause, Untouched, At, Phase, Scope
  <1> QED BY <1>3, <1>4 DEF HInv

\* What restores what ran before goes on to the release of a hold, or to the end
\* of an activation that found no worker to hold.
LEMMA SettleOwes ==
  ASSUME IInv, HInv, Settle, Remember
  PROVE  HInv'
  <1>1. /\ ctl.pc = "settle" /\ journal # None
        /\ ctl'.mode = ctl.mode /\ ctl'.changed = ctl.changed
        /\ \/ ctl'.pc \in {"wait", "release"}
           \/ ctl'.pc = "finish" /\ (Scope # "gateway" => journal.prior.worker # "running")
    BY DEF Settle, Goto, AfterRestore, OwnsHold, At, IInv, TypeOK, Controllers
  <1>2. ctl.mode = "recover" /\ Phase = "rolled-back"
    BY <1>1 DEF IInv, Course, Applying, Recovering, Undoing, TypeOK, Controllers, At
  <1>3. UNCHANGED <<journal, worker, gateway, used>> /\ (Owed' => Owed)
    BY SameWorker DEF Settle
  <1>4. Calm'
    BY <1>1, <1>2, <1>3 DEF HInv, Calm, CalmStage, CalmPending, At, Phase, Scope
  <1>5. OwedIsPending' /\ OwedIsStopped' /\ SealedForCause'
    BY <1>1, <1>2, <1>3 DEF HInv, OwedIsPending, OwedIsStopped, SealedForCause, Untouched, At, Phase, Scope
  <1> QED BY <1>4, <1>5 DEF HInv

LEMMA ReceiptOwes ==
  ASSUME IInv, HInv, Receipt, Remember
  PROVE  HInv'
  <1>1. /\ ctl.pc = "wait" /\ journal # None
        /\ ctl'.mode = ctl.mode /\ ctl'.changed = ctl.changed
        /\ \/ ctl'.pc \in {"commit", "hold", "release"}
           \/ ctl'.pc = "finish" /\ Scope = "gateway"
           \/ ctl'.pc = "finish" /\ Phase \notin {"published", "committed"} /\ journal.prior.worker # "running"
    BY DEF Receipt, Goto, AfterRestore, OwnsHold, At, IInv, TypeOK, Controllers
  <1>2. Phase \in {"published", "committed", "rolled-back"}
    BY <1>1 DEF IInv, Course, Applying, Recovering, Undoing, TypeOK, Controllers, At
  <1>3. UNCHANGED <<journal, worker, gateway, used>> /\ (Owed' => Owed)
    BY SameWorker DEF Receipt
  <1>4. Calm'
    BY <1>1, <1>2, <1>3 DEF HInv, Calm, CalmStage, CalmPending, At, Phase, Scope
  <1>5. OwedIsPending' /\ OwedIsStopped' /\ SealedForCause'
    BY <1>1, <1>2, <1>3 DEF HInv, OwedIsPending, OwedIsStopped, SealedForCause, Untouched, At, Phase, Scope
  <1> QED BY <1>4, <1>5 DEF HInv

LEMMA HoldOwes ==
  ASSUME IInv, HInv, Hold, Remember
  PROVE  HInv'
  <1>1. ctl.pc = "hold" /\ ctl'.pc = "commit" /\ ctl'.mode = ctl.mode /\ ctl'.changed = ctl.changed
    BY DEF Hold, Goto, At, IInv, TypeOK, Controllers
  <1>2. UNCHANGED <<journal, worker, gateway, used>> /\ (Owed' => Owed)
    BY SameWorker DEF Hold
  <1>3. Calm'
    BY <1>1, <1>2 DEF HInv, Calm, CalmStage, CalmPending, At, Phase, Scope
  <1>4. OwedIsPending' /\ OwedIsStopped' /\ SealedForCause'
    BY <1>1, <1>2 DEF HInv, OwedIsPending, OwedIsStopped, SealedForCause, Untouched, At, Phase, Scope
  <1> QED BY <1>3, <1>4 DEF HInv

LEMMA RecoverOwes ==
  ASSUME IInv, HInv, Recover, Remember
  PROVE  HInv'
  <1>1. ctl'.pc = "load" /\ ctl'.mode = "recover"
    BY DEF Recover, Idle
  <1>2. UNCHANGED <<journal, worker, gateway, used>> /\ (Owed' => Owed)
    BY SameWorker DEF Recover
  <1>3. Calm'
    BY <1>1, <1>2 DEF HInv, Calm, CalmStage, CalmPending, At, Phase, Scope
  <1>4. OwedIsPending' /\ OwedIsStopped' /\ SealedForCause'
    BY <1>1, <1>2 DEF HInv, OwedIsPending, OwedIsStopped, SealedForCause, Untouched, At, Phase, Scope
  <1> QED BY <1>3, <1>4 DEF HInv

LEMMA LoadOwes ==
  ASSUME IInv, HInv, Load, Remember
  PROVE  HInv'
  <1>1. /\ ctl.pc = "load" /\ ctl'.mode = ctl.mode
        /\ ctl'.pc \in {"wait", "reload", "observe"} \/ (ctl'.pc = "stopGateway" /\ Scope = "gateway")
    BY DEF Load, Goto, At, IInv, TypeOK, Controllers
  <1>2. ctl.mode = "recover"
    BY <1>1 DEF IInv, Course, Applying, Undoing, TypeOK, Controllers, At
  <1>3. UNCHANGED <<journal, worker, gateway, used>> /\ (Owed' => Owed)
    BY SameWorker DEF Load
  <1>4. Calm'
    BY <1>1, <1>2, <1>3 DEF HInv, Calm, CalmStage, CalmPending, At, Phase, Scope
  <1>5. OwedIsPending' /\ OwedIsStopped' /\ SealedForCause'
    BY <1>1, <1>2, <1>3 DEF HInv, OwedIsPending, OwedIsStopped, SealedForCause, Untouched, At, Phase, Scope
  <1> QED BY <1>4, <1>5 DEF HInv

LEMMA PreflightOwes ==
  ASSUME IInv, HInv, NEW scope \in Scopes, Preflight(scope), Remember
  PROVE  HInv'
  <1>1. /\ ctl'.pc = "stage" /\ ctl'.mode = "apply" /\ ctl'.prior = Snapshot
        /\ worker.state # "starting" /\ gateway.state # "starting"
    BY DEF Preflight, Idle, SnapshotOK
  <1>2. /\ Snapshot.worker # "running" => worker.state = "stopped"
        /\ Snapshot.gateway # "running" => gateway.state = "stopped"
    BY <1>1 DEF Snapshot, NativeState, NativelyUp, IInv, TypeOK, Workers, Gateways
  <1>3. UNCHANGED <<journal, worker, gateway, used>> /\ (Owed' => Owed)
    BY SameWorker DEF Preflight
  <1>4. Calm'
    BY <1>1, <1>2, <1>3 DEF HInv, Calm, CalmStage, CalmPending, At, Phase, Scope
  <1>5. OwedIsPending' /\ OwedIsStopped' /\ SealedForCause'
    BY <1>1, <1>3 DEF HInv, OwedIsPending, OwedIsStopped, SealedForCause, Untouched, At, Phase, Scope
  <1> QED BY <1>4, <1>5 DEF HInv

\* An exception leaves the undo of an activation that changed nothing, a recovery
\* that begins, or nobody.
LEMMA RaiseOwes ==
  ASSUME IInv, HInv, ~At("idle"), ctl' = Raised(ChangesServices) \/ ctl' = Idle, Remember,
         UNCHANGED <<files, loaded, journal, worker, gateway, used.crashes>>
  PROVE  HInv'
  <1>1. \/ ctl'.mode = "none" /\ ctl'.pc = "idle"
        \/ ctl'.mode = "recover" /\ ctl'.pc = "load"
        \/ ctl'.mode = "undo" /\ ctl'.pc = "rollback" /\ Phase = "prepared" /\ Untouched /\ ctl.pc # "stage"
    <2>1. CASE ctl' = Idle
      BY <2>1 DEF Idle
    <2>2. CASE ctl' = Raised(ChangesServices)
      BY <2>2, Raises DEF At
    <2> QED BY <2>1, <2>2
  <1>2. Owed' => Owed
    BY SameWorker
  <1>3. Calm'
    BY <1>1 DEF HInv, Calm, CalmStage, CalmPending, At, Phase, Scope
  <1>4. OwedIsPending' /\ OwedIsStopped' /\ SealedForCause'
    BY <1>1, <1>2 DEF HInv, OwedIsPending, OwedIsStopped, SealedForCause, Untouched, At, Phase, Scope
  <1> QED BY <1>3, <1>4 DEF HInv

LEMMA ReloadOwes ==
  ASSUME IInv, HInv, Reload, Remember
  PROVE  HInv'
  <1>1. /\ ctl'.mode = ctl.mode /\ ctl'.changed = ctl.changed
        /\ ctl.pc = "reload" /\ ctl'.pc \in {"startGateway", "startWorker", "restoreGateway", "restoreWorker"}
    BY DEF Reload, Goto, At, IInv, TypeOK, Controllers
  <1>2. UNCHANGED <<journal, worker, gateway, used>> /\ (Owed' => Owed)
    BY SameWorker DEF Reload
  <1>3. Calm'
    BY <1>1, <1>2 DEF HInv, Calm, CalmStage, CalmPending, At, Phase, Scope
  <1>4. OwedIsPending' /\ OwedIsStopped' /\ SealedForCause'
    BY <1>1, <1>2 DEF HInv, OwedIsPending, OwedIsStopped, SealedForCause, Untouched, At, Phase, Scope
  <1> QED BY <1>3, <1>4 DEF HInv

\* Writes and the phases they end.
LEMMA PhaseSet ==
  ASSUME TypeOK, journal # None,
         NEW phase \in {"prepared", "publishing", "published", "committed", "rolling-back", "rolled-back"},
         SetPhase(phase)
  PROVE  /\ journal' # None /\ journal'.phase = phase /\ journal'.id = journal.id
         /\ journal'.scope = journal.scope /\ journal'.prior = journal.prior
  BY JournalIs, Phases DEF SetPhase

LEMMA StageOwes ==
  ASSUME IInv, HInv, Stage, Remember
  PROVE  HInv'
  <1>1. /\ ctl.pc = "stage" /\ ctl'.pc = "prepare" /\ journal = None /\ journal' # None
        /\ journal'.prior = ctl.prior /\ journal'.phase = "prepared"
        /\ UNCHANGED <<worker, gateway>> /\ used'.crashes = used.crashes
    BY StageKeeps DEF Stage, CanStage, Goto, At, IInv, TypeOK, Controllers
  <1>2. journal'.scope = "migration" => ctl.prior.worker # "running" /\ ctl.prior.gateway # "running"
    BY <1>1, StageKeeps DEF IInv, Planned, Scope
  <1>3. ~Owed'
    BY <1>1, SameWorker DEF HInv, OwedIsPending
  <1>4. Calm'
    BY <1>1, <1>2 DEF HInv, Calm, CalmStage, CalmPending, At, Phase, Scope
  <1>5. OwedIsPending' /\ OwedIsStopped' /\ SealedForCause'
    BY <1>1, <1>3 DEF OwedIsPending, OwedIsStopped, SealedForCause
  <1> QED BY <1>4, <1>5 DEF HInv

LEMMA PublishOwes ==
  ASSUME IInv, HInv, Publish, Remember
  PROVE  HInv'
  <1>1. /\ ctl.pc = "publish" /\ ctl'.pc = "write" /\ ctl'.mode = ctl.mode /\ ctl'.changed = ctl.changed
        /\ journal # None
    BY DEF Publish, Goto, At, IInv, TypeOK, Controllers
  <1>2. Phase = "prepared"
    BY <1>1 DEF IInv, Course, Applying, Recovering, Undoing, TypeOK, Controllers, At
  <1>3. /\ journal' # None /\ journal'.phase = "publishing" /\ journal'.id = journal.id
        /\ journal'.scope = journal.scope /\ journal'.prior = journal.prior
    BY <1>1, PhaseSet DEF Publish, IInv
  <1>4. UNCHANGED <<worker, gateway, used>> /\ (Owed' => Owed)
    BY SameWorker DEF Publish
  <1>5. Calm'
    BY <1>1, <1>2, <1>3, <1>4 DEF HInv, Calm, CalmStage, CalmPending, At, Phase, Scope
  <1>6. OwedIsPending' /\ OwedIsStopped' /\ SealedForCause'
    BY <1>1, <1>3, <1>4 DEF HInv, OwedIsPending, OwedIsStopped, SealedForCause, Untouched, At, Phase, Scope
  <1> QED BY <1>5, <1>6 DEF HInv

LEMMA WriteOwes ==
  ASSUME IInv, HInv, Write, Remember
  PROVE  HInv'
  <1>1. UNCHANGED <<worker, gateway, used>> /\ (Owed' => Owed) /\ ctl.pc = "write" /\ journal # None
    BY SameWorker DEF Write, At, IInv, TypeOK
  <1>2. CASE UNCHANGED <<journal, ctl>>
    <2>1. Calm'
      BY <1>1, <1>2 DEF HInv, Calm, CalmStage, CalmPending, At, Phase, Scope
    <2>2. OwedIsPending' /\ OwedIsStopped' /\ SealedForCause'
      BY <1>1, <1>2 DEF HInv, OwedIsPending, OwedIsStopped, SealedForCause, Untouched, At, Phase, Scope
    <2> QED BY <2>1, <2>2 DEF HInv
  <1>3. CASE SetPhase("published") /\ Goto("reload")
    <2>1. ctl'.pc = "reload" /\ ctl'.mode = ctl.mode /\ ctl'.changed = ctl.changed
      BY <1>3 DEF Goto, IInv, TypeOK, Controllers
    <2>2. /\ journal' # None /\ journal'.phase = "published" /\ journal'.id = journal.id
          /\ journal'.scope = journal.scope /\ journal'.prior = journal.prior
      BY <1>1, <1>3, PhaseSet DEF IInv
    <2>3. Calm'
      BY <1>1, <2>1, <2>2 DEF HInv, Calm, CalmStage, CalmPending, At, Phase, Scope
    <2>4. OwedIsPending' /\ OwedIsStopped' /\ SealedForCause'
      BY <1>1, <2>1, <2>2 DEF HInv, OwedIsPending, OwedIsStopped, SealedForCause, Untouched, At, Phase, Scope
    <2> QED BY <2>3, <2>4 DEF HInv
  <1> QED BY <1>2, <1>3 DEF Write

LEMMA RollbackOwes ==
  ASSUME IInv, HInv, Rollback, Remember
  PROVE  HInv'
  <1>1. /\ ctl.pc = "rollback" /\ ctl'.pc = "unwrite" /\ ctl'.mode = ctl.mode /\ ctl'.changed = ctl.changed
        /\ journal # None
    BY DEF Rollback, Goto, At, IInv, TypeOK, Controllers
  <1>2. ctl.mode = "recover" \/ (ctl.mode = "undo" /\ Phase = "prepared")
    BY <1>1 DEF IInv, Course, Applying, Undoing, TypeOK, Controllers, At
  <1>3. /\ journal' # None /\ journal'.phase = "rolling-back" /\ journal'.id = journal.id
        /\ journal'.scope = journal.scope /\ journal'.prior = journal.prior
    BY <1>1, PhaseSet DEF Rollback, IInv
  <1>4. UNCHANGED <<worker, gateway, used>> /\ (Owed' => Owed)
    BY SameWorker DEF Rollback
  <1>5. Calm'
    BY <1>1, <1>2, <1>3, <1>4 DEF HInv, Calm, CalmStage, CalmPending, At, Phase, Scope
  <1>6. OwedIsPending' /\ OwedIsStopped' /\ SealedForCause'
    BY <1>1, <1>2, <1>3, <1>4 DEF HInv, OwedIsPending, OwedIsStopped, SealedForCause, Untouched, At, Phase, Scope
  <1> QED BY <1>5, <1>6 DEF HInv

LEMMA UnwriteOwes ==
  ASSUME IInv, HInv, Unwrite, Remember
  PROVE  HInv'
  <1>1. /\ UNCHANGED <<worker, gateway, used>> /\ (Owed' => Owed)
        /\ ctl.pc = "unwrite" /\ journal # None /\ Phase = "rolling-back"
    BY SameWorker DEF Unwrite, At, IInv, TypeOK, Course
  <1>2. CASE UNCHANGED <<journal, ctl>>
    <2>1. Calm'
      BY <1>1, <1>2 DEF HInv, Calm, CalmStage, CalmPending, At, Phase, Scope
    <2>2. OwedIsPending' /\ OwedIsStopped' /\ SealedForCause'
      BY <1>1, <1>2 DEF HInv, OwedIsPending, OwedIsStopped, SealedForCause, Untouched, At, Phase, Scope
    <2> QED BY <2>1, <2>2 DEF HInv
  <1>3. CASE /\ SetPhase("rolled-back")
             /\ Goto(IF ctl.mode = "recover" THEN "reload" ELSE IF OwnsHold THEN "release" ELSE "finish")
    <2>1. /\ ctl'.mode = ctl.mode /\ ctl'.changed = ctl.changed
          /\ \/ ctl'.pc \in {"reload", "release"}
             \/ ctl'.pc = "finish" /\ (Scope # "gateway" => journal.prior.worker # "running")
      BY <1>3 DEF Goto, OwnsHold, IInv, TypeOK, Controllers
    <2>2. /\ journal' # None /\ journal'.phase = "rolled-back" /\ journal'.id = journal.id
          /\ journal'.scope = journal.scope /\ journal'.prior = journal.prior
      BY <1>1, <1>3, PhaseSet DEF IInv
    <2>3. Calm'
      BY <1>1, <2>1, <2>2 DEF HInv, Calm, CalmStage, CalmPending, At, Phase, Scope
    <2>4. OwedIsPending' /\ OwedIsStopped' /\ SealedForCause'
      BY <1>1, <2>1, <2>2 DEF HInv, OwedIsPending, OwedIsStopped, SealedForCause, Untouched, At, Phase, Scope
    <2> QED BY <2>3, <2>4 DEF HInv
  <1> QED BY <1>2, <1>3 DEF Unwrite

LEMMA CommitOwes ==
  ASSUME IInv, HInv, Commit, Remember
  PROVE  HInv'
  <1>1. /\ ctl.pc = "commit" /\ ctl'.mode = ctl.mode /\ ctl'.changed = ctl.changed /\ journal # None
        /\ ctl'.pc = "release" \/ (ctl'.pc = "finish" /\ Scope = "gateway")
    BY DEF Commit, Goto, At, IInv, TypeOK, Controllers
  <1>2. /\ journal' # None /\ journal'.phase = "committed" /\ journal'.id = journal.id
        /\ journal'.scope = journal.scope /\ journal'.prior = journal.prior
    BY <1>1, PhaseSet DEF Commit, IInv
  <1>3. UNCHANGED <<worker, gateway, used>> /\ (Owed' => Owed)
    BY SameWorker DEF Commit
  <1>4. Calm'
    BY <1>1, <1>2, <1>3 DEF HInv, Calm, CalmStage, CalmPending, At, Phase, Scope
  <1>5. OwedIsPending' /\ OwedIsStopped' /\ SealedForCause'
    BY <1>1, <1>2, <1>3 DEF HInv, OwedIsPending, OwedIsStopped, SealedForCause, Untouched, At, Phase, Scope
  <1> QED BY <1>4, <1>5 DEF HInv

LEMMA FinishOwes ==
  ASSUME IInv, HInv, Finish, Remember
  PROVE  HInv'
  <1>1. At("finish") /\ ctl'.pc = "idle" /\ ctl'.mode = "none" /\ journal' = None /\ UNCHANGED <<worker, gateway, used>>
    BY DEF Finish, Idle
  <1>2. ~Owed'
    BY <1>1, SameWorker DEF HInv, OwedIsPending
  <1>3. Calm'
    BY <1>1 DEF Calm, CalmStage, CalmPending, At
  <1>4. OwedIsPending' /\ OwedIsStopped' /\ SealedForCause'
    BY <1>1, <1>2 DEF OwedIsPending, OwedIsStopped, SealedForCause
  <1> QED BY <1>3, <1>4 DEF HInv

\* The gateway.
LEMMA StopGatewayOwes ==
  ASSUME IInv, HInv, StopGateway, Remember
  PROVE  HInv'
  <1>1. /\ ctl.pc = "stopGateway" /\ ctl'.changed /\ ctl'.mode = ctl.mode
        /\ gateway'.state = "stopped" /\ journal # None
        /\ \/ ctl'.pc \in {"observe", "publish"} /\ ctl.mode = "apply"
           \/ ctl'.pc = "rollback" /\ ctl.mode # "apply"
    BY DEF StopGateway, AfterStops, At, IInv, TypeOK, Controllers, Gateways
  <1>2. Scope # "worker" /\ ctl.mode # "undo"
    BY <1>1 DEF IInv, Course, Undoing
  <1>3. UNCHANGED <<journal, worker, used>> /\ (Owed' => Owed)
    BY SameWorker DEF StopGateway
  <1>4. Scope \in {"worker", "gateway", "migration"}
    BY <1>1, JournalIs DEF IInv, Scope
  <1>5. Calm'
    BY <1>1, <1>2, <1>3, <1>4 DEF HInv, Calm, CalmStage, CalmPending, At, Phase, Scope
  <1>6. OwedIsPending' /\ OwedIsStopped' /\ SealedForCause'
    BY <1>1, <1>2, <1>3, <1>4 DEF HInv, OwedIsPending, OwedIsStopped, SealedForCause, Untouched, At, Phase, Scope
  <1> QED BY <1>5, <1>6 DEF HInv

LEMMA StartGatewayOwes ==
  ASSUME IInv, HInv, StartGateway, Remember
  PROVE  HInv'
  <1>1. /\ ctl.pc = "startGateway" /\ ctl'.pc = "wait" /\ ctl'.mode = ctl.mode /\ ctl'.changed = ctl.changed
        /\ journal # None
    BY DEF StartGateway, Goto, At, IInv, TypeOK, Controllers
  <1>2. Scope # "worker" /\ Phase = "published"
    BY <1>1 DEF IInv, Course, Applying, Recovering, Undoing, TypeOK, Controllers, At
  <1>3. UNCHANGED <<journal, worker, used>> /\ (Owed' => Owed)
    BY SameWorker DEF StartGateway
  <1>4. Calm'
    BY <1>1, <1>2, <1>3 DEF HInv, Calm, CalmStage, CalmPending, At, Phase, Scope
  <1>5. OwedIsPending' /\ OwedIsStopped' /\ SealedForCause'
    BY <1>1, <1>2, <1>3 DEF HInv, OwedIsPending, OwedIsStopped, SealedForCause, Untouched, At, Phase, Scope
  <1> QED BY <1>4, <1>5 DEF HInv

LEMMA RestoreGatewayOwes ==
  ASSUME IInv, HInv, RestoreGateway, Remember
  PROVE  HInv'
  <1>1. /\ ctl.pc = "restoreGateway" /\ ctl'.pc = "settle" /\ ctl'.mode = ctl.mode /\ ctl'.changed = ctl.changed
        /\ journal # None /\ (journal.prior.gateway # "running" => gateway' = gateway)
    BY DEF RestoreGateway, Goto, At, IInv, TypeOK, Controllers
  <1>2. Scope # "worker" /\ (Scope = "migration" => journal.prior.gateway # "running")
    BY <1>1 DEF IInv, Course, Planned
  <1>3. UNCHANGED <<journal, worker, used>> /\ (Owed' => Owed)
    BY SameWorker DEF RestoreGateway
  <1>4. Scope \in {"worker", "gateway", "migration"}
    BY <1>1, JournalIs DEF IInv, Scope
  <1>5. Calm'
    BY <1>1, <1>2, <1>3, <1>4 DEF HInv, Calm, CalmStage, CalmPending, At, Phase, Scope
  <1>6. OwedIsPending' /\ OwedIsStopped' /\ SealedForCause'
    BY <1>1, <1>2, <1>3 DEF HInv, OwedIsPending, OwedIsStopped, SealedForCause, Untouched, At, Phase, Scope
  <1> QED BY <1>5, <1>6 DEF HInv

\* The worker.
LEMMA AcquireOwes ==
  ASSUME IInv, HInv, Acquire, Remember
  PROVE  HInv'
  <1>1. /\ ctl.pc = "acquire" /\ ctl'.pc = "seal" /\ journal # None
        /\ ctl'.mode = ctl.mode /\ ctl'.changed = ctl.changed /\ ctl'.stopping = ctl.stopping
    BY DEF Acquire, Goto, At, IInv, TypeOK, Controllers
  <1>2. UNCHANGED <<journal, gateway, used>>
    BY DEF Acquire
  <1>3. /\ worker'.state = worker.state /\ worker'.hold = worker.hold /\ worker'.epoch = worker.epoch
        /\ worker.hold = None
        /\ worker' = worker \/ worker'.lease.op = journal.id
    BY DEF Acquire, CanAcquire, Reachable, Serves, IInv, TypeOK, Workers
  <1>4. Scope # "gateway" /\ Phase # "rolled-back" /\ ctl.mode # "undo" /\ (ctl.stopping => ctl.changed)
    BY <1>1 DEF IInv, Course, Applying, Recovering, Undoing, Stopping, TypeOK, Controllers, At
  <1>5. CASE worker' = worker
    <2>1. Owed' => Owed
      BY <1>5, SameWorker
    <2>2. Calm'
      BY <1>1, <1>2, <1>5 DEF HInv, Calm, CalmStage, CalmPending, At, Phase, Scope
    <2>3. OwedIsPending' /\ OwedIsStopped' /\ SealedForCause'
      BY <1>1, <1>2, <1>5, <2>1 DEF HInv, OwedIsPending, OwedIsStopped, SealedForCause, Untouched, At, Phase, Scope
    <2> QED BY <2>2, <2>3 DEF HInv
  <1>6. CASE worker'.lease.op = journal.id
    <2>1. Calm'
      BY <1>1, <1>2, <1>3 DEF HInv, Calm, CalmStage, CalmPending, At, Phase, Scope
    <2>2. OwedIsPending' /\ SealedForCause'
      BY <1>1, <1>2, <1>3, <1>4, <1>6 DEF HInv, OwedIsPending, SealedForCause, At, Scope
    <2>3. OwedIsStopped'
      BY <1>1, <1>2, <1>4 DEF HInv, OwedIsStopped, SealedForCause, Untouched, At, Phase, Scope
    <2> QED BY <2>1, <2>2, <2>3 DEF HInv
  <1> QED BY <1>3, <1>5, <1>6

LEMMA SealOwes ==
  ASSUME IInv, HInv, Seal, Remember
  PROVE  HInv'
  <1>1. /\ ctl.pc = "seal" /\ journal # None
        /\ ctl'.mode = ctl.mode /\ ctl'.changed = ctl.changed /\ ctl'.stopping = ctl.stopping
        /\ ctl'.pc = "check" \/ (ctl'.pc \in {"observe", "stopGateway"} /\ ~ctl.stopping)
    BY DEF Seal, Goto, FirstStop, At, IInv, TypeOK, Controllers
  <1>2. UNCHANGED <<journal, gateway, used>>
    BY DEF Seal
  <1>3. journal.id # Other /\ journal.id # None
    BY <1>1, JournalIs, Bounds DEF IInv, Releases, Other
  <1>4. /\ worker'.state = worker.state /\ worker'.hold = worker.hold /\ worker'.epoch = worker.epoch
        /\ worker'.lease = StartupHold(journal.id)
        /\ Held(worker.lease) /\ worker.lease.op = journal.id
    BY DEF Seal, CanSeal, HeldBy, IInv, TypeOK, Workers
  <1>5. worker'.lease.op = journal.id
    BY <1>3, <1>4 DEF StartupHold
  <1>6. Owed' => Owed
    BY <1>3, <1>4, StillOwed DEF Ours
  <1>7. ctl.mode = "recover" => ctl.stopping
    BY <1>1 DEF IInv, Course, Recovering
  <1>8. Calm'
    BY <1>1, <1>2, <1>4, <1>7 DEF HInv, Calm, CalmStage, CalmPending, At, Phase, Scope
  <1>9. OwedIsPending' /\ OwedIsStopped' /\ SealedForCause'
    BY <1>1, <1>2, <1>4, <1>5, <1>6, <1>7 DEF HInv, OwedIsPending, OwedIsStopped, SealedForCause, Untouched, At, Phase, Scope
  <1> QED BY <1>8, <1>9 DEF HInv

\* A worker that is down, or is told to start, is held by nobody.
LEMMA DownOwes ==
  ASSUME NEW state, worker' = Down(worker, state), TypeOK
  PROVE  ~Owed' /\ worker'.state = state /\ worker'.epoch = worker.epoch
  BY NoneHeld DEF Down, Owed, Ours, TypeOK, Workers

LEMMA StartOwes ==
  ASSUME TypeOK, Remember, worker' \in {Start(worker), worker}
  PROVE  /\ Owed' => Owed
         /\ worker' = worker \/ (worker.state = "stopped" /\ worker'.state = "starting")
  <1>1. CASE worker' = worker
    BY <1>1, SameWorker
  <1>2. CASE worker' = Down(worker, "starting") /\ worker.state = "stopped"
    BY <1>2, DownOwes
  <1> QED BY <1>1, <1>2 DEF Start

LEMMA KillOwes ==
  ASSUME IInv, HInv, Kill, Remember
  PROVE  HInv'
  <1>1. /\ ctl.pc = "kill" /\ ctl'.mode = ctl.mode /\ journal # None
        /\ \/ ctl'.pc = "stopGateway" /\ ctl.mode = "recover" /\ Scope = "migration"
           \/ ctl'.pc = "publish" /\ ctl.mode = "apply"
           \/ ctl'.pc = "rollback" /\ Scope # "migration"
           \/ ctl'.pc = "rollback" /\ ctl.mode # "recover"
    BY DEF Kill, AfterStops, At, IInv, TypeOK, Controllers
  <1>2. UNCHANGED <<journal, gateway, used>> /\ worker'.state = "stopped" /\ ~Owed'
    BY DownOwes DEF Kill, IInv
  <1>3. Calm'
    BY <1>1, <1>2 DEF HInv, Calm, CalmStage, CalmPending, At, Phase, Scope
  <1>4. OwedIsPending' /\ OwedIsStopped' /\ SealedForCause'
    BY <1>1, <1>2 DEF OwedIsPending, OwedIsStopped, SealedForCause
  <1> QED BY <1>3, <1>4 DEF HInv

LEMMA StartWorkerOwes ==
  ASSUME IInv, HInv, StartWorker, Remember
  PROVE  HInv'
  <1>1. /\ ctl.pc = "startWorker" /\ ctl'.pc \in {"startGateway", "wait"} /\ journal # None
        /\ ctl'.mode = ctl.mode /\ ctl'.changed = ctl.changed
    BY DEF StartWorker, Goto, At, IInv, TypeOK, Controllers
  <1>2. Phase = "published"
    BY <1>1 DEF IInv, Course, Applying, Recovering, Undoing, TypeOK, Controllers, At
  <1>3. UNCHANGED <<journal, gateway, used>>
    BY DEF StartWorker
  <1>4. /\ Owed' => Owed
        /\ worker' = worker \/ (worker.state = "stopped" /\ worker'.state = "starting")
    BY StartOwes DEF StartWorker, IInv
  <1>5. Owed' => worker' = worker
    <2> SUFFICES ASSUME worker' # worker PROVE ~Owed'
      OBVIOUS
    <2>1. worker' = Down(worker, "starting")
      BY DEF StartWorker, Start
    <2> QED BY <2>1, DownOwes DEF IInv
  <1>6. Calm'
    BY <1>1, <1>2, <1>3, <1>4 DEF HInv, Calm, CalmStage, CalmPending, At, Phase, Scope
  <1>7. OwedIsPending' /\ OwedIsStopped' /\ SealedForCause'
    BY <1>1, <1>3, <1>4, <1>5 DEF HInv, OwedIsPending, OwedIsStopped, SealedForCause, Untouched, At, Phase, Scope
  <1> QED BY <1>6, <1>7 DEF HInv

LEMMA RestoreWorkerOwes ==
  ASSUME IInv, HInv, RestoreWorker, Remember
  PROVE  HInv'
  <1>1. /\ ctl.pc = "restoreWorker" /\ ctl'.pc \in {"restoreGateway", "settle"} /\ journal # None
        /\ ctl'.mode = ctl.mode /\ ctl'.changed = ctl.changed
        /\ journal.prior.worker # "running" => worker' = worker
    BY DEF RestoreWorker, Goto, At, IInv, TypeOK, Controllers
  <1>2. UNCHANGED <<journal, gateway, used>> /\ worker' \in {Start(worker), worker}
    BY DEF RestoreWorker
  <1>3. /\ Owed' => Owed
        /\ worker' = worker \/ (worker.state = "stopped" /\ worker'.state = "starting")
    BY <1>2, StartOwes DEF IInv
  <1>4. Owed' => worker' = worker
    <2> SUFFICES ASSUME worker' # worker PROVE ~Owed'
      OBVIOUS
    <2>1. worker' = Down(worker, "starting")
      BY <1>2 DEF Start
    <2> QED BY <2>1, DownOwes DEF IInv
  <1>5. Calm'
    BY <1>1, <1>2, <1>3 DEF HInv, Calm, CalmStage, CalmPending, At, Phase, Scope
  <1>6. OwedIsPending' /\ OwedIsStopped' /\ SealedForCause'
    BY <1>1, <1>2, <1>3, <1>4 DEF HInv, OwedIsPending, OwedIsStopped, SealedForCause, Untouched, At, Phase, Scope
  <1> QED BY <1>5, <1>6 DEF HInv

\* What is still held after the release was not owed.
LEMMA ReleaseOwes ==
  ASSUME IInv, HInv, Release, Remember
  PROVE  HInv'
  <1>1. /\ ctl.pc = "release" /\ ctl'.pc = "finish" /\ journal # None
        /\ ctl'.mode = ctl.mode /\ ctl'.changed = ctl.changed
    BY DEF Release, Goto, At, IInv, TypeOK, Controllers
  <1>2. UNCHANGED <<journal, gateway, used>>
    BY DEF Release
  <1>3. /\ worker.state = "ready" /\ worker'.state = "ready" /\ worker'.hold = worker.hold /\ worker.hold = None
        /\ worker'.epoch = worker.epoch
        /\ worker' = worker \/ worker'.lease = NoLease
    BY DEF Release, CanRelease, Serves, IInv, TypeOK, Workers
  <1>4. ~Owed'
    <2>1. CASE worker'.lease = NoLease
      BY <1>3, <2>1, NoneHeld DEF Owed, Ours
    <2>2. CASE worker' = worker /\ worker.lease # NoLease
      <3>1. ~HeldBy(worker.lease, journal.id)
        <4> SUFFICES ASSUME HeldBy(worker.lease, journal.id) PROVE FALSE
          OBVIOUS
        <4>1. worker' = [worker EXCEPT !.lease = NoLease]
          BY DEF Release
        <4> QED BY <4>1, <2>2 DEF IInv, TypeOK, Workers
      <3>2. Owed => worker.lease.op = journal.id /\ Held(worker.lease)
        BY <1>3 DEF HInv, OwedIsPending, Owed, Ours
      <3> QED BY <2>2, <3>1, <3>2, SameWorker DEF HeldBy
    <2> QED BY <1>3, <2>1, <2>2, SameWorker
  <1>5. Calm'
    BY <1>1, <1>2, <1>3 DEF HInv, Calm, CalmStage, CalmPending, At, Phase, Scope
  <1>6. OwedIsPending' /\ OwedIsStopped' /\ SealedForCause'
    BY <1>1, <1>4 DEF OwedIsPending, OwedIsStopped, SealedForCause
  <1> QED BY <1>5, <1>6 DEF HInv

LEMMA CrashOwes ==
  ASSUME IInv, HInv, WorkerCrash \/ GatewayCrash, Remember
  PROVE  HInv'
  <1>1. UNCHANGED <<journal, ctl>> /\ used'.crashes # 0
    BY DEF WorkerCrash, GatewayCrash, Crash, IInv, TypeOK
  <1>2. Owed' => worker' = worker /\ Owed
    <2>1. CASE WorkerCrash
      BY <2>1, DownOwes DEF WorkerCrash, IInv
    <2>2. CASE GatewayCrash
      BY <2>2, SameWorker DEF GatewayCrash
    <2> QED BY <2>1, <2>2
  <1>3. Calm'
    BY <1>1 DEF Calm
  <1>4. OwedIsPending' /\ OwedIsStopped' /\ SealedForCause'
    BY <1>1, <1>2 DEF HInv, OwedIsPending, OwedIsStopped, SealedForCause, Untouched, At, Phase, Scope
  <1> QED BY <1>3, <1>4 DEF HInv

\* A worker that comes up held is owed its release or its stop, or comes up late.
LEMMA WorkerExecOwes ==
  ASSUME IInv, HInv, WorkerExec, Remember
  PROVE  HInv'
  <1>1. /\ UNCHANGED <<journal, gateway, ctl, used>>
        /\ worker.state = "starting" /\ worker'.state = "booting" /\ worker'.epoch # worker.epoch
        /\ worker'.hold = PendingOperation /\ worker'.lease = worker.lease /\ worker.lease = NoLease
    BY DEF WorkerExec, IInv, TypeOK, Workers
  <1>2. used.crashes = 0 /\ journal # None /\ Scope # "gateway" =>
          /\ ~At("finish") /\ ~(ctl.mode = "recover" /\ At("rollback"))
          /\ journal.prior.worker # "running" => Phase \in {"published", "committed"}
          /\ ~(ctl.mode = "recover" /\ Scope = "migration" /\ At("stopGateway"))
    BY <1>1 DEF HInv, Calm, CalmPending
  <1>3. /\ journal # None /\ Untouched /\ ~At("stage") =>
             Phase \in {"prepared", "rolling-back", "rolled-back"}
        /\ journal # None /\ At("unwrite") => Phase = "rolling-back"
        /\ ctl.mode = "undo" => ~At("stage")
    <2>1. /\ journal # None /\ At("unwrite") => Phase = "rolling-back"
          /\ ctl.mode = "undo" => ~At("stage")
      BY DEF IInv, Course, Undoing, At
    <2>2. CASE ctl.mode = "undo"
      BY <2>1, <2>2, JournalIs DEF IInv, Course, Undoing, At
    <2>3. CASE ctl.mode = "apply" /\ ~ctl.changed /\ ~At("stage") /\ journal # None
      BY <2>3 DEF IInv, Course, Applying, Stopping, At
    <2> QED BY <2>1, <2>2, <2>3 DEF Untouched
  <1>4. Calm'
    BY <1>1 DEF HInv, Calm, CalmStage, CalmPending, At, Phase, Scope
  <1>5. Owed' => journal # None /\ Scope # "gateway" /\ worker'.hold = journal.id /\ ~ComesUpLate
    BY <1>1, NoneHeld DEF Owed, Ours, Remember, PendingOperation
  <1>6. OwedIsPending'
    BY <1>1, <1>2, <1>5, NoneHeld DEF OwedIsPending, ComesUpLate, IInv, TypeOK, At, Scope
  <1>7. OwedIsStopped'
    BY <1>1, <1>2, <1>3, <1>5 DEF OwedIsStopped, ComesUpLate, NoStopLeft, Untouched, IInv, TypeOK, At, Phase, Scope
  <1>8. SealedForCause'
    BY <1>1 DEF HInv, SealedForCause
  <1> QED BY <1>4, <1>6, <1>7, <1>8 DEF HInv

LEMMA WorkerReadyOwes ==
  ASSUME IInv, HInv, WorkerReady, Remember
  PROVE  HInv'
  <1>1. /\ UNCHANGED <<journal, gateway, ctl, used>>
        /\ worker.state = "booting" /\ worker'.state = "ready" /\ worker'.epoch = worker.epoch
        /\ worker'.hold = None /\ worker'.lease = StartupHold(worker.hold)
    BY DEF WorkerReady, IInv, TypeOK, Workers
  <1>2. Held(worker'.lease) => worker.hold # None /\ worker'.lease.op = worker.hold
    BY <1>1, NoneHeld DEF StartupHold
  <1>3. Owed' => Owed
    BY <1>1, <1>2, StillOwed DEF Ours
  <1>4. Calm'
    BY <1>1 DEF HInv, Calm, CalmStage, CalmPending, At, Phase, Scope
  <1>5. OwedIsPending'
    BY <1>1, <1>2, <1>3 DEF HInv, OwedIsPending, At, Scope
  <1>6. OwedIsStopped' /\ SealedForCause'
    BY <1>1, <1>3 DEF HInv, OwedIsStopped, SealedForCause, Untouched, At, Phase, Scope
  <1> QED BY <1>4, <1>5, <1>6 DEF HInv

LEMMA GatewayUpOwes ==
  ASSUME IInv, HInv, GatewayUp, Remember
  PROVE  HInv'
  <1>1. /\ UNCHANGED <<journal, ctl, used>> /\ worker' \in {Start(worker), worker}
        /\ gateway.state = "starting" /\ gateway'.state = "running"
    BY DEF GatewayUp
  <1>2. /\ Owed' => Owed
        /\ worker' = worker \/ (worker.state = "stopped" /\ worker'.state = "starting")
    BY <1>1, StartOwes DEF IInv
  <1>3. Owed' => worker' = worker
    <2> SUFFICES ASSUME worker' # worker PROVE ~Owed'
      OBVIOUS
    <2>1. worker' = Down(worker, "starting")
      BY <1>1 DEF Start
    <2> QED BY <2>1, DownOwes DEF IInv
  <1>4. journal # None =>
          /\ Scope \in {"worker", "gateway", "migration"}
          /\ Phase = "committed" => worker.state # "stopped"
          /\ At("finish") => Phase \in {"committed", "rolled-back"}
    <2>1. journal # None => Scope \in {"worker", "gateway", "migration"}
      BY JournalIs DEF IInv, Scope
    <2>2. journal # None /\ Phase = "committed" => worker.state # "stopped"
      BY DEF IInv, WorkerKept, Ending
    <2>3. journal # None /\ At("finish") => Phase \in {"committed", "rolled-back"}
      BY DEF IInv, Course, Applying, Recovering, Undoing, TypeOK, Controllers, At
    <2> QED BY <2>1, <2>2, <2>3
  <1>5. Calm'
    BY <1>1, <1>2, <1>4 DEF HInv, Calm, CalmStage, CalmPending, At, Phase, Scope
  <1>6. OwedIsPending' /\ OwedIsStopped' /\ SealedForCause'
    BY <1>1, <1>2, <1>3 DEF HInv, OwedIsPending, OwedIsStopped, SealedForCause, Untouched, At, Phase, Scope
  <1> QED BY <1>5, <1>6 DEF HInv

\* Work and leases of other clients take no hold for an activation.
LEMMA OtherOwes ==
  ASSUME IInv, HInv, Remember, UNCHANGED <<journal, gateway, ctl, used.crashes>>,
         worker'.state = worker.state, worker'.hold = worker.hold, worker'.epoch = worker.epoch,
         Held(worker'.lease) /\ worker'.lease.op # Other =>
           Held(worker.lease) /\ worker'.lease.op = worker.lease.op
  PROVE  HInv'
  <1>1. Owed' => Owed
    BY StillOwed DEF Ours
  <1>2. Calm'
    BY DEF HInv, Calm, CalmStage, CalmPending, At, Phase, Scope
  <1>3. OwedIsPending' /\ OwedIsStopped' /\ SealedForCause'
    BY <1>1 DEF HInv, OwedIsPending, OwedIsStopped, SealedForCause, Untouched, At, Phase, Scope
  <1> QED BY <1>2, <1>3 DEF HInv

LEMMA WorkOwes ==
  ASSUME IInv, HInv, Remember,
         StartWork \/ EndWork \/ OtherAcquire \/ OtherSeal \/ OtherRelease \/ Expire
  PROVE  HInv'
  <1>1. worker \in Workers /\ UNCHANGED <<journal, gateway, ctl, used.crashes>>
    BY DEF StartWork, EndWork, OtherAcquire, OtherSeal, OtherRelease, Expire, IInv, TypeOK
  <1>2. CASE StartWork \/ EndWork
    <2>1. worker'.state = worker.state /\ worker'.hold = worker.hold /\ worker'.epoch = worker.epoch
          /\ worker'.lease = worker.lease
      BY <1>1, <1>2 DEF StartWork, EndWork, Workers
    <2> QED BY <1>1, <2>1, OtherOwes
  <1>3. CASE OtherAcquire
    <2>1. worker'.state = worker.state /\ worker'.hold = worker.hold /\ worker'.epoch = worker.epoch
          /\ worker'.lease.op = Other
      BY <1>1, <1>3 DEF OtherAcquire, Workers
    <2> QED BY <1>1, <2>1, OtherOwes
  <1>4. CASE OtherSeal
    <2>1. StartupHold(Other).op = Other
      BY Bounds DEF StartupHold, Other
    <2>2. worker'.state = worker.state /\ worker'.hold = worker.hold /\ worker'.epoch = worker.epoch
          /\ worker'.lease.op = Other
      BY <1>1, <1>4, <2>1 DEF OtherSeal, Workers
    <2> QED BY <1>1, <2>2, OtherOwes
  <1>5. CASE OtherRelease
    <2>1. worker'.state = worker.state /\ worker'.hold = worker.hold /\ worker'.epoch = worker.epoch
          /\ worker'.lease = NoLease
      BY <1>1, <1>5 DEF OtherRelease, Workers
    <2> QED BY <1>1, <2>1, NoneHeld, OtherOwes
  <1>6. CASE Expire
    <2>1. worker'.state = worker.state /\ worker'.hold = worker.hold /\ worker'.epoch = worker.epoch
          /\ worker'.lease.op = worker.lease.op /\ worker'.lease.sealed = worker.lease.sealed /\ worker.lease.live
      BY <1>1, <1>6 DEF Expire, Workers, Lease
    <2>2. Held(worker.lease)
      BY <2>1 DEF Held
    <2> QED BY <1>1, <2>1, <2>2, OtherOwes
  <1> QED BY <1>2, <1>3, <1>4, <1>5, <1>6

LEMMA HistoryInitHolds == HistoryInit => HInv
  <1> SUFFICES ASSUME HistoryInit PROVE HInv
    OBVIOUS
  <1>1. journal = None /\ ctl.pc = "idle" /\ worker.hold = None /\ worker.lease = NoLease
    BY DEF HistoryInit, Init, Idle
  <1>2. ~Owed
    BY <1>1, NoneHeld DEF Owed, Ours
  <1> QED BY <1>1, <1>2 DEF HInv, Calm, CalmStage, CalmPending, OwedIsPending, OwedIsStopped, SealedForCause, At

LEMMA HistoryNextKeeps == IInv /\ HInv /\ [HistoryNext]_<<vars, late>> => HInv'
  <1> SUFFICES ASSUME IInv, HInv, [HistoryNext]_<<vars, late>> PROVE HInv'
    OBVIOUS
  <1>1. ASSUME Remember, NEW scope \in Scopes, Preflight(scope) PROVE HInv'
    BY <1>1, PreflightOwes
  <1>2. CASE Remember /\ Controller
    BY <1>2, StageOwes, PrepareOwes, AcquireOwes, SealOwes, StopGatewayOwes, ObserveOwes, CheckOwes, KillOwes,
       PublishOwes, WriteOwes, RollbackOwes, UnwriteOwes, ReloadOwes, StartWorkerOwes, StartGatewayOwes,
       RestoreWorkerOwes, RestoreGatewayOwes, SettleOwes, ReceiptOwes, HoldOwes, CommitOwes, ReleaseOwes,
       FinishOwes, RecoverOwes, LoadOwes DEF Controller
  <1>3. CASE Remember /\ (Refuse \/ Fail \/ KillController)
    <2>1. ~At("idle")
      BY <1>3 DEF Refuse, Blocked, Fail, KillController, At
    <2>2. UNCHANGED <<files, loaded, journal, worker, gateway, used.crashes>>
      BY <1>3 DEF Refuse, Fail, KillController, Fault, IInv, TypeOK
    <2>3. ctl' = Raised(ChangesServices) \/ ctl' = Idle
      BY <1>3 DEF Refuse, Fail, KillController
    <2> QED BY <1>3, <2>1, <2>2, <2>3, RaiseOwes
  <1>4. CASE Remember /\ (WorkerCrash \/ GatewayCrash)
    BY <1>4, CrashOwes
  <1>5. CASE Remember /\ Services
    BY <1>5, WorkerExecOwes, WorkerReadyOwes, GatewayUpOwes DEF Services
  <1>6. CASE Remember /\ (StartWork \/ EndWork \/ OtherAcquire \/ OtherSeal \/ OtherRelease \/ Expire)
    BY <1>6, WorkOwes
  <1>7. CASE UNCHANGED <<vars, late>>
    BY <1>7 DEF vars, HInv, Calm, CalmStage, CalmPending, OwedIsPending, OwedIsStopped, SealedForCause,
      Owed, Ours, Untouched, At, Phase, Scope
  <1> QED BY <1>1, <1>2, <1>3, <1>4, <1>5, <1>6, <1>7 DEF HistoryNext, Next

\* No hold of an activation outlives its journal but that of a worker which a crash
\* brought up when the step that would have let go of it was over: in every scope and
\* through any kills, failed steps, crashes and recoveries (release before finish,
\* _stop_worker, the startup hold of a worker).
THEOREM HoldsEnd == HistorySpec => []HoldsRetired
  <1>1. HistoryInit => Init
    BY DEF HistoryInit
  <1>2. [HistoryNext]_<<vars, late>> => [Next]_vars
    BY DEF HistoryNext
  <1>3. IInv /\ HInv => HoldsRetired
    BY DEF HInv, OwedIsPending, Owed, HoldsRetired
  <1> QED BY <1>1, <1>2, <1>3, InitHolds, NextKeeps, HistoryInitHolds, HistoryNextKeeps, PTL DEF HistorySpec
=============================================================================
