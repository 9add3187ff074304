------------------------- MODULE InstallationLock --------------------------
(***************************************************************************)
(* The lock of an installation: a directory .install-lock that holds a     *)
(* file pid.  Four programs take it:                                       *)
(*   managers     InstallationLock of server/execution_manage.py           *)
(*   installers   install_lock_control of server/install.sh                *)
(*   recoverers   managers that first retire a lock they recognise, with   *)
(*                _reap_observed_lock of server/execution_recovery.py      *)
(*   uninstallers acquire_operation_lock of server/uninstall.sh            *)
(* Every file system call is a step of its own.  Directory p is the one    *)
(* that process p makes, and a process tries once; a process that dies     *)
(* stays dead and its pid is not used again.                               *)
(***************************************************************************)
EXTENDS Integers

CONSTANTS
  Managers, Installers, Recoverers, Uninstallers,
  Casts,     \* the sets of processes that may come together
  Mortal,    \* processes that may die before they are done
  Retries,   \* bound: renames a process tries (16 and 32 in the code)
  None

Procs == Managers \cup Installers \cup Recoverers \cup Uninstallers
Renamers == Managers \cup Installers \cup Recoverers

ASSUME LockAssumption ==
  /\ Recoverers \cap Installers = {} /\ Renamers \cap Uninstallers = {}
  /\ Managers \cap Installers = {} /\ Mortal \subseteq Procs
  /\ Casts \subseteq SUBSET Procs
  /\ Retries \in Nat \ {0}
  /\ None \notin Procs \cup [owner : Procs, inode : Procs] \cup [dir : Procs, file : [owner : Procs, inode : Procs]]

VARIABLES
  lock,      \* the directory at .install-lock, or None
  file,      \* the pid file of each directory, or None
  live,      \* which processes are alive
  pc,        \* where each process is
  fd,        \* the lock directory a process has opened, or moved away
  seen,      \* the pid file it has read there
  identity,  \* the lock directory it takes for its own
  tries,     \* its renames so far
  saved      \* the lock recorded for recovery, or None

vars == <<lock, file, live, pc, fd, seen, identity, tries, saved>>

\* A pid file: the pid it names, and the process that created it as its inode.
Files == [owner : Procs, inode : Procs]
OwnFile(p) == [owner |-> p, inode |-> p]

Acquiring == {"rename", "identify", "open", "read", "probe", "check", "unlink", "lstat"}
Releasing == {"retire", "remove", "rmdir"}
Recovering == {"observe", "verify", "reap", "clear"}
Uninstalling == {"mkdir", "cat", "kill", "move", "delete", "again", "write", "rm", "rmEmpty"}
Over == {"done", "failed"}

TypeOK ==
  /\ lock \in Procs \cup {None}
  /\ file \in [Procs -> Files \cup {None}]
  /\ live \in [Procs -> BOOLEAN]
  /\ pc \in [Procs -> {"held"} \cup Acquiring \cup Releasing \cup Recovering \cup Uninstalling \cup Over]
  /\ fd \in [Procs -> Procs \cup {None}]
  /\ seen \in [Procs -> Files \cup {None}]
  /\ identity \in [Procs -> Procs \cup {None}]
  /\ tries \in [Procs -> 0 .. Retries]
  /\ saved \in [dir : Procs, file : Files] \cup {None}

\* One of the casts is there.  A renamer's draft has its pid file before it is renamed.
Init ==
  /\ lock = None
  /\ file = [p \in Procs |-> IF p \in Renamers THEN OwnFile(p) ELSE None]
  /\ \E present \in Casts : live = [p \in Procs |-> p \in present]
  /\ pc = [p \in Procs |-> IF p \in Recoverers THEN "observe" ELSE IF p \in Uninstallers THEN "mkdir" ELSE "rename"]
  /\ fd = [p \in Procs |-> None]
  /\ seen = [p \in Procs |-> None]
  /\ identity = [p \in Procs |-> None]
  /\ tries = [p \in Procs |-> 0]
  /\ saved = None

At(p, label) == live[p] /\ pc[p] = label
Goto(p, label) == pc' = [pc EXCEPT ![p] = label]
Opened(p) == file[fd[p]]
SetFile(d, f) == file' = [file EXCEPT ![d] = f]

\* No lock directory, or one without a pid file.
Free == lock = None \/ file[lock] = None

-----------------------------------------------------------------------------
(* Acquiring: InstallationLock.__enter__ and install_lock_control acquire  *)

\* Mutant: rename does not replace an empty directory.
PublishAbsent(p) ==
  /\ At(p, "rename") /\ tries[p] < Retries
  /\ tries' = [tries EXCEPT ![p] = @ + 1]
  /\ IF lock = None THEN lock' = p /\ Goto(p, "identify") ELSE Goto(p, "open") /\ UNCHANGED lock
  /\ UNCHANGED <<file, live, fd, seen, identity, saved>>

\* Mutant: one rename too many.
PublishOnceMore(p) ==
  /\ At(p, "rename") /\ tries[p] <= Retries
  /\ tries' = [tries EXCEPT ![p] = @ + 1]
  /\ IF Free THEN lock' = p /\ Goto(p, "identify") ELSE Goto(p, "open") /\ UNCHANGED lock
  /\ UNCHANGED <<file, live, fd, seen, identity, saved>>

\* rename(2) replaces an empty directory, and fails on one with a pid file.
Publish(p) ==
  /\ At(p, "rename") /\ tries[p] < Retries
  /\ tries' = [tries EXCEPT ![p] = @ + 1]
  /\ IF Free THEN lock' = p /\ Goto(p, "identify") ELSE Goto(p, "open") /\ UNCHANGED lock
  /\ UNCHANGED <<file, live, fd, seen, identity, saved>>

GiveUp(p) ==
  /\ At(p, "rename") /\ tries[p] = Retries
  /\ Goto(p, "failed")
  /\ UNCHANGED <<lock, file, live, fd, seen, identity, tries, saved>>

\* A manager believes the directory it finds, an installer knows its own.
Identify(p) ==
  /\ At(p, "identify")
  /\ IF lock # None /\ (p \in Installers => lock = p)
     THEN identity' = [identity EXCEPT ![p] = lock] /\ Goto(p, "held")
     ELSE Goto(p, "failed") /\ UNCHANGED identity
  /\ UNCHANGED <<lock, file, live, fd, seen, tries, saved>>

Open(p) ==
  /\ At(p, "open")
  /\ IF lock = None THEN Goto(p, "failed") /\ UNCHANGED fd
     ELSE fd' = [fd EXCEPT ![p] = lock] /\ Goto(p, "read")
  /\ UNCHANGED <<lock, file, live, seen, identity, tries, saved>>

Read(p) ==
  /\ At(p, "read")
  /\ seen' = [seen EXCEPT ![p] = Opened(p)]
  /\ Goto(p, IF Opened(p) = None THEN "rename" ELSE "probe")
  /\ UNCHANGED <<lock, file, live, fd, identity, tries, saved>>

Probe(p) ==
  /\ At(p, "probe")
  /\ Goto(p, IF live[seen[p].owner] THEN "failed" ELSE "check")
  /\ UNCHANGED <<lock, file, live, fd, seen, identity, tries, saved>>

\* A pid file that is gone: install.sh tries again, the manager's call raises.
IfGone(p) == IF p \in Installers THEN "rename" ELSE "failed"

\* A manager compares the inode of the file, an installer its contents as well.
Unchanged(p) == IF p \in Installers THEN Opened(p) = seen[p] ELSE Opened(p).inode = seen[p].inode

Check(p) ==
  /\ At(p, "check")
  /\ Goto(p, IF Opened(p) = None THEN IfGone(p) ELSE IF Unchanged(p) THEN "unlink" ELSE "rename")
  /\ UNCHANGED <<lock, file, live, fd, seen, identity, tries, saved>>

\* Mutant: the pid file is unlinked by its path.
UnlinkByPath(p) ==
  /\ At(p, "unlink")
  /\ IF Free THEN Goto(p, IfGone(p)) /\ UNCHANGED file
     ELSE SetFile(lock, None) /\ Goto(p, IF p \in Installers THEN "rename" ELSE "lstat")
  /\ UNCHANGED <<lock, live, fd, seen, identity, tries, saved>>

\* unlinkat in the directory that was opened, whatever is at the path by now.
Unlink(p) ==
  /\ At(p, "unlink")
  /\ IF Opened(p) = None THEN Goto(p, IfGone(p)) /\ UNCHANGED file
     ELSE SetFile(fd[p], None) /\ Goto(p, IF p \in Installers THEN "rename" ELSE "lstat")
  /\ UNCHANGED <<lock, live, fd, seen, identity, tries, saved>>

Lstat(p) ==
  /\ At(p, "lstat")
  /\ Goto(p, IF lock = None THEN "failed" ELSE "rename")
  /\ UNCHANGED <<lock, file, live, fd, seen, identity, tries, saved>>

-----------------------------------------------------------------------------
(* Releasing: InstallationLock.__exit__ and install_lock_control release   *)

Owned(p) == lock # None /\ lock = identity[p] /\ file[lock] # None /\ file[lock].owner = p

Leave(p) ==
  /\ At(p, "held") /\ p \in Renamers
  /\ IF Owned(p) THEN fd' = [fd EXCEPT ![p] = lock] /\ Goto(p, "retire")
     ELSE Goto(p, "failed") /\ UNCHANGED fd
  /\ UNCHANGED <<lock, file, live, seen, identity, tries, saved>>

Retire(p) ==
  /\ At(p, "retire")
  /\ IF Opened(p) = None THEN Goto(p, "failed") /\ UNCHANGED file
     ELSE SetFile(fd[p], None) /\ Goto(p, "remove")
  /\ UNCHANGED <<lock, live, fd, seen, identity, tries, saved>>

Remove(p) ==
  /\ At(p, "remove")
  /\ Goto(p, IF lock = identity[p] THEN "rmdir" ELSE "failed")
  /\ UNCHANGED <<lock, file, live, fd, seen, identity, tries, saved>>

\* rmdir removes the directory at the path if it is empty.
RmdirLock == lock # None /\ file[lock] = None /\ lock' = None

Rmdir(p) ==
  /\ At(p, "rmdir")
  /\ \/ RmdirLock /\ Goto(p, "done")
     \/ ~(lock # None /\ file[lock] = None) /\ Goto(p, "failed") /\ UNCHANGED lock
  /\ UNCHANGED <<file, live, fd, seen, identity, tries, saved>>

-----------------------------------------------------------------------------
(* Recovery: observe_lock and _reap_observed_lock                          *)

\* An installer that holds the lock records which one it is.
ObserveLock(p) ==
  /\ At(p, "held") /\ p \in Installers
  /\ lock # None /\ file[lock] # None /\ file[lock].owner = p
  /\ saved' = [dir |-> lock, file |-> file[lock]]
  /\ UNCHANGED <<lock, file, live, pc, fd, seen, identity, tries>>

Recognised == lock = saved.dir /\ file[lock] = saved.file /\ ~live[saved.file.owner]

Inspect(p) ==
  /\ At(p, "observe")
  /\ \/ lock = None /\ Goto(p, "rename") /\ UNCHANGED fd
     \/ lock # None /\ (saved = None \/ file[lock] = None) /\ Goto(p, "failed") /\ UNCHANGED fd
     \/ /\ ~Free /\ saved # None
        /\ IF Recognised THEN fd' = [fd EXCEPT ![p] = lock] /\ Goto(p, "verify")
           ELSE Goto(p, "rename") /\ UNCHANGED fd
  /\ UNCHANGED <<lock, file, live, seen, identity, tries, saved>>

Verify(p) ==
  /\ At(p, "verify")
  /\ seen' = [seen EXCEPT ![p] = Opened(p)]
  /\ Goto(p, IF lock = fd[p] /\ Opened(p) = saved.file /\ ~live[saved.file.owner] THEN "reap" ELSE "failed")
  /\ UNCHANGED <<lock, file, live, fd, identity, tries, saved>>

\* Mutant: the recorded pid file is unlinked by its path.
ReapByPath(p) ==
  /\ At(p, "reap")
  /\ IF Free THEN Goto(p, "failed") /\ UNCHANGED file ELSE SetFile(lock, None) /\ Goto(p, "clear")
  /\ UNCHANGED <<lock, live, fd, seen, identity, tries, saved>>

Reap(p) ==
  /\ At(p, "reap")
  /\ IF Opened(p) = None THEN Goto(p, "failed") /\ UNCHANGED file
     ELSE SetFile(fd[p], None) /\ Goto(p, "clear")
  /\ UNCHANGED <<lock, live, fd, seen, identity, tries, saved>>

Clear(p) ==
  /\ At(p, "clear")
  /\ \/ RmdirLock /\ Goto(p, "rename")
     \/ ~(lock # None /\ file[lock] = None) /\ Goto(p, "failed") /\ UNCHANGED lock
  /\ UNCHANGED <<file, live, fd, seen, identity, tries, saved>>

-----------------------------------------------------------------------------
(* Uninstalling: acquire_operation_lock and release_operation_lock         *)

Mkdir(p) ==
  /\ \/ At(p, "mkdir") /\ Goto(p, IF lock = None THEN "write" ELSE "cat")
     \/ At(p, "again") /\ Goto(p, IF lock = None THEN "write" ELSE "failed")
  /\ lock' = IF lock = None THEN p ELSE lock
  /\ UNCHANGED <<file, live, fd, seen, identity, tries, saved>>

Cat(p) ==
  /\ At(p, "cat")
  /\ seen' = [seen EXCEPT ![p] = IF Free THEN None ELSE file[lock]]
  /\ Goto(p, IF Free THEN "move" ELSE "kill")
  /\ UNCHANGED <<lock, file, live, fd, identity, tries, saved>>

Kill(p) ==
  /\ At(p, "kill")
  /\ Goto(p, IF live[seen[p].owner] THEN "failed" ELSE "move")
  /\ UNCHANGED <<lock, file, live, fd, seen, identity, tries, saved>>

Move(p) ==
  /\ At(p, "move")
  /\ fd' = [fd EXCEPT ![p] = lock]
  /\ lock' = None
  /\ Goto(p, IF lock = None THEN "failed" ELSE "delete")
  /\ UNCHANGED <<file, live, seen, identity, tries, saved>>

Delete(p) ==
  /\ At(p, "delete")
  /\ SetFile(fd[p], None) /\ Goto(p, "again")
  /\ UNCHANGED <<lock, live, fd, seen, identity, tries, saved>>

\* The pid is written to the lock directory that is at the path by now; a write
\* that fails goes unnoticed, the caller's || switches set -e off.
Write(p) ==
  /\ At(p, "write")
  /\ IF lock = None THEN UNCHANGED file
     ELSE SetFile(lock, IF file[lock] = None THEN OwnFile(p) ELSE [owner |-> p, inode |-> file[lock].inode])
  /\ Goto(p, "held")
  /\ UNCHANGED <<lock, live, fd, seen, identity, tries, saved>>

Uninstalled(p) ==
  /\ At(p, "held") /\ p \in Uninstallers
  /\ Goto(p, IF ~Free /\ file[lock].owner = p THEN "rm" ELSE "done")
  /\ UNCHANGED <<lock, file, live, fd, seen, identity, tries, saved>>

\* rm -rf of the path: the pid file, then the directory if it is empty.
Rm(p) ==
  /\ \/ /\ At(p, "rm") /\ lock # None
        /\ SetFile(lock, None) /\ Goto(p, "rmEmpty") /\ UNCHANGED lock
     \/ /\ At(p, "rm") /\ lock = None
        /\ Goto(p, "done") /\ UNCHANGED <<lock, file>>
     \/ /\ At(p, "rmEmpty")
        /\ lock' = IF Free THEN None ELSE lock
        /\ Goto(p, "done") /\ UNCHANGED file
  /\ UNCHANGED <<live, fd, seen, identity, tries, saved>>

-----------------------------------------------------------------------------

Die(p) ==
  /\ p \in Mortal /\ live[p] /\ pc[p] \notin Over
  /\ live' = [live EXCEPT ![p] = FALSE]
  /\ UNCHANGED <<lock, file, pc, fd, seen, identity, tries, saved>>

Acquire(p) == Publish(p) \/ GiveUp(p) \/ Identify(p) \/ Open(p) \/ Read(p) \/ Probe(p) \/ Check(p) \/ Unlink(p) \/ Lstat(p)
Release(p) == Leave(p) \/ Retire(p) \/ Remove(p) \/ Rmdir(p)
Recover(p) == Inspect(p) \/ Verify(p) \/ Reap(p) \/ Clear(p)
Uninstall(p) == Mkdir(p) \/ Cat(p) \/ Kill(p) \/ Move(p) \/ Delete(p) \/ Write(p) \/ Uninstalled(p) \/ Rm(p)

Next ==
  \E p \in Procs : Acquire(p) \/ Release(p) \/ Recover(p) \/ ObserveLock(p) \/ Uninstall(p) \/ Die(p)

Spec == Init /\ [][Next]_vars

\* A process that lives goes on, except that it may hold the lock for ever.
LiveSpec ==
  /\ Spec
  /\ \A p \in Procs : WF_vars(pc[p] # "held" /\ (Acquire(p) \/ Recover(p) \/ Uninstall(p)))

-----------------------------------------------------------------------------
(* Properties                                                              *)

Holds(p) == live[p] /\ pc[p] = "held"

\* Two live processes never hold the lock at once, however many of them reap the
\* lock of a dead one at the same time (execution_manage.py:34-128, install.sh).
MutualExclusion == \A p, q \in Procs : Holds(p) /\ Holds(q) => p = q

\* A live owner's pid file is removed or overwritten by nobody else: reapers
\* touch the directory of the dead owner they looked at and no newer one.
LiveOwnerKept ==
  [][\A d \in Procs :
       file[d] # None /\ file'[d] # file[d] =>
         ~live[file[d].owner] \/ pc'[file[d].owner] # pc[file[d].owner]]_vars

Fresh(p) == At(p, "mkdir") \/ (At(p, "rename") /\ tries[p] = 0)

\* The lock of a dead owner keeps nobody out for ever: while a contender is about to
\* try, and no owner is just letting go of it, one contender gets in, however the
\* contenders disturb each other (the loop of renames in __enter__ and acquire).
StaleLockTaken ==
  (/\ \E p, q \in Procs : lock = p /\ ~live[p] /\ Fresh(q)
   /\ \A r \in Procs : live[r] => pc[r] \notin Releasing \cup {"rm", "rmEmpty"})
    ~> (\E p \in Procs : Holds(p))
=============================================================================
