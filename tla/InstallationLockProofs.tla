---------------------- MODULE InstallationLockProofs -----------------------
(***************************************************************************)
(* Proofs about InstallationLock.  Types hold for every cast.  Without     *)
(* uninstallers, any number of managers, installers and recoverers, any of *)
(* which may die at any step, never hold the lock together and never touch *)
(* a live owner's pid file.  The induction rests on one fact: directory d  *)
(* has the pid file that d's process wrote before the rename, or none, and *)
(* whoever is about to unlink the file of another has seen its owner dead. *)
(***************************************************************************)
EXTENDS InstallationLock, TLAPS

Owning == {"identify", "held", "retire"}
Looking == {"read", "probe", "check", "unlink", "verify", "reap"}
Certain == {"check", "unlink", "verify", "reap"}

\* What holds of each process and of the directory it made.
Sound(p) ==
  /\ file[p] \in {None, OwnFile(p)}
  /\ pc[p] \notin Uninstalling
  /\ live[p] /\ pc[p] \in Acquiring \cup Recovering \cup Owning => file[p] = OwnFile(p)
  /\ live[p] /\ pc[p] \in Owning => lock = p
  /\ pc[p] = "retire" => fd[p] = p
  /\ pc[p] \in Looking => fd[p] \in Procs
  /\ pc[p] \in {"probe", "check", "unlink"} => seen[p] = OwnFile(fd[p])
  /\ pc[p] \in Certain => ~live[fd[p]]

Ind == TypeOK /\ \A p \in Procs : Sound(p)

LEMMA NoneIsNone ==
  /\ None \notin Procs
  /\ \A p \in Procs : OwnFile(p) \in Files /\ OwnFile(p) # None /\ OwnFile(p).owner = p
  /\ None \notin Files
BY LockAssumption DEF OwnFile, Files

\* The initial states: every draft has its own pid file and nobody owns the lock.
LEMMA InitInd ==
  ASSUME Uninstallers = {}, Init
  PROVE  Ind
<1>1. TypeOK
  BY NoneIsNone, LockAssumption
  DEF Init, TypeOK, Acquiring, Releasing, Recovering, Uninstalling, Over, Procs, Renamers
<1>2. ASSUME NEW p \in Procs PROVE Sound(p)
  BY NoneIsNone DEF Init, Sound, Uninstalling, Owning, Looking, Certain, Procs, Renamers
<1> QED
  BY <1>1, <1>2 DEF Ind

-----------------------------------------------------------------------------

\* The steps of acquiring keep the induction hypothesis.
LEMMA AcquireInd ==
  ASSUME Ind, NEW p \in Procs, Acquire(p)
  PROVE  Ind'
<1> USE NoneIsNone
<1>0. TypeOK /\ Sound(p) /\ pc[p] \notin Over
  BY DEF Ind, Acquire, Publish, GiveUp, Identify, Open, Read, Probe, Check, Unlink, Lstat, At, Over
<1>1. CASE Publish(p)
  <2>1. TypeOK'
    BY <1>0, <1>1, LockAssumption DEF TypeOK, Publish, At, Goto, Acquiring
  <2>2. ASSUME NEW q \in Procs PROVE Sound(q)'
    BY <1>0, <1>1, <2>2 DEF Ind, TypeOK, Sound, Publish, At, Goto, Free, Acquiring, Recovering, Uninstalling, Owning, Looking, Certain
  <2> QED BY <2>1, <2>2 DEF Ind
<1>2. CASE GiveUp(p)
  <2>1. TypeOK'
    BY <1>0, <1>2 DEF TypeOK, GiveUp, At, Goto, Over
  <2>2. ASSUME NEW q \in Procs PROVE Sound(q)'
    BY <1>0, <1>2, <2>2 DEF Ind, TypeOK, Sound, GiveUp, At, Goto, Acquiring, Recovering, Uninstalling, Owning, Looking, Certain
  <2> QED BY <2>1, <2>2 DEF Ind
<1>3. CASE Identify(p)
  <2>1. TypeOK'
    BY <1>0, <1>3 DEF TypeOK, Identify, At, Goto, Over
  <2>2. ASSUME NEW q \in Procs PROVE Sound(q)'
    BY <1>0, <1>3, <2>2 DEF Ind, TypeOK, Sound, Identify, At, Goto, Acquiring, Recovering, Uninstalling, Owning, Looking, Certain
  <2> QED BY <2>1, <2>2 DEF Ind
<1>4. CASE Open(p)
  <2>1. TypeOK'
    BY <1>0, <1>4 DEF TypeOK, Open, At, Goto, Acquiring, Over
  <2>2. ASSUME NEW q \in Procs PROVE Sound(q)'
    BY <1>0, <1>4, <2>2 DEF Ind, TypeOK, Sound, Open, At, Goto, Acquiring, Recovering, Uninstalling, Owning, Looking, Certain
  <2> QED BY <2>1, <2>2 DEF Ind
<1>5. CASE Read(p)
  <2>0. fd[p] \in Procs /\ Sound(fd[p])
    BY <1>0, <1>5 DEF Ind, Sound, Read, At, Looking
  <2>1. TypeOK'
    BY <1>0, <1>5, <2>0 DEF TypeOK, Read, At, Goto, Opened, Acquiring
  <2>2. ASSUME NEW q \in Procs PROVE Sound(q)'
    BY <1>0, <1>5, <2>0, <2>2 DEF Ind, TypeOK, Sound, Read, At, Goto, Opened, Acquiring, Recovering, Uninstalling, Owning, Looking, Certain
  <2> QED BY <2>1, <2>2 DEF Ind
<1>6. CASE Probe(p)
  <2>1. TypeOK'
    BY <1>0, <1>6 DEF TypeOK, Probe, At, Goto, Acquiring, Over
  <2>2. ASSUME NEW q \in Procs PROVE Sound(q)'
    BY <1>0, <1>6, <2>2 DEF Ind, TypeOK, Sound, Probe, At, Goto, OwnFile, Acquiring, Recovering, Uninstalling, Owning, Looking, Certain
  <2> QED BY <2>1, <2>2 DEF Ind
<1>7. CASE Check(p)
  <2>1. TypeOK'
    BY <1>0, <1>7 DEF TypeOK, Check, At, Goto, IfGone, Acquiring, Over
  <2>2. ASSUME NEW q \in Procs PROVE Sound(q)'
    BY <1>0, <1>7, <2>2 DEF Ind, TypeOK, Sound, Check, At, Goto, IfGone, Acquiring, Recovering, Uninstalling, Owning, Looking, Certain
  <2> QED BY <2>1, <2>2 DEF Ind
<1>8. CASE Unlink(p)
  <2>0. fd[p] \in Procs /\ ~live[fd[p]] /\ Sound(fd[p])
    BY <1>0, <1>8 DEF Ind, Sound, Unlink, At, Looking, Certain
  <2>1. TypeOK'
    BY <1>0, <1>8, <2>0 DEF TypeOK, Unlink, At, Goto, SetFile, IfGone, Acquiring, Over
  <2>2. ASSUME NEW q \in Procs PROVE Sound(q)'
    BY <1>0, <1>8, <2>0, <2>2 DEF Ind, TypeOK, Sound, Unlink, At, Goto, SetFile, IfGone, Acquiring, Recovering, Uninstalling, Owning, Looking, Certain
  <2> QED BY <2>1, <2>2 DEF Ind
<1>9. CASE Lstat(p)
  <2>1. TypeOK'
    BY <1>0, <1>9 DEF TypeOK, Lstat, At, Goto, Acquiring, Over
  <2>2. ASSUME NEW q \in Procs PROVE Sound(q)'
    BY <1>0, <1>9, <2>2 DEF Ind, TypeOK, Sound, Lstat, At, Goto, Acquiring, Recovering, Uninstalling, Owning, Looking, Certain
  <2> QED BY <2>1, <2>2 DEF Ind
<1> QED
  BY <1>1, <1>2, <1>3, <1>4, <1>5, <1>6, <1>7, <1>8, <1>9 DEF Acquire

\* The steps of releasing keep it: a holder finds its own directory at the path.
LEMMA ReleaseInd ==
  ASSUME Ind, NEW p \in Procs, Release(p)
  PROVE  Ind'
<1> USE NoneIsNone
<1>0. TypeOK /\ Sound(p)
  BY DEF Ind
<1>1. CASE Leave(p)
  <2>1. TypeOK'
    BY <1>0, <1>1 DEF TypeOK, Leave, At, Goto, Owned, Releasing, Over
  <2>2. ASSUME NEW q \in Procs PROVE Sound(q)'
    BY <1>0, <1>1, <2>2 DEF Ind, TypeOK, Sound, Leave, At, Goto, Owned, Acquiring, Recovering, Uninstalling, Owning, Looking, Certain
  <2> QED BY <2>1, <2>2 DEF Ind
<1>2. CASE Retire(p)
  <2>0. fd[p] = p
    BY <1>0, <1>2 DEF Sound, Retire, At
  <2>1. TypeOK'
    BY <1>0, <1>2, <2>0 DEF TypeOK, Retire, At, Goto, SetFile, Releasing, Over
  <2>2. ASSUME NEW q \in Procs PROVE Sound(q)'
    BY <1>0, <1>2, <2>0, <2>2 DEF Ind, TypeOK, Sound, Retire, At, Goto, SetFile, Acquiring, Recovering, Uninstalling, Owning, Looking, Certain
  <2> QED BY <2>1, <2>2 DEF Ind
<1>3. CASE Remove(p)
  <2>1. TypeOK'
    BY <1>0, <1>3 DEF TypeOK, Remove, At, Goto, Releasing, Over
  <2>2. ASSUME NEW q \in Procs PROVE Sound(q)'
    BY <1>0, <1>3, <2>2 DEF Ind, TypeOK, Sound, Remove, At, Goto, Acquiring, Recovering, Uninstalling, Owning, Looking, Certain
  <2> QED BY <2>1, <2>2 DEF Ind
<1>4. CASE Rmdir(p)
  <2>1. TypeOK'
    BY <1>0, <1>4 DEF TypeOK, Rmdir, RmdirLock, At, Goto, Over
  <2>2. ASSUME NEW q \in Procs PROVE Sound(q)'
    BY <1>0, <1>4, <2>2 DEF Ind, TypeOK, Sound, Rmdir, RmdirLock, At, Goto, Acquiring, Recovering, Uninstalling, Owning, Looking, Certain
  <2> QED BY <2>1, <2>2 DEF Ind
<1> QED
  BY <1>1, <1>2, <1>3, <1>4 DEF Release

\* So do the steps of a recoverer: the lock it recognises has a dead owner.
LEMMA RecoverInd ==
  ASSUME Ind, NEW p \in Procs, Recover(p)
  PROVE  Ind'
<1> USE NoneIsNone
<1>0. TypeOK /\ Sound(p)
  BY DEF Ind
<1>1. CASE Inspect(p)
  <2>1. TypeOK'
    BY <1>0, <1>1 DEF TypeOK, Inspect, At, Goto, Acquiring, Recovering, Over
  <2>2. ASSUME pc'[p] = "verify" PROVE lock \in Procs /\ fd'[p] = lock /\ ~live[lock]
    <3>1. lock \in Procs /\ file[lock] # None /\ Recognised /\ fd'[p] = lock
      BY <1>0, <1>1, <2>2 DEF TypeOK, Inspect, At, Goto, Free
    <3>2. file[lock] = OwnFile(lock)
      BY <3>1 DEF Ind, Sound
    <3> QED BY <3>1, <3>2 DEF Recognised
  <2>3. ASSUME NEW q \in Procs PROVE Sound(q)'
    BY <1>0, <1>1, <2>2, <2>3 DEF Ind, TypeOK, Sound, Inspect, At, Goto, Acquiring, Recovering, Uninstalling, Owning, Looking, Certain
  <2> QED BY <2>1, <2>3 DEF Ind
<1>2. CASE Verify(p)
  <2>0. fd[p] \in Procs
    BY <1>0, <1>2 DEF Sound, Verify, At, Looking
  <2>1. TypeOK'
    BY <1>0, <1>2, <2>0 DEF TypeOK, Verify, At, Goto, Opened, Recovering, Over
  <2>2. ASSUME NEW q \in Procs PROVE Sound(q)'
    BY <1>0, <1>2, <2>0, <2>2 DEF Ind, TypeOK, Sound, Verify, At, Goto, Acquiring, Recovering, Uninstalling, Owning, Looking, Certain
  <2> QED BY <2>1, <2>2 DEF Ind
<1>3. CASE Reap(p)
  <2>0. fd[p] \in Procs /\ ~live[fd[p]]
    BY <1>0, <1>3 DEF Sound, Reap, At, Looking, Certain
  <2>1. TypeOK'
    BY <1>0, <1>3, <2>0 DEF TypeOK, Reap, At, Goto, SetFile, Recovering, Over
  <2>2. ASSUME NEW q \in Procs PROVE Sound(q)'
    BY <1>0, <1>3, <2>0, <2>2 DEF Ind, TypeOK, Sound, Reap, At, Goto, SetFile, Acquiring, Recovering, Uninstalling, Owning, Looking, Certain
  <2> QED BY <2>1, <2>2 DEF Ind
<1>4. CASE Clear(p)
  <2>1. TypeOK'
    BY <1>0, <1>4 DEF TypeOK, Clear, RmdirLock, At, Goto, Acquiring, Over
  <2>2. ASSUME NEW q \in Procs PROVE Sound(q)'
    BY <1>0, <1>4, <2>2 DEF Ind, TypeOK, Sound, Clear, RmdirLock, At, Goto, Acquiring, Recovering, Uninstalling, Owning, Looking, Certain
  <2> QED BY <2>1, <2>2 DEF Ind
<1> QED
  BY <1>1, <1>2, <1>3, <1>4 DEF Recover

\* Recording the lock and dying keep it.
LEMMA ObserveInd ==
  ASSUME Ind, NEW p \in Procs, ObserveLock(p)
  PROVE  Ind'
<1>1. TypeOK'
  BY NoneIsNone DEF Ind, TypeOK, ObserveLock, At
<1>2. ASSUME NEW q \in Procs PROVE Sound(q)'
  BY <1>2 DEF Ind, Sound, ObserveLock
<1> QED BY <1>1, <1>2 DEF Ind

LEMMA DieInd ==
  ASSUME Ind, NEW p \in Procs, Die(p)
  PROVE  Ind'
<1>1. TypeOK'
  BY DEF Ind, TypeOK, Die
<1>2. ASSUME NEW q \in Procs PROVE Sound(q)'
  BY <1>2 DEF Ind, TypeOK, Sound, Die, Looking, Certain
<1> QED BY <1>1, <1>2 DEF Ind

\* Nobody uninstalls.
LEMMA UninstallInd ==
  ASSUME Ind, Uninstallers = {}, NEW p \in Procs
  PROVE  ~Uninstall(p)
<1>1. pc[p] \notin Uninstalling
  BY DEF Ind, Sound
<1> QED
  BY <1>1 DEF Uninstall, Mkdir, Cat, Kill, Move, Delete, Write, Uninstalled, Rm, At, Uninstalling

LEMMA StepInd ==
  ASSUME Ind, Uninstallers = {}, [Next]_vars
  PROVE  Ind'
<1>1. CASE UNCHANGED vars
  BY <1>1 DEF vars, Ind, TypeOK, Sound
<1>2. CASE Next
  <2>1. PICK p \in Procs : Acquire(p) \/ Release(p) \/ Recover(p) \/ ObserveLock(p) \/ Uninstall(p) \/ Die(p)
    BY <1>2 DEF Next
  <2> QED
    BY <2>1, AcquireInd, ReleaseInd, RecoverInd, ObserveInd, UninstallInd, DieInd
<1> QED BY <1>1, <1>2

-----------------------------------------------------------------------------

\* Types need no exclusion: only that whoever reads a pid file has opened a
\* directory.
Opening == \A p \in Procs : pc[p] \in {"read", "verify"} => fd[p] \in Procs

LEMMA AcquireTypes ==
  ASSUME TypeOK, Opening, NEW p \in Procs, Acquire(p)
  PROVE  TypeOK' /\ Opening'
<1> USE NoneIsNone, LockAssumption
<1>1. CASE Publish(p)
  <2>1. TypeOK'
    BY <1>1 DEF TypeOK, Opening, Publish, At, Goto, Free,
       Acquiring, Releasing, Recovering, Uninstalling, Over
  <2>2. Opening'
    BY <1>1 DEF TypeOK, Opening, Publish, At, Goto, Free
  <2> QED BY <2>1, <2>2
<1>2. CASE GiveUp(p)
  <2>1. TypeOK'
    BY <1>2 DEF TypeOK, Opening, GiveUp, At, Goto,
       Acquiring, Releasing, Recovering, Uninstalling, Over
  <2>2. Opening'
    BY <1>2 DEF TypeOK, Opening, GiveUp, At, Goto
  <2> QED BY <2>1, <2>2
<1>3. CASE Identify(p)
  <2>1. TypeOK'
    BY <1>3 DEF TypeOK, Opening, Identify, At, Goto,
       Acquiring, Releasing, Recovering, Uninstalling, Over
  <2>2. Opening'
    BY <1>3 DEF TypeOK, Opening, Identify, At, Goto
  <2> QED BY <2>1, <2>2
<1>4. CASE Open(p)
  <2>1. TypeOK'
    BY <1>4 DEF TypeOK, Opening, Open, At, Goto,
       Acquiring, Releasing, Recovering, Uninstalling, Over
  <2>2. Opening'
    BY <1>4 DEF TypeOK, Opening, Open, At, Goto
  <2> QED BY <2>1, <2>2
<1>5. CASE Read(p)
  <2>1. TypeOK'
    BY <1>5 DEF TypeOK, Opening, Read, At, Goto, Opened,
       Acquiring, Releasing, Recovering, Uninstalling, Over
  <2>2. Opening'
    BY <1>5 DEF TypeOK, Opening, Read, At, Goto, Opened
  <2> QED BY <2>1, <2>2
<1>6. CASE Probe(p)
  <2>1. TypeOK'
    BY <1>6 DEF TypeOK, Opening, Probe, At, Goto,
       Acquiring, Releasing, Recovering, Uninstalling, Over
  <2>2. Opening'
    BY <1>6 DEF TypeOK, Opening, Probe, At, Goto
  <2> QED BY <2>1, <2>2
<1>7. CASE Check(p)
  <2>1. TypeOK'
    BY <1>7 DEF TypeOK, Opening, Check, At, Goto, Opened, IfGone,
       Acquiring, Releasing, Recovering, Uninstalling, Over
  <2>2. Opening'
    BY <1>7 DEF TypeOK, Opening, Check, At, Goto, Opened, IfGone
  <2> QED BY <2>1, <2>2
<1>8. CASE Unlink(p)
  <2>1. TypeOK'
    BY <1>8 DEF TypeOK, Opening, Unlink, At, Goto, Opened, SetFile, IfGone,
       Acquiring, Releasing, Recovering, Uninstalling, Over
  <2>2. Opening'
    BY <1>8 DEF TypeOK, Opening, Unlink, At, Goto, Opened, SetFile, IfGone
  <2> QED BY <2>1, <2>2
<1>9. CASE Lstat(p)
  <2>1. TypeOK'
    BY <1>9 DEF TypeOK, Opening, Lstat, At, Goto,
       Acquiring, Releasing, Recovering, Uninstalling, Over
  <2>2. Opening'
    BY <1>9 DEF TypeOK, Opening, Lstat, At, Goto, IfGone
  <2> QED BY <2>1, <2>2
<1> QED
  BY <1>1, <1>2, <1>3, <1>4, <1>5, <1>6, <1>7, <1>8, <1>9 DEF Acquire

LEMMA ReleaseTypes ==
  ASSUME TypeOK, Opening, NEW p \in Procs, Release(p)
  PROVE  TypeOK' /\ Opening'
<1> USE NoneIsNone, LockAssumption
<1>1. CASE Leave(p)
  <2>1. TypeOK'
    BY <1>1 DEF TypeOK, Opening, Leave, At, Goto,
       Acquiring, Releasing, Recovering, Uninstalling, Over
  <2>2. Opening'
    BY <1>1 DEF TypeOK, Opening, Leave, At, Goto
  <2> QED BY <2>1, <2>2
<1>2. CASE Retire(p)
  <2>1. TypeOK'
    BY <1>2 DEF TypeOK, Opening, Retire, At, Goto, Opened, SetFile,
       Acquiring, Releasing, Recovering, Uninstalling, Over
  <2>2. Opening'
    BY <1>2 DEF TypeOK, Opening, Retire, At, Goto, Opened, SetFile
  <2> QED BY <2>1, <2>2
<1>3. CASE Remove(p)
  <2>1. TypeOK'
    BY <1>3 DEF TypeOK, Opening, Remove, At, Goto,
       Acquiring, Releasing, Recovering, Uninstalling, Over
  <2>2. Opening'
    BY <1>3 DEF TypeOK, Opening, Remove, At, Goto
  <2> QED BY <2>1, <2>2
<1>4. CASE Rmdir(p)
  <2>1. TypeOK'
    BY <1>4 DEF TypeOK, Opening, Rmdir, At, Goto, RmdirLock,
       Acquiring, Releasing, Recovering, Uninstalling, Over
  <2>2. Opening'
    BY <1>4 DEF TypeOK, Opening, Rmdir, At, Goto, RmdirLock
  <2> QED BY <2>1, <2>2
<1> QED
  BY <1>1, <1>2, <1>3, <1>4 DEF Release

LEMMA RecoverTypes ==
  ASSUME TypeOK, Opening, NEW p \in Procs, Recover(p)
  PROVE  TypeOK' /\ Opening'
<1> USE NoneIsNone, LockAssumption
<1>1. CASE Inspect(p)
  <2>1. TypeOK'
    BY <1>1 DEF TypeOK, Opening, Inspect, At, Goto, Free,
       Acquiring, Releasing, Recovering, Uninstalling, Over
  <2>2. Opening'
    BY <1>1 DEF TypeOK, Opening, Inspect, At, Goto, Free
  <2> QED BY <2>1, <2>2
<1>2. CASE Verify(p)
  <2>1. TypeOK'
    BY <1>2 DEF TypeOK, Opening, Verify, At, Goto, Opened,
       Acquiring, Releasing, Recovering, Uninstalling, Over
  <2>2. Opening'
    BY <1>2 DEF TypeOK, Opening, Verify, At, Goto, Opened
  <2> QED BY <2>1, <2>2
<1>3. CASE Reap(p)
  <2>1. TypeOK'
    BY <1>3 DEF TypeOK, Opening, Reap, At, Goto, Opened, SetFile,
       Acquiring, Releasing, Recovering, Uninstalling, Over
  <2>2. Opening'
    BY <1>3 DEF TypeOK, Opening, Reap, At, Goto, Opened, SetFile
  <2> QED BY <2>1, <2>2
<1>4. CASE Clear(p)
  <2>1. TypeOK'
    BY <1>4 DEF TypeOK, Opening, Clear, At, Goto, RmdirLock,
       Acquiring, Releasing, Recovering, Uninstalling, Over
  <2>2. Opening'
    BY <1>4 DEF TypeOK, Opening, Clear, At, Goto, RmdirLock
  <2> QED BY <2>1, <2>2
<1> QED
  BY <1>1, <1>2, <1>3, <1>4 DEF Recover

LEMMA UninstallTypes ==
  ASSUME TypeOK, Opening, NEW p \in Procs, Uninstall(p)
  PROVE  TypeOK' /\ Opening'
<1> USE NoneIsNone, LockAssumption
<1>1. CASE Mkdir(p)
  <2>1. TypeOK'
    BY <1>1 DEF TypeOK, Opening, Mkdir, At, Goto,
       Acquiring, Releasing, Recovering, Uninstalling, Over
  <2>2. Opening'
    BY <1>1 DEF TypeOK, Opening, Mkdir, At, Goto
  <2> QED BY <2>1, <2>2
<1>2. CASE Cat(p)
  <2>1. TypeOK'
    BY <1>2 DEF TypeOK, Opening, Cat, At, Goto, Free,
       Acquiring, Releasing, Recovering, Uninstalling, Over
  <2>2. Opening'
    BY <1>2 DEF TypeOK, Opening, Cat, At, Goto, Free
  <2> QED BY <2>1, <2>2
<1>3. CASE Kill(p)
  <2>1. TypeOK'
    BY <1>3 DEF TypeOK, Opening, Kill, At, Goto,
       Acquiring, Releasing, Recovering, Uninstalling, Over
  <2>2. Opening'
    BY <1>3 DEF TypeOK, Opening, Kill, At, Goto
  <2> QED BY <2>1, <2>2
<1>4. CASE Move(p)
  <2>1. TypeOK'
    BY <1>4 DEF TypeOK, Opening, Move, At, Goto,
       Acquiring, Releasing, Recovering, Uninstalling, Over
  <2>2. Opening'
    BY <1>4 DEF TypeOK, Opening, Move, At, Goto
  <2> QED BY <2>1, <2>2
<1>5. CASE Delete(p)
  <2>1. TypeOK'
    BY <1>5 DEF TypeOK, Opening, Delete, At, Goto, SetFile,
       Acquiring, Releasing, Recovering, Uninstalling, Over
  <2>2. Opening'
    BY <1>5 DEF TypeOK, Opening, Delete, At, Goto, SetFile
  <2> QED BY <2>1, <2>2
<1>6. CASE Write(p)
  <2>1. TypeOK'
    BY <1>6 DEF TypeOK, Opening, Write, At, Goto, SetFile, OwnFile, Files,
       Acquiring, Releasing, Recovering, Uninstalling, Over
  <2>2. Opening'
    BY <1>6 DEF TypeOK, Opening, Write, At, Goto, SetFile, OwnFile, Files
  <2> QED BY <2>1, <2>2
<1>7. CASE Uninstalled(p)
  <2>1. TypeOK'
    BY <1>7 DEF TypeOK, Opening, Uninstalled, At, Goto,
       Acquiring, Releasing, Recovering, Uninstalling, Over
  <2>2. Opening'
    BY <1>7 DEF TypeOK, Opening, Uninstalled, At, Goto
  <2> QED BY <2>1, <2>2
<1>8. CASE Rm(p)
  <2>1. TypeOK'
    BY <1>8 DEF TypeOK, Opening, Rm, At, Goto, SetFile, Free,
       Acquiring, Releasing, Recovering, Uninstalling, Over
  <2>2. Opening'
    BY <1>8 DEF TypeOK, Opening, Rm, At, Goto, SetFile, Free
  <2> QED BY <2>1, <2>2
<1> QED
  BY <1>1, <1>2, <1>3, <1>4, <1>5, <1>6, <1>7, <1>8 DEF Uninstall

LEMMA StepTypes == TypeOK /\ Opening /\ [Next]_vars => TypeOK' /\ Opening'
<1>1. CASE UNCHANGED vars
  BY <1>1 DEF vars, TypeOK, Opening
<1>2. ASSUME TypeOK, Opening, NEW p \in Procs, Die(p) \/ ObserveLock(p)
      PROVE  TypeOK' /\ Opening'
  <2>1. CASE Die(p)
    BY <1>2, <2>1 DEF TypeOK, Opening, Die
  <2>2. CASE ObserveLock(p)
    BY <1>2, <2>2, NoneIsNone DEF TypeOK, Opening, ObserveLock
  <2> QED BY <1>2, <2>1, <2>2
<1> QED
  BY <1>1, <1>2, AcquireTypes, ReleaseTypes, RecoverTypes, UninstallTypes DEF Next

\* Type correctness, uninstallers included: whatever the processes do to each
\* other, a directory holds a pid file or none, and who reads has opened one.
THEOREM TypeCorrect == Spec => []TypeOK
<1>1. Init => TypeOK /\ Opening
  <2> SUFFICES ASSUME Init PROVE TypeOK /\ Opening
    OBVIOUS
  <2>1. TypeOK
    BY NoneIsNone, LockAssumption
    DEF Init, TypeOK, Acquiring, Releasing, Recovering, Uninstalling, Over, Procs, Renamers
  <2>2. Opening
    BY DEF Init, Opening
  <2> QED BY <2>1, <2>2
<1> QED
  BY <1>1, StepTypes, PTL DEF Spec

-----------------------------------------------------------------------------

\* Without uninstallers the lock is never held by two live processes, whatever the
\* number of processes, deaths and renames (execution_manage.py:34-128).
THEOREM Exclusion ==
  ASSUME Uninstallers = {}
  PROVE  Spec => []MutualExclusion
<1>1. Init => Ind
  BY InitInd
<1>2. Ind /\ [Next]_vars => Ind'
  BY StepInd
<1>3. Ind => MutualExclusion
  BY DEF Ind, Sound, Owning, MutualExclusion, Holds
<1> QED
  BY <1>1, <1>2, <1>3, PTL DEF Spec

\* Without uninstallers the pid file of a live owner goes only when that owner
\* retires it itself: unlinkat is pinned to the directory of a dead owner.
THEOREM OwnerKept ==
  ASSUME Uninstallers = {}
  PROVE  Spec => LiveOwnerKept
<1>1. Init => Ind
  BY InitInd
<1>2. Ind /\ [Next]_vars => Ind'
  BY StepInd
<1>3. ASSUME Ind, [Next]_vars, NEW d \in Procs, file[d] # None, file'[d] # file[d]
      PROVE  ~live[file[d].owner] \/ pc'[file[d].owner] # pc[file[d].owner]
  <2>1. file[d] = OwnFile(d) /\ file[d].owner = d
    BY <1>3, NoneIsNone DEF Ind, Sound
  <2>2. PICK p \in Procs : Unlink(p) \/ Retire(p) \/ Reap(p)
    <3>1. Next
      BY <1>3 DEF vars
    <3>2. PICK p \in Procs : Acquire(p) \/ Release(p) \/ Recover(p) \/ ObserveLock(p) \/ Uninstall(p) \/ Die(p)
      BY <3>1 DEF Next
    <3>3. ~Uninstall(p)
      BY <1>3, UninstallInd
    <3> QED
      BY <1>3, <3>2, <3>3 DEF Acquire, Release, Recover, ObserveLock, Die, Publish, GiveUp, Identify,
        Open, Read, Probe, Check, Lstat, Leave, Remove, Rmdir, Inspect, Verify, Clear
  <2>3. Sound(p) /\ TypeOK
    BY <1>3 DEF Ind
  <2>4. CASE Unlink(p)
    BY <1>3, <2>1, <2>3, <2>4 DEF Unlink, At, Sound, Looking, Certain, TypeOK, SetFile
  <2>5. CASE Retire(p)
    BY <1>3, <2>1, <2>3, <2>5 DEF Retire, At, Goto, Sound, TypeOK, SetFile
  <2>6. CASE Reap(p)
    BY <1>3, <2>1, <2>3, <2>6 DEF Reap, At, Sound, Looking, Certain, TypeOK, SetFile
  <2> QED BY <2>2, <2>4, <2>5, <2>6
<1>4. Ind /\ [Next]_vars =>
        [\A d \in Procs : file[d] # None /\ file'[d] # file[d] =>
           ~live[file[d].owner] \/ pc'[file[d].owner] # pc[file[d].owner]]_vars
  BY <1>3
<1> QED
  BY <1>1, <1>2, <1>4, PTL DEF Spec, LiveOwnerKept
=============================================================================
