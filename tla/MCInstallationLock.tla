------------------------ MODULE MCInstallationLock -------------------------
(***************************************************************************)
(* Instances of InstallationLock for TLC; the cfg files name the processes.*)
(***************************************************************************)
EXTENDS InstallationLock, TLC

CONSTANTS m1, m2, i1, r1, u1

Nobody == {}
TwoManagers == {m1, m2}
OneInstaller == {i1}
OneRecoverer == {r1}
OneUninstaller == {u1}
(* Everybody at once, or the installer with one of two pairs of contenders. *)
Everybody == {Procs}
ManagersOrUninstaller == {{i1, m1, m2}, {i1, m1, u1}}
(* Managers are alike. *)
SameKind == Permutations(TwoManagers)
=============================================================================
