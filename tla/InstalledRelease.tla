-------------------------- MODULE InstalledRelease --------------------------
(***************************************************************************)
(* What an activation promises its users: one installed pair of releases,  *)
(* replaced in one step by a pair with a newer release and never put back; *)
(* work runs on the installed worker release only, and the worker release  *)
(* is replaced only while no work is running.  Work may end at any time:   *)
(* it completes, or its worker crashes.                                    *)
(***************************************************************************)
EXTENDS Integers

CONSTANTS
  Releases,   \* releases, in the order they were built
  None        \* nothing installed, or no work

VARIABLES
  installed,  \* the worker and gateway releases in use
  work        \* the worker release that is running work

Pairs == [worker : Releases, gateway : Releases]

Init == installed \in Pairs \cup {None} /\ work = None

Install ==
  /\ installed = None /\ work = None
  /\ installed' \in Pairs /\ installed'.worker = installed'.gateway
  /\ UNCHANGED work

ReplaceGateway ==
  /\ installed # None
  /\ installed' \in Pairs
  /\ installed'.worker = installed.worker /\ installed'.gateway > installed.gateway
  /\ UNCHANGED work

ReplaceWorker ==
  /\ installed # None /\ work = None
  /\ installed' \in Pairs
  /\ installed'.worker > installed.worker /\ installed'.gateway = installed.gateway
  /\ UNCHANGED work

StartWork == /\ installed # None /\ work = None
             /\ work' = installed.worker
             /\ UNCHANGED installed

EndWork == /\ work # None
           /\ work' = None
           /\ UNCHANGED installed

Next == Install \/ ReplaceGateway \/ ReplaceWorker \/ StartWork \/ EndWork

Spec == Init /\ [][Next]_<<installed, work>>
=============================================================================
