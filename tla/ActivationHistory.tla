------------------------- MODULE ActivationHistory -------------------------
(***************************************************************************)
(* What becomes of the holds that activations have on workers, with a      *)
(* history variable that remembers whether the worker that runs came up    *)
(* held when the controller was past the step that would have let go of    *)
(* it.  The variable restricts no step of ExecutionActivation.             *)
(***************************************************************************)
EXTENDS ExecutionActivation

VARIABLE late  \* a crash brought the worker up held, too late to be released

\* The worker is held, or about to be, for an activation.
Ours == worker.hold # None \/ (Held(worker.lease) /\ worker.lease.op # Other)

\* recover has stopped the worker already, or need not stop it; an apply that
\* has changed nothing may still be undone without a stop.
NoStopLeft ==
  \/ ctl.mode = "undo" \/ (ctl.mode = "apply" /\ ~At("stage") /\ ~ctl.changed)
  \/ ctl.mode = "recover" /\ At("stopGateway")
  \/ ctl.pc \in {"rollback", "unwrite"} \/ Phase = "rolled-back"

\* After the release and before the end of the journal (execution_manage.py:513-515,
\* 552-553, 581-582), or, where no worker ran before and so none will be released
\* (581), after the stop.  Without a crash no worker comes up then.
ComesUpLate ==
  /\ journal # None /\ used.crashes > 0
  /\ At("finish") \/ (journal.prior.worker # "running" /\ NoStopLeft)

HistoryInit == Init /\ late = FALSE

\* Only a process that comes up has a new epoch (WorkerExec).
Remember == late' = (Ours' /\ IF worker'.epoch # worker.epoch THEN ComesUpLate ELSE late)

HistoryNext == Next /\ Remember

HistorySpec == HistoryInit /\ [][HistoryNext]_<<vars, late>>

-----------------------------------------------------------------------------

\* No hold of an activation outlives its journal, after which nobody would release
\* it, through kills and failed steps of the controller, in every scope: every
\* worker that is held is let go or stopped, those that the service manager starts
\* again included, but for one that a crash brings up when that step is over
\* (release before finish, _stop_worker, and the startup hold of a worker).
HoldsRetired == journal = None /\ Ours => late
=============================================================================
