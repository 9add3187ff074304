# TLA+ models of AgentsDock

AgentsDock runs coding agents (Claude, Codex, Cursor, Gemini, OpenCode) on a
user's machine and shows their chats on a desktop and a phone. The server,
`src/server`, is a Python program of two processes, a gateway that faces the
network and a worker that owns the agents, so that either can be replaced by an
update without disturbing the other. Servers may be paired with a Team Hub, which
keeps mail and bulletins and tells them of news. This directory holds TLA+ modules
of the parts whose correctness depends on the order of things: tasks and threads
that interleave, processes that contend, crash and restart, controllers that are
killed halfway, lost replies and retries, durable records read after the world has
moved on. TLC checks them on small instances, TLAPS proves theorems about them for
all values of the constants, and `PROJECT.json` says which definition stands for
which lines of the code.

Contents: [1 inventory](#1-inventory) · [2 plan](#2-plan) ·
[3 modules](#3-the-modules) · [4 runs](#4-the-runs) ·
[5 fairness](#5-fairness) · [6 proofs](#6-proofs) ·
[7 findings](#7-findings) · [8 assumptions and limits](#8-assumptions-and-limits)

To check a run: `tlc -config <run>.cfg <module>.tla`, with the module of the table in
section 4. To check the proofs: `tlapm` on the eight modules whose names end in
`Proofs` (`ChatMailbox`, `ExecutionActivation`, `InstallationLock`, `MemberFeed`,
`NotificationHints`, `TurnJournal`, `TurnQueue` and `UpdateHandoff`).

## 1 Inventory

What each component keeps, does and must guarantee. "Hard" is why it deserves a
model. The whole list, with those left out, is under "components" in
`PROJECT.json`.

### Modelled

**Chat mailbox** (`server/chat_mailbox.py`). Chats on one server send each other
mail over reciprocal route pairs.
*State*: five SQLite tables: the delivery rows joined with their envelopes, the read
batches with their fixed snapshot, the pages a batch handed out (the retry
receipts), and one wake row per target chat (two cutoffs and a claim).
*Operations*: store, read a page, cancel, exclude, mark a read event as
published, claim / admit / release / suppress / recover wakes. Each runs in the
caller's `BEGIN IMMEDIATE`.
*Interaction*: `agent_server.py` claims a wake on every accepted message and every
idle transition, starts a turn under the session lock, admits the claim just before
the provider is launched, and releases it in a `finally`; Stop suppresses first;
startup recovers wakes before anything is admitted.
*Hard*: retries of a read whose response was lost, also by a fresh run; pages of a snapshot
read over several calls while mail arrives, is withdrawn or loses its authority; a
wake claimed, then overtaken by a read, a Stop or a crash.
*Correct when*: a message is handed out by one page only and a retry replays that page; a
batch takes its snapshot, all of it and nothing else; a message is never both read
and cancelled unread; each launch has mail of its own, and no mail is stranded.

**Turn queue** (`server/agent_server.py`, partly). The messages that wait in one chat
while a turn runs.
*State*: the rows in memory, the promoted row, marks on rows (held, fenced, not saved),
the steering fence, the turn slot, and the event journal from which all this is rebuilt.
*Operations*: submit, unqueue, reorder, promote the next row, Run Now (which steers a
live turn of a provider that can, and otherwise stops the turn and promotes the row),
Stop, the idle poll, recovery.
*Interaction*: one event loop; `QUEUE_LOCK` guards the rows, the chat's lifecycle lock
guards admission, and a task that waits for a provider holds neither.
*Hard*: a Stop against a Run Now that is waiting for the provider; an answer of the
provider that may or may not come; failing writes between two owners of a row; a
restart in the middle of any of it.
*Correct when*: no message is given to a provider twice, lost, or owned by two tasks; a
hold keeps until the user lifts it; an idle chat takes up its next row.

**Execution activation** (`server/execution_manage.py`, `execution_install.py`, with
the lease of `execution_maintenance.py` and the start of a worker in
`execution_service.py`). Replaces the worker or the gateway, or installs both for the
first time (`migration`).
*State*: the published files (two units, layout, `current` link), the activation
journal, the worker's admission lease, two services under systemd, and the units as
systemd last loaded them.
*Operations*: `apply` (preflight, stage, acquire and seal the lease, stop,
publish, reload, start, wait for the receipt, require the startup hold, commit, release,
finish) and `recover` (roll back file by file, restore both services, or finish
what was committed).
*Interaction*: a worker that starts reads the journal and holds itself; the gateway's
unit `Wants=` the worker; other maintenance clients take the same lease.
*Hard*: a kill or an error between any two durable writes, in the rollback as well; services
that crash and are restarted by systemd meanwhile; a lease that expires or is lost
with its process.
*Correct when*: the installed pair of releases changes once, at the commit, and only
forward; work never runs on a candidate and is never stopped; the files are of one
generation whenever the journal says they are; nobody else's hold is touched; services
that ran are running in the end; every journal and hold is retired in the end.

**Update handoff** (`server/update_handoff.py`, with the acceptance of a managed update
in `agent_server.py` and the failure path of `update_runner.py`). The hold that an update keeps on
its worker from the moment it is accepted until the installer has taken over or the
update is known to have failed.
*State*: the sealed lease of the worker, one handoff file per update, the status row
`server-update.json`, the detached runner.
*Operations*: start and launch, undo a launch, finalize an update whose runner is gone,
release a hold (by the runner, or by the worker for a client that retries), restart.
*Interaction*: runner, worker and clients share the row; the release runs under
`InstallationLock`, reads the worker's status over its control socket, and posts to it.
*Hard*: a release whose reply is lost; a runner that dies between the row and the
release; a worker that is another process by then; a retry that finds the row changed.
*Correct when*: an update that is shown as over and clean holds nothing, and every hold that
the row still names is released in the end.

**Installation lock** (`InstallationLock` of `execution_manage.py`,
`install_lock_control` of `install.sh`, `_reap_observed_lock` of
`execution_recovery.py`, `acquire_operation_lock` of `uninstall.sh`). A directory
`.install-lock` with a file `pid`.
*State*: what is at the path, the pid file in each directory anyone made, and the
progress of each contender.
*Hard*: several reapers of one dead owner, each of whose looks is stale by the time it
acts; four implementations that are not quite alike.
*Correct when*: two live processes never hold it together, a live owner's pid file is
touched by nobody else, and a dead owner keeps nobody out.

**Team Hub notification hints** (`agentsdock_team_hub/notification_hints.py`,
`mail_hint_streams.py`, with `secure_peer_hub.py`, `secure_peer.py`,
`secure_peer_runtime.py` and the commits of `store.py`). The hub keeps streams open to paired servers
and tells them how far mail and bulletins are.
*State*: a broker with one subscription per stream (newest sequence of each lane, a
pending flag), a registry of places and leases, the authority of the peer, an admission epoch.
*Operations*: authenticate, reserve, subscribe, read the snapshot, seed, register,
write, wait; commit and publish; revoke a peer; close the hub for maintenance and reopen it.
*Interaction*: the thread of each stream, the threads that commit, the revoking thread
and the closing thread meet in four locks and a database.
*Hard*: a hint published between subscription and snapshot; publications that overtake
each other; a closure while a stream subscribes or writes, or while ordinary requests are under way.
*Correct when*: a client is told a snapshot, then newer cursors only, of everything or of the
end of the stream; nothing is written once the closure has returned; closures return.

**Member server hint feed** (`server/team_mail_runtime.py`). A member server relays one
stream of the hub to all its own clients.
*State*: the feed in use, the leases of local streams, a count of those under way, a
generation of authority.
*Hard*: the last local stream leaves while another is on its way; the feed ends, or the
authority changes, under a stream that is half subscribed; a local snapshot and the feed
come from the hub independently.
*Correct when*: a local stream is told what the hub's own would be; the feed lives as long as it is
needed and no longer; nothing is written under an old authority.

**Maintenance lease, worker start, native recovery owner** are modelled in part, as
far as the ones above use them.

### Not modelled yet

| component | state | why it is hard |
|---|---|---|
| session mutation reconciler (mobile), coordinated updates (desktop), team mail hint controller (desktop) | pending and confirmed fields; plan and observations; the client end of a hint stream | stale reads, replies of an old generation after an `await` |
| team mail grants, unread projection, Claude background reconciliation | grant revisions; journal checkpoint; bounded receipts | crash between stage and settle; projection against replay |
| update transaction (`activation_transaction.py`, `update_runner.py`, `execution_activation.py`, `execution_recovery.py`) | whole-release journal around the activation | phases and rollbacks nested in one another |
| Team Hub store (`agentsdock_team_hub/store.py`) | teams, roles, mail, bulletins in SQLite | receipts and revisions under concurrent members |
| Codex app-server client, Claude SDK client, side questions, server instances, the rest of secure peer | process generations, subscriptions, registries | adoption of turns, cancellation, cryptographic state |

### Left out

`agent_server.py` is 100 000 lines of routes, sessions and provider adapters. Its turn queue
and its part in updates are modelled, and the mailbox and the activation include how it calls
them; the rest of it is not. Providers' adapters and history importers convert data
and have little control. The gateway transport, chat shares, desktop and mobile user
interfaces, legacy Swift apps, sites and release scripts are I/O and presentation.
Secure peer delivery is retired (`SECURE_PEER_AGENT_RELAY_ENABLED` is False).
`team-hub/` is an older copy of `server/agentsdock_team_hub`.

## 2 Plan

Done:

1. `ChatMailbox`; `ChatMailboxProofs`: every safety property of it is a theorem.
2. `InstalledRelease`, the abstract promise of an activation; `ExecutionActivation`,
   which implements it, and `ActivationHistory`, the same with a history variable;
   `ExecutionActivationProofs`, the refinement included.
3. `InstallationLock`; `InstallationLockProofs`. It discharges what
   `ExecutionActivation` and `UpdateHandoff` assume: one live holder.
4. `TurnJournal` and `TurnQueue`; `TurnJournalProofs`, `TurnQueueProofs`.
5. `HintStream`, the abstract promise of a stream; `HintSubscription`,
   `NotificationHints` and `MemberFeed`, two components that implement it, the
   second with the promise of the first as its environment;
   `NotificationHintsProofs`, `MemberFeedProofs`, both refinements included.
6. `UpdateHandoff`; `UpdateHandoffProofs`.

Every invariant and every action property that a passing run checks is a theorem by now.
Next, in this order:

7. `SessionMutations` and `CoordinatedUpdates`: replies in any order; the visible value is
   the last confirmed or pending edit; a plan is not overwritten by an older generation.
8. `TeamMailGrants`, `SessionUnread`, the Claude background receipts as operators
   checked against a reference definition.
9. `UpdateTransaction`, composed with `ExecutionActivation` (their journals exclude each
   other, `execution_install.py:714-720`) and with the recovery owner.

Modules that are proved about use no RECURSIVE operator; each keeps its proofs in
a module `<Name>Proofs` and its TLC instances in `MC<Name>`.

## 3 The modules

### ChatMailbox

One action per function of `chat_mailbox.py` that writes, since each runs in one
transaction. Tables are variables: `mail` (delivery joined with envelope; `lastSeq` is
the AUTOINCREMENT counter), `reads`, `pages`, `wake`. `answer` is the response of the
last read with the authority it was made under. `held` is what the running process
remembers of its claims; a `Restart` forgets it and runs `recover_wakes`. `launches`
and `spent` are history: cutoffs of launched turns, and mail that caused one or that a
Stop covered.

| action | code |
|---|---|
| `StoreMessage` | `store_message`, with its checks of a reply |
| `ReadSender` (from `NamedBatches`, `NewBatches`, `TakePage`, `Disclosed`) | `read_sender`, from the choice of a batch to the filtered response |
| `CancelMessage`, `ExcludeMessage`, `ExcludePair`, `ExcludeSession` | the functions of those names |
| `ClaimWake`, `AdmitWake`, `ReleaseWake`, `SuppressWake`, `Restart` | `claim_wake`, `admit_wake`, `release_wake`, `suppress_wake`, `recover_wakes` |
| `MarkReadEventPublished` | `mark_read_event_published` |

A reply names the message it answers, which need not be mailbox mail: `Direct` are envelopes
that were delivered without a mailbox row, and `store_message` takes one as a parent as well
(lines 163-174); there is then no exclusion to check.

Callers are the most general the interface permits: any chat may read under any
request key, cursor and authority, and a claim may be admitted or released at any time
while it is remembered. Timestamps, message texts and sizes are left out; the byte
budget of a page acts as one more page limit. A claim identity is fresh whenever it is
taken, as a UUID is.

### TurnJournal and TurnQueue

`TurnJournal` has one operator per journal event: what the event does to the queue that
recovery folds out of `events.jsonl` (`scan_queued_turns_from_events`). `TurnQueue` applies one
where the code appends one.

| variable | code |
|---|---|
| `journal` | the queue as `events.jsonl` has it |
| `queue`, `runNow`, `row` | `QUEUED_TURNS`, `RUN_NOW_TURNS`, and the marks `_queue_held`, delivery fence and `_durable` of rows |
| `turn`, `admit` | the turn slot, and an admission in progress |
| `starter`, `wake` | the promotion task, and one that is due (a task or a retry timer) |
| `steering` | `STEERING_SESSIONS` and its owner |
| `send`, `cached` | the Run Now request and `RUN_NOW_COMPLETED_RESULTS` |
| `stop` | the explicit Stop |
| `fate`, `given`, `parked` | history: accepted or not, how often given to a provider, caught by a Stop |

A section under `QUEUE_LOCK`, with the durable append it awaits, is one step; a task that
gives up the lock to wait is several. `Submit` ... `CommitTurn` follow the admission of a turn,
`BeginPromotion` and `TakeNext` `start_next_queued_turn`, `ProbeNonNative` ... `Settle` the Run Now
request in both lanes, `BeginStop` ... `FinishStop` the Stop, `Poll` the idle
reconciliation of the health route, `Crash` a restart with recovery. A write fails by `Fault`. The
provider's answer to a steer is nondeterministic: accepted, refused, or never heard.
A row that was promoted while a turn is live finds the slot taken and waits at the front
(`AdmissionWaits`, the 409 of line 76079); only an admission that has the slot records a start.
Sequences are taken apart without recursion (`RemoveFirst`, `Place`, `Only`), so that they can
be reasoned about; `MCTurnQueue` has TLC compare `Only` with `SelectSeq`.

One chat and the messages of its user are modelled. Expiry of owners, goal follow-ups, Claude's
follow-up lane, deliveries from other chats, digests, scheduled jobs and the blockers of managed
updates are not. Pending wakes are one Boolean, since the task that runs first finds
all there is.

### InstalledRelease and ExecutionActivation

`InstalledRelease` is what the activation promises: one installed pair of releases,
replaced in one step by a pair with one newer release (both, at first), and work that
runs on the installed worker only.

`ExecutionActivation` has a step for every durable write, service command and request
of the controller. `ctl.pc` is where the live controller is, `ctl.mode` whether it is in
`apply`, in the undo of a preflight that failed, or in `recover`.

| variable | code |
|---|---|
| `files` | unit files, layout manifest and `current` link |
| `loaded` | units as of the last `daemon-reload` |
| `journal` | the activation journal with both snapshots, prior service states and phase |
| `worker`, `gateway` | processes under systemd; the worker's epoch (its pid), its lease, whether it is busy |
| `ctl` | the controller, `Idle` when there is none |
| `used` | how much of each bound is used up |

`Stage` ... `Finish` follow `ActivationController.apply`, `Load`, `Rollback`, `Unwrite`,
`RestoreWorker`, `RestoreGateway`, `Settle` follow `recover`. `Fail` is an error in the
step at hand (with the rollback that `apply` then makes, `Raised`), `Refuse` the error
the code raises when a check of its own does not hold, `KillController` a kill at any
point. `WorkerExec` / `WorkerReady` are the two moments of a worker's start that
matter: it reads the journal, later it is up and held. `GatewayUp` starts a stopped
worker, for `Wants=`. Releases are numbers in the order they were staged. The
maintenance lease has three facts: whose it is, whether it is sealed, whether its
unsealed time still runs.

The refinement mapping: the installed pair is the layout of `journal.before` until the
phase is `committed`, and that of the published files otherwise; work is the release of
a busy worker.

`ActivationHistory` adds `late`, which remembers that a crash brought the worker that runs up
held, when the controller was past the step that would have let go of it (`ComesUpLate`:
after the release, or after the stop where nothing will be released). It restricts no
step and is there to say what becomes of every other hold (`HoldsRetired`).

Service crashes can lead `recover` to a place from which it never gets on. `DeadEnd` names
them all: `WorkerReplaced` (a committed gateway activation insists on the worker process of
before, 550), `CandidateRuns` (the service manager has started the candidate from the
unit it had loaded, and `recover` leaves alone what runs, 565) and `Orphaned` (a rollback has
removed the unit of a worker that a crash brought up again, and each snapshot of the services
raises, 186-188).

### UpdateHandoff

| variable | code |
|---|---|
| `worker` | `instance_id` of the worker, and whose sealed lease it has |
| `file` | `handoff-<update>.json`: the worker whose lease the update has |
| `status` | `server-update.json`: phase, update, `maintenance_release_error`, `_execution_handoff` |
| `server` | what the worker does under `SERVER_UPDATE_OPERATION_LOCK` |
| `runner` | the detached runner of each update |
| `release` | how far each `_release_handoff` is: by a runner, or by the worker (`Retry`) |
| `lock` | who holds `InstallationLock` |

`Start`, `Launch`, `LaunchFails`, `LaunchUndone` follow `_start_server_update` and
`fail_runner_launch`; `Finalize` is `finalize_abandoned_server_update`; `Lock`, `Look`,
`Confirm`, `Post`, `Refuse` are the steps of `_release_handoff` (lock, status, health
and status again, the release itself, any error); `RunnerFails`, `RunnerClears`,
`RunnerGivesUp` are the failure path of `update_runner.py`; `EnsureRetry`, `RetryClears`,
`RetryFails` the ensure route. The row is written before the release is tried and cleared
after it, so the order of the two files matters at every point a process can die.

The server is not a Team Hub host; what happens once the installer has a journal is
`ExecutionActivation`, here one step (`Installs`) or a failure.

### InstallationLock

Every file system call is a step. A directory is named for the process that made it,
a pid file for the pid it holds and the process that created it (its inode); `fd` is the
directory that a process has open, so `unlinkat` reaches that directory wherever it is by
then. Managers (`execution_manage.py`) and installers (`install.sh`) share the labels and
differ where the code does: what they take for their own directory (`Identify`), what
they compare before the unlink (`Unchanged`), what they do when the file is gone
(`IfGone`). Recoverers first pass `Inspect`, `Verify`, `Reap`, `Clear` on the lock
that an installer recorded (`ObserveLock`). Uninstallers have their own protocol,
`mkdir` then the pid. A process tries once and its pid is not reused. `Casts` are the sets
of processes that come together in a behaviour; absent ones count as dead.

### HintStream, HintSubscription, NotificationHints, MemberFeed

`HintStream` is the promise to the client at the end of a stream: a snapshot, then newer
cursors only, never of something uncommitted, and of everything in the end unless the
stream ends. `HintSubscription` has the methods of one subscription as operators
(`Published`, `Seeded`, `Taken`, `Closed`), each atomic under the broker's guard.

`NotificationHints` is the hub. `stream[s]` is the thread of a request with its subscription
and lease; `outbox` the changes that are committed and not yet published, since commit and
publication are separate steps of the committing thread; `revoker` and `closer` the two threads
that end an authority, step by step: the credential, the gateway's abort of what it serves, the fence,
the leases one after the other (cancel, drain the writer, retire), the waits for streams
that still subscribe and for requests under way. `Fails`
stands for every refusal, expiry and hang-up.

`MemberFeed` is the member server. The hub appears as what `HintStream` promises
(`Frame`, `FeedEnds`); `PassOn` publishes the lanes of a frame one by one; `member`, `leases` and
`pending` are the fields of `RuntimeMailHints`, and whoever makes the latter two empty
takes the feed out of use and closes it in a later step (`old`, `CloseOld`). A
subscription that is refused gives up its lease and its count in one step (`GiveUp`).

Of an ordinary request `request[r]` says who counts it as under way: the runtime
(`_peer_in_flight` or `_host_in_flight`), and within that the adapter (`_in_flight`).
`RevokeReturns` waits for the adapter's count of the peer, `CloseReturns` for all. Authentication,
the note of the admission epoch (`NoteEpoch`) and the place in the registry (`Reserve`) are
three steps, so a stream may take a place for an epoch that is over; `Admit` looks at it again.

Both map to `HintStream` by forgetting everything but what was committed, what was written, and
whether the stream has begun or ended.

## 4 The runs

| run | module | instance | shows |
|---|---|---|---|
| `mailbox_reads` | `MCChatMailbox` | 3 messages from one chat to another, full authority, request keys r1, r2 and r3 (r3 names two historical batches), 2 reader runs, limits 1 and 2 | `ReceiptExact`, `SnapshotHonoured`, `ReadBeatsCancel`, `SnapshotExhausted`, `RetryReplays` |
| `mailbox_wakes` | `MCChatMailbox` | 2 messages, 1 envelope without a mailbox row, 2 claim identities, any authority, fairness | `TypeOK`, `LaunchesAdvance`, `WakeForNewMail`, `MailNotStranded` |
| `lock_exclusion` | `MCInstallationLock` | 2 managers, a mortal installer, a recoverer, 2 renames each | `TypeOK`, `MutualExclusion`, `LiveOwnerKept` |
| `lock_taken` | `MCInstallationLock` | a mortal installer with 2 managers, or with a manager and an uninstaller; 3 renames; fairness | `StaleLockTaken` |
| `activation_safety` | `MCActivationHistory` | every scope, with and without an installation, 2 activations, 2 kills or failures, 1 crash, 1 job, 1 other client | `TypeOK`, `OnlyIdleStopped`, `OneGeneration`, `HoldsRetired`, `ImplementsInstalledRelease`, `OthersHoldKept`, `NotLeftStopped` |
| `activation_settles` | `MCExecutionActivation` | every scope, with and without an installation, 1 activation, 2 kills or failures, 1 crash, 1 job, 1 other client, fairness | `PendingSettles` |
| `queue` | `MCTurnQueue` | 2 messages, 1 Stop, 2 Run Now requests, 1 reorder, 1 failing write, 1 crash, fairness | `TypeOK`, `NoReplay`, `OneOwner`, `NothingLost`, `NoStaleSuccess`, `HoldRespected`, `QueueProgress` |
| `hints` | `MCNotificationHints` | 1 stream, 1 ordinary request at a time, 2 changes (2 mails, or a mail and a bulletin change), a revocation, 1 closure, fairness | `TypeOK`, `QuietMeansCurrent`, `SilentOnceEnded`, `ClosuresReturn`, `ImplementsHintStream` |
| `feed` | `MCMemberFeed` | 2 local streams, a feed that may be opened twice, 2 mails, 1 change of authority | `TypeOK`, `QuietMeansCurrent`, `FeedKept`, `SilentOnceInvalidated`, `ImplementsHintStream` |
| `handoff` | `MCUpdateHandoff` | 2 updates, 2 restarts, 2 faults, another client, fairness | `AcknowledgedMeansReleased`, `HoldReleased`, no deadlock |
| `lock_uninstall`, `queue_stop_escape` | `MCInstallationLock`, `MCTurnQueue` | the smallest instance of each | a violation, see [findings](#7-findings) |

Why these bounds. *Mailbox*: three messages are needed for a first and a second page of one
snapshot and an arrival after it; two limits let a retry ask for another page size; two
runs and the historical key are what a retry by a fresh run can meet. Two
claims are a claim the process still remembers beside the current one (after a Stop). One reader (`Readers`) and one woken chat (`Wakeable`) suffice, as
rows of different targets meet only in `mail`.
*Lock*: two reapers and a third process that becomes owner are what a stale look
needs; a fourth plays the recoverer. Renames: a reaper needs
two, the one that fails and the one that gets in; with a third in `lock_taken` it may be
overtaken once and still try again; the code allows 16 and 32. *Activation*:
the second activation meets what the first left behind; the second fault hits the recovery of the
first, and the crash falls anywhere in either.
*Queue*: two rows have an order that can go wrong and a neighbour to be put back beside; a second Run
Now meets what the first left (a fence, a remembered success); the fault and the crash fall
anywhere. *Hints*: two mails can overtake each other, and the bulletin is published in
another way; every race is between one stream and the threads that commit or close, and streams
of one peer meet in the registry's places and the broker's count only (the limit of two is not
reached by the one; two streams hold with fewer changes, but take too long to be a run; the
proofs in section 6 are for any number). One request at a time may be replaced by another while a closure
waits, which is what the wait has to survive. *Feed*: two streams share a
feed and leave it in either order; the second feed replaces an ended one. *Handoff*: the second update starts on what the first
left; two restarts and faults can spoil the release and then its retry.
Messages, claims and local streams are interchangeable, hence the symmetry; runs with liveness use
none. `CHECK_DEADLOCK FALSE` stands where the system may really
stop: all mail is sent, every contender is done, all streams have ended. `handoff` has it
checked: a worker that can take an update can always do something.

`SnapshotExhausted` is checked with full authority only: a page read without the
authority for a message legitimately skips it. `PendingSettles` and `HoldsRetired` are passed
with service crashes, in every scope, and name what a crash can spoil: `PendingSettles` the
three dead ends, `HoldsRetired` the worker that comes up late. Both exceptions require
a crash, so kills and failed steps alone spoil nothing. `HoldReleased` excepts the
hold that the row no longer names (`Forgotten`): a plain request for a release that is not newer
replaces the row (section 7); a hold that the row names has to be released. `feed` checks
safety only: its `ImplementsHintStream` is without the delivery promise.

## 5 Fairness

- *Mailbox* (`LiveSpec`): weak fairness of `Claim` and `Release`, as the runtime
  claims on every idle transition and every accepted message and releases in a
  `finally`; strong fairness of `Admit`, since a launch is tried with each claim and
  other steps (a Stop, a crash) may withdraw the chance for a while. Nothing is
  assumed of senders, readers or crashes.
- *Lock* (`LiveSpec`): a live process goes on with its acquisition; nothing is assumed
  of one that holds the lock.
- *Activation* (`Fairness`): a live controller goes on; services that were told to
  start come up; work and the other client end. `SF(Seal)`: an unsealed lease lasts for
  30 seconds at least (`execution_maintenance.py`) and the request to seal follows
  at once, so it does not expire each time. `SF(Recover)`: whoever finds an activation
  pending runs `recover` again. That last one is an assumption about operators: `recover`
  is a command and no code schedules it.
- *Queue* (`Fairness`): every task of the event loop goes on, and a client polls the
  health route, which reconciles an idle chat (`agent_server.py:84398`). Nothing is assumed of users,
  and a turn need not end. `SF(Selection)`: the lifecycle lock is an `asyncio.Lock`, which serves
  those who wait in the order they came, so promotions cannot keep a Run Now from it for ever.
- *Hints* (`Fairness`): each thread goes on; a write to a socket is bounded by a
  timeout, and what an ordinary request sends is finite. A stream that waits for news may wait
  for ever. A request that arrives is not obliged to: requests may go on arriving without end, but
  neither count admits one behind its fence.
- *Handoff* (`FairSpec`): requests and processes that run go on; a client polls the health
  route, which finalizes an abandoned update, and repeats an ensure call that was answered
  with a 503; the other maintenance client ends. Restarts and faults are bounded.

## 6 Proofs

`ChatMailboxProofs`, for any chats, messages, pairs, grants, claims, limits and
historical reads that satisfy `MailboxAssumption` and `LegacyAssumption` (a
historical batch has snapshot 0, since no mail is stored at the start), and any envelopes
without a mailbox row:

- `TypeCorrect`: `TypeOK`, with one lemma per operation. It includes that a wake row
  has a claim exactly when it is not idle, and that sequence numbers stay below the counter.
- `EachLaunchHasNewMail` (`WakeForNewMail`) and `LaunchesOnlyAdvance`
  (`LaunchesAdvance`). `AdmitWake` only tests that some unread mail lies above the cutoff,
  so one has to know that everything spent lies below: `WakeInv` says that
  spent mail is stored with a number at most `Cutoff(t)` and that each launch was at most
  `wake[t].last`. It is kept because no step lowers a cutoff (`NotLowered`) or changes the number of a stored message (`MailStays`).
- `ReceiptsCorrect` (`ReceiptExact`) and `ReadsBeatCancel` (`ReadBeatsCancel`): strengthened by the fact that an
  absent message is not read. A page takes unread mail only, and only unread mail is
  withdrawn.
- `SnapshotsCorrect` (`SnapshotHonoured`) and `RetriesReplay` (`RetryReplays`). `ReadInv` adds that ids of batches are
  unique and below the counter, that stamps and pages name recorded batches, and that
  each request key has one batch unless it had several before (`LegacyReads`); a read
  takes an existing batch of its key if there is one (`OneBatch`).
- `SnapshotsExhausted` (`SnapshotExhausted`), for callers that always have their full
  authority (`Grants \subseteq {Pairs}`; without it the property is false, as section 4
  says). `CoverInv` says of every recorded page that what its batch still has to read lies
  beyond its end, and that the page is then not the last one; it is kept because mail never becomes unread or valid again and new mail is numbered above
  every snapshot (`MissingShrinks`).
- `RepliesCorrect` (`RepliesMatch`): a reply continues the exchange of the two ends of one
  pair, and follows what it answers. It rests on `Fixed`: a stored message
  never changes whom it is from, to or about.
- `ResponsesShowValidMail` (`NothingWithdrawnShown`): the response in hand contains no mail
  that was withdrawn when it was made, or outside the caller's authority.

`RepliesMatch` and `NothingWithdrawnShown` are held by these theorems only; no run repeats them.

`InstallationLockProofs`, for any number of managers, installers and recoverers, any
of which may die at any step, any number of renames and any casts, *without
uninstallers* (with them it is false, see findings) but for the first theorem:

- `TypeCorrect` (`TypeOK`), for all casts, uninstallers included. What is added (`Opening`) is that
  whoever reads a pid file has opened a directory.
- `Exclusion` (`MutualExclusion`) and `OwnerKept` (`LiveOwnerKept`). The inductive
  invariant `Ind` is `TypeOK` and, for each process p, `Sound(p)`: directory p has the pid
  file that p wrote before its rename, or none; a live process that has published and not
  yet let go has its own directory at the path; and whoever is past its probe of a pid file has open the directory
  of a process that is dead. The last is what `unlinkat` needs: it can only hit the
  directory that was judged.

`UpdateHandoffProofs`, for any number of updates, restarts and faults:

- `TypeCorrect` (`TypeOK`) and `AcknowledgedReleased` (`AcknowledgedMeansReleased`). The property
  alone is not inductive: the row is cleared a step after the release was confirmed, in
  another process, and in between the lease could be taken by the same update. `IInv` says that
  it cannot: an update that was ever accepted has its handoff file and is not
  accepted again (`Filed`); a confirmed release left no lease of its update behind
  (`Confirmed`), which stays true as nobody else acquires that lease; the launching and the
  retrying server and the releasing runner each work for the update of the row or one that
  ended (`Engaged`); and an active row names its handoff (`RowCoherent`).

`NotificationHintsProofs`, for any number of streams of the peer, any limit on
them, any changes and any number of closures:

- `TypeCorrect` (`TypeOK`): the broker's count is the number of open subscriptions. Each of
  the ways to close one (the thread itself, a failed publication, either end of
  authority) may find it closed already, and subtracts what it closes (`LessOpen`).
- `SilentAfterwards` (`SilentOnceEnded`). The check of authority and the write are two steps
  of a thread, so a write may have been checked before the authority ended. `IInv` follows
  such a thread: it is in the registry with its lease (`Registered`); hence the
  revocation, which waits for an empty registry, leaves nobody beyond a reserved place
  (`Barred`, through the wait for requests as well); and a thread that writes while the hub closes is on the closing
  thread's list or the one it drains, and belongs to the current epoch when the hub is
  open (`Counted`). Shape and parity of the epoch (`Shape`, `Turns`) give that a reopened
  hub has another epoch than the one before.

- `WaitingIsCurrent` (`QuietMeansCurrent`) and `Refinement` (`Spec => Client!Safety`: the safety part of
  `ImplementsHintStream`, whose other part is liveness). `Known` follows a cursor from
  the head to the client: a subscription is behind the head in a lane only while somebody is about
  to publish that very head (`Upcoming`); before it is seeded, the later of what it holds
  and of the snapshot is, so that it does not matter which came first; then the thread lacks
  nothing of the subscription unless that is pending (`Reaching`), and what it is about to
  write is committed, not older than what it wrote, and another (`Telling`).

`MemberFeedProofs`, for any finite set of local streams, any feeds, capacity, changes and
changes of authority:

- `TypeCorrect` (`TypeOK`, where `pending` is the number of streams that are subscribing), and
  `FeedIsKept` (`FeedKept`). Leases and subscriptions go one by one and from several threads, and it is the
  one that makes both counts zero that takes the feed out of use (`TakenOut`, `HandedOver`).
  `Owners` says that a thread that has to close a feed does nothing else before.
- `WaitingIsCurrent` (`QuietMeansCurrent`): as in the hub, with what the feed has heard and
  passed on in the place of the head (`Caught`). Snapshot and frames come independently,
  so the hint may be the older one; `Behind` bounds both by the head.
- `SilentAfterwards` (`SilentOnceInvalidated`): a stream that writes under an earlier
  generation is still on the list of the invalidation, or the one it drains (`Listed`).
- `Refinement` (`ImplementsHintStream`, which is the safety part here): only `EndWrite` tells, only `Leave` and `GiveUp` end a
  stream, all else is a commit or stutters.

`ExecutionActivationProofs`, for any number of activations, faults, crashes, jobs and other clients, and
any scopes; `NoneAssumption` says that `None` is neither a layout nor a journal:

- `TypeCorrect`, `IdleWhenStopped` (`OnlyIdleStopped`), `NeverMixed` (`OneGeneration`),
  `OthersUndisturbed` (`OthersHoldKept`), `NothingLeftDown` (`NotLeftStopped`).
- `Refinement` (`ImplementsInstalledRelease`): the step that commits replaces the installed
  pair, all others leave it, whatever they do to files and processes.
- `HoldsEnd` (`HistorySpec => []HoldsRetired`): no hold of an activation outlives its journal, in
  any scope, through any failures and crashes, but for a worker that came up late. `Owed` is a hold
  that is not late; `HInv` says that one is always of the pending journal, before its last step
  (`OwedIsPending`), and, where no worker ran before and so none will be released, before the stop
  (`OwedIsStopped`). The hard part is that without a crash no worker comes up held in the
  places that count as late, for the exception only admits crashes: `Calm` says what is down there
  while there was none.

  The properties concern places far apart (a hold in a worker, a phase on disk, a place in the
  controller), so `IInv` has to tie them together. `Planned` and `Published`: the journal
  leads from one generation to the next, each file is of one of the two, and the phase says
  when all are. `Course`: which phases each step of the controller can be in, per mode.
  `Loaded`: which units the service manager will start at each of them. `Admitted`: a
  worker whose lease does not stop it runs the installed release. That is
  what makes the commit safe: the candidate was started while the journal was
  pending, so it took the startup hold, and is let go after the commit only (`Retiring`). `Sealed`:
  once a worker was sealed for a stop, it *and whatever replaces it* is held. `Replaced`,
  `GatewayKept`, `WorkerKept`: what ran before the activation is, at each step, up or still to be
  started by a step to come.

`TurnJournalProofs` has lemmas about the operators of the journal: where a removal, an insertion
at a place, a reordering leave every other row, and that no row comes to be there twice.
`TurnQueueProofs` uses them, for any messages and any bounds, *when no crash tears a batch*
(`~Torn`: with torn batches `NoReplay` and `NothingLost` are false, see section 7):

- `TypeCorrect`, `GivenAtMostOnce` (`NoReplay`), `AcceptedIsKept` (`NothingLost`), `SuccessIsFresh`
  (`NoStaleSuccess`), `OwnedOnce` (`OneOwner`), `HoldIsRespected` (`HoldRespected`).

  None of them is inductive. A replay needs a message that was given and is still in some
  place from which it may be given again: `GivenOnce` says that whatever may still be given
  (`Ungiven`: what waits unfenced in the journal or the server, is promoted, is being admitted or
  steered) was not given before. To keep it, the places must exclude each other (`Disjoint`), a
  fence must be in the journal before the provider is asked (`Fences`), the server must
  hold what the journal does (`Kept`), each place must agree with what became of the message
  (`Fates`), and nobody must promote while Run Now replaces the live turn (`Exclusive`). `Recorded` and
  `Remembered` say where a held message and one with a remembered success cannot be.
  `Shape` admits that an admission fails after its start was recorded: the row goes back in
  memory, no longer in the journal (section 7).

Only model-checked: liveness (`MailNotStranded`, `StaleLockTaken`, `PendingSettles`, `QueueProgress`,
`ClosuresReturn`, `HoldReleased`, and the delivery promise in `ImplementsHintStream` of the
hub), since liveness under fairness and ENABLED are outside what the prover supports; that the
recursion-free `Only` is `SelectSeq` (an induction over data, which it does not support either); and
the violations of section 7, which are counterexamples.

## 7 Findings

Two runs end in a counterexample to something the code says of itself.

1. `lock_uninstall`: `uninstall.sh` makes the lock directory (line 235) and writes its pid
   18 lines later. In between the directory is empty, and the rename of `install.sh` (line
   3183) replaces it, as it should for the remains of a crashed installer. Both then hold the
   lock, and `uninstall.sh` writes its pid over the installer's, although line 239 refuses
   to run while an install is active.
2. `queue_stop_escape`: a row that Run Now has taken out of the queue for a native delivery is in neither
   of the places that a Stop holds (`agent_server.py:25347-25420`). If the provider then refuses it,
   it is put back without a hold (24430) and starts by itself after the Stop, although
   25350-25352 says of the Stop that "a later explicit Run Now operation clears the per-item
   hold"; 25855-25857 says the same of the neighbouring case, a row that is promoted.

Further observations, made while modelling or with other constants than those of the runs:

- *Activation.* The hold is released and the journal retired in two steps
  (`execution_manage.py:513-515`): a worker that crashes after the first and starts
  before the second holds itself for an operation that is over. The same becomes of a worker that a
  crash brings up, from the unit the service manager has loaded, after `recover` has stopped it
  in an activation before which none ran (581). Both are the exception of `HoldsRetired`.
  `recover` has three dead ends that a crash leads to: finalizing a committed gateway activation
  insists on the very worker process of before (550); a rollback restores the unit files first and has
  them loaded later, so that a service restarted in between runs the candidate, which
  `recover` then leaves alone (565); and a snapshot raises on a worker whose unit file the rollback has
  removed (186-188). They are the exception of `PendingSettles`.
- *Queue.* A Stop whose write fails leaves rows that are held and not saved; a promoted row of that
  kind is skipped for ever (25391-25402, 25850-25866), although 23781-23789 speaks of a retry.
  A batch of events that a crash tears (`Torn = TRUE`) can replay a message, against
  24100-24106 and 26525-26528: it rests on the file system writing a batch whole.
  The lane that defers a Run Now puts its row back at the index of before (25144-25147), not beside its
  neighbour as the other lane does.
  An admission that fails after it has recorded its start (76996-77140) records a `turn_stopped`, and
  its row goes back in memory only (25321-25324), against the "durable message" of 26199-26203: a
  restart before the next attempt drops it.
- *Handoff.* A plain start for a release that is not newer writes a fresh row
  (88403-88414) and thereby forgets the name of a handoff that is still sealed, against the "visible,
  recoverable hold" of `execution_maintenance.py:5-6`: the exception of `HoldReleased`. Nothing then
  releases that hold before the worker restarts.
  A runner that fails after an ensure call has released its hold writes the error back
  without a handoff (`update_runner.py:1822-1829`), and ensure calls are refused
  (88238-88244) until a plain start.
  The undo of a failed start behind a Hub fence that cannot be cleared (88864-88879) leaves a
  sealed lease that no row names; Hub hosts are not modelled.

Line numbers without a file are of `agent_server.py`.

## 8 Assumptions and limits

- systemd on Linux: `Restart=always` runs a crashed service again, starting a unit starts
  what it `Wants=`, and units are as of the last reload. launchd, where a service is
  removed and bootstrapped, is not modelled separately.
- SQLite gives each mailbox operation an atomic, durable transaction, and each snapshot of the
  hub one consistent read. A file replaced
  by rename is replaced whole; `rename`, `mkdir`, `rmdir` and `unlinkat` are atomic.
- The event journal of a chat loses nothing it has reported as durable, and a batch is
  written whole (`Torn = FALSE`).
- `ExecutionActivation` and `UpdateHandoff` take from `InstallationLock` that there is one live
  holder. In `ExecutionActivation` a request to the worker and its reply are one step;
  lost replies are in `UpdateHandoff`. Nobody in `src/` renews a lease, so renewal is left out.
- In `lock_exclusion` only the installer dies; the theorems let every process die.
- A pid belongs to one process for the time of a behaviour. The code's protection against
  reuse (inode and contents of the pid file) is modelled, reuse itself is not.
- Hints: one peer with one mailbox; of ordinary requests only that they are under way; a change is named by its sequence, so a restored
  database that reuses one is left out; the limit of streams per recipient (4) is not
  reached by one peer. The feed is that of protocol version 2; the mail hints of version 1 have the
  same shape.
- In `UpdateHandoff` a runner that no longer owns its row does not come about, because an active
  row admits no other update; the branch is there and does not fire.
- Wording, logs, validation of malformed input and permissions are left out.
