# Verification of MinecraftManagerOnline

TLA+ models of the agent/panel system, the TLC runs that check them on small instances, and the theorems
that TLAPS proves about them for every instance. Every definition is translated from the TypeScript of
this repository; `PROJECT.json` (`map`) gives, for each one, the file and lines it stands for.

## 1. The system

The **panel** (`apps/panel`: Fastify, SQLite) keeps the database and serves the browsers. One **agent**
(`apps/agent`) runs on each machine and drives the Minecraft servers there. They talk over one WebSocket
with the envelopes of `packages/protocol` (requests with answers, plain events, critical events, binary
transfer frames). Both are single-threaded Node processes: a handler is atomic between two `await`s, and
every interleaving modelled here is one of `await`s, messages, timers and processes. The agent works on
its own when the panel is away: it restarts crashed servers, runs the scheduled backups and journals what
the panel must know.

### Inventory

| Component | State | Operations | Interacts with | What is hard | What makes it correct |
|---|---|---|---|---|---|
| Critical events: `agent/connection/connection.ts`, `panel/agents/session.ts`, `services/processed-events.ts` | journal `pendingEvents` in memory and on disk; table `processed_events`; batched acks | emit, replay, claim, apply, ack | state store, RPC peer, every event handler of the panel | crashes between claim, effect and ack; replays; superseded sessions; failed disk writes | at most once, in order, nothing forgotten, everything durable arrives |
| State store: `agent/state/store.ts` | state, file, chain of writes | update, mutate, save, flush, load | every service of the agent | coalesced writes; a rejected write | what was awaited is on disk |
| Uploads: `panel/services/transfers.ts`, `protocol/transfer/engine.ts`, `agent/transfer/transfers.ts` | sender window, retained chunks, `.part` file, receiver offset, digest | start, frame, ack, resume, done, cancel | browser body, both sessions, file system | resume by offset on a body that cannot be read twice; writes that fail behind a counted frame | no byte lost, no gap, published file is the body sent, every upload ends |
| Tasks: `agent/tasks/{runner,journal}.ts`, `panel/services/tasks.ts`, `http/routes/tasks.ts` | rows, journal in memory and on disk, active map, outcomes | order, cancel, start, progress, outcome, recover, list, reconcile, ack | critical events, RPC, scheduler | an order, its answer, its outcome and the task list may meet in any order, with crashes | no false success, final is final, the agent prevails, everything settles |
| Scheduled backups: `agent/backup/scheduler.ts` | occurrences already run | tick | tasks | check, then await, then act | one backup at a time |
| Server processes: `agent/minecraft/{server-process,server-manager}.ts` | process, run state, stop requested, record on disk, starts in progress | start, adopt, stop, kill, restart, exit | watchdog, restoration, panel routes | a process that outlives the agent; stops by steps; a crash told late | no process escapes, stops end and are kept |
| Watchdog: `agent/monitoring/watchdog.ts` | crash times, restart timer, probe | cancel, onCrash, onFreeze | server processes | bound of restarts; a restart that is due when an order comes | restarts bounded, orders prevail |
| Restoration, archives: `agent/backup/backup-service.ts` | archives, manifests | create, verify, restore, rotate | tasks, server processes | a server that starts while its files are replaced | files replaced at rest |
| Panel sessions: `panel/agents/{session,registry}.ts` | session per machine, lists computed at `sync.state` | hello, reconcile, start the wished servers | all the above | lists used after several awaits | one session, the wish is respected |
| Server routes: `panel/http/routes/servers.ts`, `services/servers.ts` | `desired_state`, `run_state` | start, stop, restart, kill | agent handlers | the wish and the order are two steps | the wish is what restarts obey |
| RPC peer: `protocol/rpc/peer.ts` | requests pending, answers kept | request, receive, deliver | both sides | late answers, replays by id | one execution per request id |
| Migrations and duplications: `panel/services/migrations.ts`, `agent/migration/migration.ts` | row of the job, owner and provisioning of the server, row of the copy; directories and tasks of two agents | ask, export, import, switch, push of the configurations, finalise, confirm a copy, start the source again | tasks, sessions, orders of users, scans | a restart, a lost answer or an order at each step; a job that is closed while its task goes on | the owner holds the whole directory and the last world, nothing is destroyed before the switch, no server is left migrating |
| Updates: `agent/update/updater.ts`, `agent/launcher/launcher.cjs`, `panel/services/releases.ts` | `current`, `next.json`, `outcome.json`, the versions and runtimes on disk; the trial and the health timer | stage, launch, switch, confirm, roll back, report | launcher, its child, panel session | a blackout between any two writes; "healthy" against its timer; a broken runtime | what runs after a trial was proven, the outcome is true and told, the agent always comes back |
| Schedules: `shared/cron.ts`, `shared/timezone.ts`, `panel/services/scheduler.ts` | last occurrence run | next occurrence, tick | tasks, servers | boundaries of time | each occurrence once |
| Alerts, webhooks, console relay, metrics, files, installation, accounts, web | see `components` of `PROJECT.json` | | | mostly synchronous or best effort | |

`hazards` of `PROJECT.json` lists, at its line, each thing here that a test would hardly reach, with the
properties that cover it or the reason why none does yet.

## 2. Modules

| Module | Models | Extended by |
|---|---|---|
| `Delivery` | abstract: a mailbox whose items are posted, taken in the order they were posted, handled at most once, and safe once kept | `CriticalEvents` instantiates it as `Mailbox` |
| `CriticalEvents` | the delivery of critical events and the part of the state store it rests on; implements `Delivery` | `MCCriticalEvents`, `CriticalEventsProofs`, `DeliveryProofs` |
| `Upload` | one upload from the browser's body to the published file | `MCUpload`, `UploadProofs` |
| `Tasks` | the tasks of one server, ordered by the panel or scheduled by the agent | `MCTasks`, `TasksProofs` |
| `Servers` | the life of one server: processes, manager, watchdog, restoration, orders of the panel | `MCServers`, `ServersProofs` |
| `Migrations` | the migrations and duplications of one server over a fleet, with the sessions, orders and scans around them | `MCMigrations`, `MigrationsProofs` |
| `Updates` | the updates of one agent and of its runtime: updater, launcher, child and panel | `MCUpdates`, `UpdatesProofs` |

An operator called *Mutant of X* sits before some definitions X: it is X with a plausible bug, and
shows that the property listed with it in `PROJECT.json` (`mutants`) can be broken. No mutant is used by
a specification. `TypeOK` is a conjunction by groups of variables that one process owns (`PanelOK`, `WireOK`,
`JournalOK`, ... of `Tasks`), and each `vars` a tuple of such groups, so that a proof has nothing to say of the
groups that a step leaves alone.

### CriticalEvents

`mem` is `pendingEvents`, `disk` its copy in the state file, `wanted`/`writing`/`snapshot` the promise
chain of the store (a write takes its snapshot when it starts; a failed one leaves the chain `rejected`).
`Dial`, `Establish`, `NoticeClose` are the connection loop of the agent; `Attach` is the panel's handling
of `auth.hello`, which supersedes the open session; each connection has a FIFO channel each way
(`up`, `down`), and a socket that the panel is closing may still deliver. `Receive` claims an event in
`processed_events` or queues its ack again; `Apply` is the handler, which runs in a later microtask;
`FlushAcks` sends a batch; `Acknowledge` filters the journal. `CutAtAgent`, `CutAtPanel`, `AgentRestart`,
`PanelRestart`, `FailWrite` (which either rejects the chain or, when the state directory is gone, is taken for
written) are the faults. Events are the numbers of their emission, so the journal is a
set. The variables `durable`, `dropped` and `failed` are history: what reached the disk, what the
cap of the journal removed, whose handler threw.

`Delivery` is what all this amounts to for the rest of the system, with neither sessions nor channels nor
disks: events are posted in order, `owed` until they are handed over, `safe` once a crash of the sender
leaves them there, taken once and in order, handled, failed or missed. The mapping (`Mailbox`) reads the
status of an event from the claims, the counts of its handler and the handlers under way, what is owed
from the journal (`Unclaimed`), and what is safe from the history of the disk. A replay, a duplicate, a
write or an acknowledgement is a stutter; a death of the agent is a `Forget` that keeps what is safe, a
death of the panel an `Abandon`.

### Upload

The unit is a chunk. `retained` is the sender's window, `good` and `torn` the chunks of the `.part` file,
`stored` and `expected` the receiver's offset with and without the writes under way, `hashOk` the digest. The
removal of the former target and the rename of the `.part` file are one step: a death in between leaves the
whole `.part` file and no target, which no property of the module looks at. A cut is felt by each side on its
own (`registry` live or dying, `heard`, `live`); the panel's watcher reconnects, sends `fs.upload.start` again
and resumes the sender at the offset the agent answers. The body may be shorter or longer than announced, and
the browser may break it off. Faults: cuts, crashes of the agent (also in the middle of a write), failed and
short writes, a broken body.

### Tasks

One server, so that "one task per server" is one task at all. A task is ordered by the panel (`Orders`) or comes
from the agent's scheduler (`Scheduled`). The panel holds `row`, the outcomes `seen` (claimed) and `applying`;
the agent holds the `journal`, its copy on `disk`, the `active` map, tasks still `starting` (the write-ahead is
awaited), the `outbox` of its critical events and its durable part `safe`. `ran` is what the executor really
did. The channels carry orders, cancellations, acks, lists, answers, progress and outcomes. The delivery of an
outcome is taken from `CriticalEvents`: it is sent again until acknowledged and claimed once; a cut is seen by
both ends at once. A write of the task journal does not fail in the model: in the code it would leave the chain of writes rejected (`journal.ts:143`), so that no later task starts. Progress is sent on an empty channel only, since a progress
message behind others tells the panel nothing new.

### Servers

`proc` is the operating system's process (booting, open, hung), `told` the strongest word it heard
(stop command, SIGTERM, SIGKILL), `lost` a process no agent knows. `state`, `asked`, `announced` are
`_state`, `stopRequested` and the log lines that make an end a clean one; `searching` is the wait for
`findCrashReport`, between the end of a process and the moment the crash is told. `stopping` is the
`stop()` in charge and its stage, `restarting`, `restoring` the operations that wait for it or for
another's; `starting` is `doStart` in progress, whose checks may fail (`StartFails`). `crashes` and
`timer` are the watchdog's; an expiry of its window is `Expire`. `listed` is the panel's list of servers
to start, computed at `sync.state` and used later. `desired` is the wish, at the panel and in the agent's
state file. A death of the agent (`AgentCrash`) forgets all but the record on disk; `AgentBoot`
adopts the recorded process or starts the wished server. History: `held` (the last order was a stop;
`quiet` when nothing that starts servers was under way), `touched` (a start, or a stop in charge,
came in the way of the restoration), `autos` (restarts made by the watchdog).

### Migrations

One server, any fleet, any number of jobs. The panel's part follows `run()` and `runDuplicate()`: `step` is
where the chain of a job stands. A stretch between two awaits is one action as long as it commits once; where it
updates several rows, which are as many SQLite commits, each commit is an action and `Idle` lets nothing else of
the panel come in between, while the agents go on and the panel may die. `Ask` is the route up to the
pre-checks, `Precheck` the agents' answer, `Admit`, `Insert` and `Mark` what comes after it (row of the copy,
row of the job, provisioning) without reading anything again; `Fail`, `Conclude` and `Restore` are the catch and
the finally blocks: the row is closed, then the server given back. `PanelRestarts` leaves to the constructor the
rows that are active, which `Sweep`, `Reset` and `Discard` go through one commit at a time; what was half closed
is in no list. Each request may fail with its effect or without it (a lost answer, a cut, an agent that is away:
`opening`). The agents' part is the two tasks of `migration.ts` (`exp`, `imp`, one value per stage) and what
`recover()` makes of them after a restart, with the artifact of an import on disk or already given up
(`Unkept`). A directory is absent, partial or whole and carries a version of the world, which `Play` advances
wherever the server runs: `newest` is the last one. Around the chain: `Sync` (a session opens and gets its
configuration), starts on their way (`due`), orders of users, exits, and `Scan`, which finds the directory of an
import that is not over. `odd` notes what the chain does not account for: a job admitted on checks that no
longer held (`"stale"`), an import over a directory that came meanwhile (`"overwritten"`), a server that was
played elsewhere or after its archive was made (`"strayed"`), a panel that died between two commits of the end
of a job, of the beginning of a copy or of the constructor itself (`"halved"`). The properties say which of them
they set aside.

### Updates

The files of the launcher's home are variables. The launcher writes its own by rename; the agent writes
`next.json` and `runtime-next.json` in place, and a half-written one, which the launcher ignores, is no file
here. The launcher runs its handlers to the end, but its writes are separate steps (`at`): a blackout may come
between any two, and the agent runs on meanwhile. `TakeNext`, `Swap`, `Clear` and their three runtime
counterparts are `applyPending`; `Healthy`, `HealthTimeout`, `Undo`, `Report`, `Forget`, `Exit` are the trial
and its end. The agent's `Push`, `Install`, `Stage`, `Refuse` are `agent.update` (one at a time), `StageRuntime`
is `runtime.update` (the flag that keeps the two apart is left out, so more may meet here than in the code),
`Claim`, `Persist`, `Release` the readings of the outcome after `sync.state`. A version in `Broken`, and a
runtime in `BrokenRuntimes`, never opens a session. A "healthy" that is still in the pipe when the child exits
is lost, as if the launcher heard all of the pipe before the exit. Time is left out: the health timer may fire
at any moment before "healthy" is heard. `odd` notes a runtime swapped along with an agent (`"joint"`), a
blackout inside a rollback (`"torn"`), two readings at once (`"raced"`) and a bundle removed from under the
launcher (`"removed"`).

## 3. Runs

| Run | Question | Bounds, and why they are enough |
|---|---|---|
| `events_faults` | at most once, in order, nothing forgotten, acks only for claims, and the mailbox of `Delivery` implemented | 3 events, 1 fault, a journal capped at 2, so that an emission drops while a replay is on its way; a claim, a handler and a batch of acks cut by each kind of fault. The theorems cover any number |
| `events_live` | every durable event is claimed, the journal empties | 2 events, 1 fault, journal capped at 1, so that the cap drops |
| `events_missed` | *violation*: a claimed event whose handler never runs | 1 event, 1 crash |
| `upload` | window, no byte lost, no gap, only the true body published, an end | window 2 of a body announced with 4 chunks and having 1 to 5; 3 faults: a resume of a resume, and a fault of the disk between |
| `tasks` | no false success, final is final, the agent prevails, write-ahead, no two orders | 2 orders (symmetric) sent while the task list is on its way or after it, 1 cancellation, 1 fault of any kind |
| `tasks_live` | every task settles | an order and a scheduled task, 1 cut, crash or restart |
| `tasks_early` | *violation*: an order given during the reconciliation | 1 order, no fault |
| `servers` | no process escapes, stops are kept and end, restarts are bounded, files replaced at rest | 3 orders, 5 faults, 2 restarts per window: a whole crash loop with an order in its middle; a stop, a restart and a restoration that meet |
| `servers_files` | *violation*: a live process under a restoration | 3 orders, no fault |
| `migrations` | the owner keeps its whole directory and the last world, a copy is whole when it is ready and its row goes away when it is not, no server is left migrating | 2 machines, 2 jobs (there and back, or with a copy between, so that a second job meets the remains of the first), 1 restart (of the panel: also between two commits), cut, order or exit at any step, 1 change of the world, after which only the states that `WorldFollows` speaks of are extended (`Apart` of MCMigrations says why nothing is lost but a copy in between, which moves no world). The theorems cover any fleet, jobs and upsets |
| `migrations_interrupted` | *violation*: a migration that failed runs on its target | 1 job, 1 restart of the panel |
| `updates` | what runs after a trial was proven, outcomes are true and kept, the agent comes back | 3 versions, the second broken, so that the last one is both above and below a rollback; 1 broken runtime; 1 blackout, crash or corrupt bundle between any two writes; 2 readings of the outcome (3 in the code): one that claims and one that finds a claim; states where two readings overlapped are not extended (`Orderly` of MCUpdates says why nothing is lost) |

`CHECK_DEADLOCK FALSE` everywhere but in `updates`, whose launcher never stops: with the orders and the faults
used up the system has nothing left to do. `MaxFaults`, `MaxOrders`, `MaxCancels`, `MaxJobs`, `MaxUpsets` and
`MaxWorld` bound what the environment does, never what the program does.

### What the violations say

* `events_missed` (`session.ts:462`): the claim is committed before the handler runs, and only the claim
  survives a death of the panel. The replay is acknowledged and the event never applied.
* `tasks_early` (`services/tasks.ts:287`): a row created after the agent computed its list is failed as
  unknown although the agent runs the task.
* `servers_files` (`backup-service.ts:731`): the restoration looks once whether the server runs; a start
  in progress is not a running server.
* `migrations_interrupted` (`services/migrations.ts:408`): a request `migration.import` that failed after
  the agent took it, or a restart of the panel, closes the migration as failed and cancels nothing. The
  import ends and starts the server on the target, while the source keeps its row and is started again at
  its next session.

Their exclusions are stated in the properties that hold: `AgentPrevails` leaves out disowned orders,
`NeverStranded` and `CopyRowRemoved` the deaths between two commits (`"halved"`),
`HeldStaysDown` the orders that came while something else was under way, `FilesAtRest` the restorations
that were touched, `NoGap` and `VerifiedIsWhole` the faults of the disk named in them. Some
disagreements have no run of their own. A job ends with two commits, the row is closed and then the provisioning
restored (`services/migrations.ts:414`, `:764`, `:794`, and `:94` to `:99` in the constructor), and the constructor
looks at active rows alone: a panel that dies between the two leaves the server "migrating", which nothing looks at
again, against docs/05-protocole.md:315 (`"halved"`; without that exclusion TLC finds the state with one job and one
restart). A chunk that the receiver refuses stops the acknowledgements and
nothing else, as it has no `onError`, and the browser waits for ever (`transfers.ts:265` of the agent;
`UploadEnds` sets it aside). A scheduled backup and an ordered one may run together, their check and their
registration being separated by awaits (`backup/scheduler.ts:126`; `OneOrderAtATime` is about orders). A
stop given while the report of a crash is looked for cancels a restart that is not armed yet
(`server-process.ts:710`; `HeldStaysDown` sets it aside). A runtime staged before an update of the agent is
swapped under the agent's trial and never taken back (`launcher.cjs:140`; `Returns` sets it aside). A
blackout inside a rollback reports it as applied (`launcher.cjs:178`; `OutcomeIsTrue`). The row of a copy
that failed stays once a scan has touched it. The answer to an order that is lost (`routes/tasks.ts:184`) closes
the row of a running task, and docs/05-protocole.md (a task without progress for 120 s becomes `stalled`)
describes something the code does not do. `AutoRestartsBounded` is one above `crashLoopMax`, because
a restart that is due is cancelled by orders only: it outlives a start made by a restart order,
a clean end and the giving up itself.

### Fairness

Weak fairness of single actions, never of faults, orders or the obedience of servers and browsers.

* `CriticalEvents`: chained writes run, the connection loop dials again, the panel handles what arrives on
  the last connection, handlers end, the timer of the acks fires: what an event loop and timers guarantee.
* `Upload`: the same, for the steps of the sender, watcher, handler and receiver. `UploadEnds` is
  for bodies of the announced size under cuts and broken bodies only.
* `Tasks`: the same, per channel and per stage of a task rather than per action, which is weaker and
  enough, as every task passes a stage once; the agent dials and is started again (it is a service), and
  an executor ends.
* `Servers`: the delays of `stop` fire, a process that got SIGKILL dies, its exit is noticed and a crash
  told. A server may ignore the stop command and SIGTERM for ever.
* `Updates`: the service manager starts the launcher again, the launcher goes through its handlers, its
  health timer fires, a signal that was sent ends the child, and a sound agent opens its session (the panel
  can be reached in the end). No push, crash or blackout is fair.
* `Migrations` states none: its chains wait for tasks and requests that may last for ever.

## 4. Proofs

`CriticalEventsProofs` proves, for every number of events, faults, cap and batch size
(`CriticalEventsAssumption`: natural numbers, the last two positive):

| Theorem | Says | Argument |
|---|---|---|
| `TypeCorrect` | `[]TypeOK` | inductive by itself |
| `AtMostOnceHolds` | `[]AtMostOnce` | from `ClaimsExact`: a handler runs for a claimed event, in one session, and never for an applied one. `AtMostOnce` alone does not know that two handlers of one event cannot be pending |
| `AckedOnlyIfClaimedHolds` | `[]AckedOnlyIfClaimed` | inductive with `ClaimsExact`: acks are queued for claimed events only and claims never shrink |
| `NothingForgottenHolds` | `[]NothingForgotten` | from `JournalCovers`: the snapshot of a write under way, which will replace the file, misses nothing durable |
| `ClaimedInOrderHolds` | `ClaimedInOrder` | from `ChannelsInOrder`: on a socket that can still deliver, every unclaimed event comes before the later ones, and an established session carries all of them |

`DeliveryProofs` proves over the same assumption:

| Theorem | Says | Argument |
|---|---|---|
| `NumbersDrawnHolds` | `[]NumbersDrawn`: only emitted events are claimed, dropped or on disk | inductive with `TypeOK`, `ClaimsExact` and `ChannelsInOrder` |
| `ImplementsHolds` | `Spec => Mailbox!Spec` | one lemma per action of `Delivery` that a step maps to (`EmitPosts`, `ReceiveTakes`, `ApplyFinishes`, `PanelRestartAbandons`, `AgentSteps` for `Secure` and `Forget`); the others leave the mapping as it is (`MailboxStutters`). `ReceiveTakes` needs `ChannelsInOrder`, since an event may only be taken when no earlier one is owed, and `AgentSteps` needs `JournalCovers`, since a restart keeps what is safe |

The lemmas of `CriticalEventsProofs` are about sequences (what `Append`, `Tail` and the replay do to the order of a
channel) and about the cap of the journal.

`ServersProofs` proves, for every size of the window of crashes, number of orders and number of faults
(`ServersAssumption`: natural numbers):

| Theorem | Says | Argument |
|---|---|---|
| `TypeCorrect` | `[]TypeOK` | inductive by itself |
| `AtRestIsDeadHolds` | `[]AtRestIsDead` | from `ProcessKnown`, which adds that a start is under way at rest only, that a crash is told of a dead process, and that a dead agent leaves behind no process but the recorded one: without the last, a new agent could start a second server |
| `HeldStaysDownHolds` | `[]HeldStaysDown` | from `HeldDown`: under a quiet stop no start, restart or restoration is left that could act on its own, and when the agent is down there is no process to adopt |
| `AutoRestartsBoundedHolds` | `[]AutoRestartsBounded` | from `RestartsCounted`: as long as a restart may still come, the restarts made or due are at most the crashes counted and one; a timer that outlived a start by an order has made none yet |
| `FilesAtRestHolds` | `[]FilesAtRest` | from `RestoreAlone` and `ProcessKnown`: an undisturbed restoration waits for the end of its own stop, and what is at rest is dead |

`ProcessKnownHolds`, `HeldDownHolds`, `RestartsCountedHolds` and `RestoreAloneHolds` are the inductive
invariants; each of them is a case per action, and the last two rest on `TypeOK` and `ProcessKnown`.

`MigrationsProofs` proves, for every fleet, list of jobs, number of upsets and of worlds
(`HomeAssumption`, `RequestsAssumption`, `BoundAssumption`):

| Theorem | Says | Argument |
|---|---|---|
| `TypeCorrect` | `[]TypeOK` | inductive by itself, one group of variables at a time |
| `ChainsActiveHolds` | a chain stands somewhere exactly while its row is active, and no import runs before its chain orders it | inductive with `TypeOK` |
| `CloneCompleteHolds` | `[]CloneComplete` | from `CopyKnown`: an import that is over has its copy; a restart removes the artifacts of those alone that were not |
| `NeverStrandedHolds` | `[]NeverStranded` | with `ChainsActive`: a chain keeps its row active until it closes it, so that the constructor finds whatever a restart cuts, and a chain that has closed it has only its `Restore` to make |
| `CopyRowRemovedHolds` | `[]CopyRowRemoved` | with `CopyRowsOwned` (a migration has no copy, a duplication no switch) and `ChainsActive`: each end of a chain, and the constructor, passes by the removal of the row |
| `OwnerHasFilesHolds` | `[]OwnerHasFiles` | from `Placed`: the directory of the owner is whole and no import can still remove it; so are that of the source after the switch, and that of the target once its import is done. Without the target, the switch could move the row to a directory that the recovery of another import is about to remove |
| `WorldFollowsHolds` | `[]WorldFollows` | from `Worlds`: as long as nothing strayed, the archive of a chain before its switch, and the directory that its import made, hold the last world. It needs `Placed` (no other import writes there) and `Exported` (an import that was ordered has its archive): `WorldFollows` alone does not know what a switch will find |

`UploadProofs` proves, for every size of the body, announced or real, every window and every number and kind of
faults (`UploadAssumption`: positive sizes, known faults):

| Theorem | Says | Argument |
|---|---|---|
| `TypeCorrect` | `[]TypeOK` | with `Writing`: the receiver that writes is that of the entry and is behind what it expects, else the offset could pass the end of the body |
| `NothingLostHolds` | `[]NothingLost` | from `Retained` (what was emitted and not acknowledged is retained) and `Contiguous` (the `.part` file has no hole and holds whatever was reported). The second speaks of every offset on its way, in an ack, in an answer or acknowledged, since each of them frees chunks when it arrives |
| `WindowRespectedHolds` | `[]WindowRespected` | inductive with `Detached`: a chunk joins where there is room for it, an ack and a resumption only take chunks away |
| `NoGapHolds` | `[]NoGap` | from `InOrder`: the frames on the wire continue what the receiver expects; with `Untorn`, it is never inside a chunk |
| `NeverOutOfWindowHolds` | `[]NeverOutOfWindow` | from `Resumable` and `Emitted`: the agent resumes where it acknowledged or further, and not beyond what was emitted |
| `VerifiedIsWholeHolds` | `[]VerifiedIsWhole` | from `Hashed`: what entered the digest is on the disk, but for a short write |

`Wired`, `Detached`, `Emitted` and `UnderWay` are what the others rest on: nothing outlives its connection, a
detached sender waits for the one answer to `startUpload`, nothing is written or reported that was not emitted.

`TasksProofs` proves, for every finite number of orders and scheduled tasks, and every number and kind of faults
(`TasksAssumption`: finite, since `OneOrderAtATime` counts orders, disjoint sets of tasks, known kinds of faults):

| Theorem | Says | Argument |
|---|---|---|
| `TypeCorrect`, `RunningIsWrittenHolds` | `[]TypeOK`, `[]RunningIsWritten` | from `Core`, the invariant that all the others share: a task that was not begun is nowhere (`Untouched`: not in the journal, on disk, in an answer, an outcome or a list), an order is on the wire once (`Single`) and for a row (`Rowed`), an agent that is down says nothing (`Down`), a task that runs has the running record of this run (`Running`). They are inductive together only: an order that could come twice would run twice |
| `FinalIsFinalHolds` | `FinalIsFinal` | from `TypeOK`: each action that writes a row looks at it first |
| `SuccessIsRealHolds` | `[]SuccessIsReal` | from `Real`: the same of the journal, its copy on disk, the outcomes told and the lists, through which a verdict goes to the row |
| `ForgottenIsSettledHolds` | `[]ForgottenIsSettled` | from `Acked`: an ack on the wire, in the journal or on disk is for a settled row |
| `OneOrderAtATimeHolds` | `[]OneOrderAtATime` | from `Owned` (an order on the wire or running has an active row, the only one) and `Alone`. They need `Overtaken`: a list that was computed before an order reached the agent arrives before the answer to that order, and a row whose answer is awaited is not closed by a list |
| `AgentPrevailsHolds` | `[]AgentPrevails` | from `Kept`: without a crash the journal never takes back what it told, in an event or in a list that is still on its way; `ListedOnce` keeps an older list from following a newer one |

`UpdatesProofs` proves, for every set of releases and runtimes, every choice of the broken ones, and every number
of upsets and readings (`VersionsAssumption`, `RuntimesAssumption`, `BoundsAssumption`: positive numbers, and the
installed version is sound):

| Theorem | Says | Argument |
|---|---|---|
| `TypeCorrect` | `[]TypeOK` | with `Switchable` (what is switched to is a version) and `Counted` (the readings of a session, those whose claim is held and those that are over, never exceed the bound together) |
| `SettledIsProvenHolds` | `[]SettledIsProven` | from `AgentKept` and `RuntimeKept`: what runs was proven or is on trial, and what the trial would go back to was proven and is still on disk |
| `OutcomeIsTrueHolds` | `[]OutcomeIsTrue` | from these, `AgentTried` and `RuntimeTried`: a trial is of what runs, or of what the next write will switch to. A blackout between the trial and its switch would otherwise be reported as applied |
| `LastOutcomeKeptHolds` | `[]LastOutcomeKept` | from `OutcomeMoves`: the outcome is in `outcome.json`, then in the claimed file, and a reading that is over claimed nothing |

`Control`, `Staging` and `Trying` say where the launcher stands, whom `next.json` names, and that the timer and
a rollback work on the trial on disk; each of the theorems above cites those it needs.

The proofs found one thing to change in the models: in `TakeReply` of `Tasks` the arms of a CASE overlapped (the
answer "ok" to an order that is not awaited any more), which TLC reads in their order and the prover as a
choice; the arms are disjoint now. No property had to be weakened.

Every invariant and every action property that the passing runs check is thus a theorem. Model-checked only are
the six temporal properties that need fairness (`DurableIsClaimed`, `JournalDrains`, `UploadEnds`, `EveryTaskSettles`,
`StopEnds`, `Returns`), which are beyond the prover, and the violations, which are runs by nature.

## 5. What is not modelled

* Time: delays fire at any moment, a window expires at any moment, and the retentions (24 h of claims,
  7 days of tasks) never end. The claim purged before a late replay (`maintenance.ts:129`) is a hazard.
* Several servers or machines at once: the memory guard, ports and parallel transfers.
* Deaths between the removal of a file and the rename that replaces it, failed writes of the task journal, and
  files that the agent writes in place and only half.
* Downloads, cancellation of uploads, partial restorations, backups under way, graceful ends of the agent.
* In `Servers`: the attachment of a server (stdin or RCON) is only whether the stop command can be
  sent; SIGKILL works within its 15 s; one restart order waits at a time; `autoRestart`,
  `kill_restart` and `restoreOnBoot` are on.
* In `Migrations`: the listener and the relay of `transfer.serve`, the installation of Java, ports, names and
  quotas among the pre-checks (which are one refusal), other servers of the fleet, the renamed directories
  and their purge. The wish of a user is one bit for the server, whoever holds it.
* In `Updates`: the publication, download and signature of releases, the one-shot mode of the launcher, a
  child that cannot be spawned, and the delays themselves.
* The components marked `not_modelled`, each with its reason.

## 6. Plan

Done: delivery, uploads, tasks, server processes, migrations, updates, the refinement of `Delivery`, and the
proofs of every safety property.
Next, by what each adds:

1. Proofs: the mapping of an upload, of a task and of an update to abstract specifications as small as `Delivery`
   (a file that is published whole or not at all, a task with one outcome, a machine that runs proven versions),
   for which the invariants of the proof modules are the lemmas.
2. **RPC**: the answers kept by request id, and `Tasks` restated over them.
3. **Removal of servers and cancellation of uploads**: the two hazards that no property covers and that need
   no clock.
4. **Schedules and rotation** as functions, against reference definitions over bounded inputs.
5. **Alerts and webhooks**: an alert raised, acknowledged and resolved over reconnections.

New runs take the place of the smaller violation runs where they ask more.
