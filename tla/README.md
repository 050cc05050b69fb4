# A TLA+ model of tarocub

tarocub connects coding engines (Claude, Codex, Kimi, ...) to chat platforms
(Telegram, Lark) as long-lived bots. One process per bot instance takes
messages, runs one engine turn per message, keeps a durable Kanban board and
scheduled jobs, owes answers to the platform, and shares its state files with
other processes: other bridge instances, a web console, recovery tools.

What can go wrong lies between the steps: between two transactions of the board
while an engine works, between the platform's acknowledgement and the ledger's
write, between two awaits of a scheduled run, between the rename and the
restore of a lock directory, between the start of an engine's turn and the line
that says its id. This directory models those parts, checks them with TLC on
small instances, and proves what matters most of it for every instance.

Paths are relative to the repository, so `src/src/...` is the program's source
and `docs/...` stands for `src/docs/...`.

## 1. Inventory

The way of a message through the program:

    platform --> update intake / Lark burst and steering
             --> chat queue (one turn of a conversation at a time)
             --> session binding (locks, lease of the pool)
             --> engine adapter (Codex app server, Claude worker, ...)
             --> answer --> delivery ledger --> platform

Beside it: the cron scheduler, which starts turns of its own; `/board run` and
the bus, which start turns inside turns; the boot of the service (instance
lock, restart-loop breaker, recovery of owed answers).

### Modelled

**Kanban board** (`state/board-store.ts`, `telegram/board-commands.ts`,
`state/sqlite-kanban-repository.ts`). State: tasks (status, assignee,
dependencies, schedule, review gate, retry count), task runs, claims with
leases, board settings with the circuit breaker, and, in memory, the `/board
run` workers that are executing. Operations: about forty mutations, each one
`BEGIN IMMEDIATE` transaction. Hard: a run spans transactions, so its result
may arrive when the task has been blocked, recovered, archived or started
again; eighteen operations can end a run and each has to close run, status and
claim together; readiness is cached in the status and never looked at again by
the dispatcher. Correct means: a task is running exactly while it has one
active run; a claim belongs to that run and rests on nothing finished;
dependencies stay acyclic, exist, and were done whenever a task is ready; done
is final; the review gate cannot be avoided; the WIP limits hold.

**Delivery ledger** (`state/delivery-obligation-store.ts`,
`runtime/restart-loop-guard.ts`, `lark/message-handler.ts`,
`lark/delivery-recovery.ts`, `lark/service.ts`). State: one row per final answer
that is owed (pending, attempting, failed, delivered, abandoned), its owner
process and attempts; the restart breaker's records; what a turn or recovery
has sent. Operations: record, mark, sweep, redeliver, abandon, and the endings
of a process (crash, fatal exit, clean stop). Hard: the process may die after
the platform took the answer and before the row says so; recovery itself may be
what kills it. Correct means: nothing incomplete is settled as delivered, an
orphan is settled in the end, redeliveries are bounded and the first one is
plain only if no send had begun, and a crash loop driven by recovery is cut.

**File mutex** (`state/file-mutex.ts`) and **instance lock**
(`state/instance-lock.ts`). State: the lock directory, its `owner.json`, the
lock file of the service, and the place of each process in the protocol.
Operations: mkdir, write, judge, rename, re-read, restore, discard, release;
create, read, remove and recreate of the lock file. Hard: all of it is done by
path, with other processes and crashes between any two file operations, and the
first create of the instance lock is outside the mutex. Correct means: at most
one service per state directory; an unclean end is reported once and a clean
one never; a leftover does not block for ever.

**Cron scheduler** (`runtime/cron-scheduler.ts`, `state/cron-store.ts`,
`runtime/cron-runtime.ts`). State: jobs in the store, timers, `activeJobIds`,
runs in progress, refreshes that have read but not applied. Operations:
commands, refresh, fire, execute, time out, bookkeeping, stop, boot. Hard: a
run awaits six times while commands and refreshes interleave; writes fail one
by one; the process is down over a one-shot's target. Correct means: no job
overlaps itself, an enabled job has a timer, failures disable it, a one-shot is
run or reported as missed.

**Chat queue** (`runtime/chat-queue.ts`, `runQueuedBridgeTurn` in
`service.ts`). State: a chain of promises per conversation, a generation
number, cancelled ids, turns that wait for turns of other conversations.
Operations: enqueue, clear, cancel, start, settle, cleanup, nested call. Hard:
cleanup is a callback of its own; turns of two conversations may call into each
other. Correct means: one task at a time, exactly the stopped ones are skipped,
no mutual waiting.

**Telegram update intake** (`service.ts`, `state/runtime-state.ts`). State: the
poll offset, the watermark `lastHandledUpdateId` in a file, the ids enqueued
and those completed out of order in memory. Operations: poll, take a batch in,
mark, flush, shut down, restart. Hard: the loop does not wait for a batch and
asks for what follows the watermark, so what is in work is fetched again;
completions come in any order; a mark may fail, and so may the reading of the
configuration or the recording of a turn's start, before anything is handled.
Correct means: the watermark never passes an update that was not handled (an
update that failed before it was, counts as complete for the code), none is
handled twice by one process, and the watermark catches up.

**Session binding** (`runtime/bridge.ts`, `session-manager.ts`, `turn-lock.ts`,
`turn-pool.ts`, `state/session-store.ts`, `telegram/session-commands.ts`).
State: the record that binds a conversation to an engine thread, the locks of
conversations and threads, the leases of the pool all processes share.
Operations: resolve, lock, lease, run, rebind, drop a stale thread, `/resume`,
`/detach`, `/reset`. Hard: scheduled turns and commands do not pass the queue;
locks and leases are files and outlive their process. Correct means: no turn
opens a thread its conversation has left, the pool is bounded, every turn ends.

**Lark runs** (`lark/message-handler.ts`, `lark/bus.ts`, `lark/commands.ts`,
`lark/card-actions.ts`, `lark/cron.ts`). State: the attachment burst, the queue
of the conversation, the one slot a stop looks at, the pursuit of a goal, the
cards that say a message waits. Operations: accept, park, steer, preempt,
queue, stop, tap. Hard: turns, a pursuit and board cards claim and release the
same slot in any order; a card is sent while the queue moves on. Correct means:
a stop reaches every live run and spares the goal beside it, attachments go
before the message that follows them, no message is left unanswered.

**Codex app-server adapter** (`codex/app-server-adapter.ts`) for one thread.
State: the turn that owns the thread's notifications, held lines, the
compaction, the watched goal. Operations: start a turn, compact, set, poll and
clear a goal, abort, time out, each line of the child. Hard: a line may name a
turn whose id the adapter does not know yet; the notice that a goal ended may be
missed; a goal makes the engine start turns of its own. Correct means: a turn
the engine ends is settled, with its own result; an aborted turn does not go on
writing; a watch returns. That the result is its own is stated of the compaction
only (`CompactionKeptApart`): a turn given up and the next turn of the thread
may be taken for each other, since the adapter adopts an unknown id.

**Claude stream adapter** (`codex/claude-stream-adapter.ts`) for one
conversation. State: the CLI processes, the turn in flight, tracked background
tasks, the one review slot with its queue, waiters and timers. Operations: send
a request, each line of the CLI, `/stop`, change of settings, the timers and
the idle sweep. Hard: lines name neither turn nor task; reviews come on their
own, or never. Correct means: an answer is that of its own turn, a review is
shown under its task and once, nobody waits without a timer.

### Not modelled

| component | why |
| --- | --- |
| agent bus (`bus/*`) | timeouts and budgets of delegations between instances; next in the plan. The deadlock of nested turns is in `ChatQueue` |
| approvals (`telegram/approval-*.ts`) | a pending request answered once or timed out; next in the plan |
| file workflow (`runtime/file-workflow.ts`) | upload records and their continuation; in the plan |
| JSON stores, access, usage (`state/json-store.ts` and its users) | read-modify-write under the file mutex, which is modelled; what the records say is validation |
| Kimi, DeepSeek and the other adapters (`codex/*`) | protocols of external programs; the ACP client of Kimi is a candidate, as it shares the correlation hazards of the two adapters that are modelled |
| board service, cron helper server | projections, authorisation and HTTP over stores that are modelled |
| Telegram turns and delivery | formatting and sending; no ledger. Their place in the queue is in `UpdateIntake`, their stale-session retry in `SessionBinding` |
| background processes | a registry of process groups |
| CLI and web console | parsing and HTTP over the same stores |
| audit, timeline, log rotation, archives, Lark meetings | no decision depends on them, or file copying, or experimental |

Partly modelled components and what is left out of each are listed in
`PROJECT.json` and in section 2.

### Interactions

The message handler and the service put turns into the chat queue; a turn
records and settles rows of the ledger; the boot order (lock, breaker,
connect, sweep) joins ledger, breaker and channel; the cron scheduler runs its
jobs as engine turns through an executor; `/board run` starts a board run,
executes a turn and settles the run in a second transaction. A turn takes the
lock of its conversation, that of its thread and a lease before it calls its
adapter, which is why an adapter sees the requests of one conversation one at a
time. The JSON stores several processes write (ledger, cron, sessions and
others) take the file mutex around their read-modify-write; the breaker's
record is written by the holder of the instance lock alone, and the board uses
SQLite's write transaction. That is why a ledger, cron or session mutation is
one action here, and why the mutex has a model of its own. The composition of
mutex and instance lock is modelled step by step.

## 2. Modules

| module | models | run by |
| --- | --- | --- |
| `TaskLife` | what the board promises of tasks and runs (abstract) | as `IsTaskLife` in `MCBoard` |
| `Board` | the board store and the `/board run` worker | `MCBoard` |
| `BoardProofs` | theorems about `Board`, in three parts | tlapm |
| `TelegramProofs` | theorems about `ChatQueue` and `UpdateIntake` | tlapm |
| `ServiceProofs` | theorems about `DeliveryLedger`, and about `FileMutex` and `InstanceLock` | tlapm |
| `CronProofs`, `SessionBindingProofs`, `AppServerProofs`, `LarkRunsProofs`, `ClaudeWorkerProofs` | theorems about `CronScheduler`, `SessionBinding`, `AppServer`, `LarkRuns` and `ClaudeWorker` | tlapm |
| `DeliveryLedger` | ledger, Lark turn, recovery, boot and breaker | `MCDeliveryLedger` |
| `FileMutex` | the lock directory at the grain of file operations | as part of `InstanceLock`; itself |
| `InstanceLock` | the lock file, over the steps of `FileMutex` | `MCInstanceLock` |
| `CronScheduler` | cron store, timers, runs, commands | the cfg gives it |
| `ChatQueue` | the queue and nested bridge turns | `MCChatQueue` |
| `UpdateIntake` | polls, batches, watermark | `MCUpdateIntake` |
| `SessionBinding` | records, locks, leases, commands | `MCSessionBinding` |
| `LarkRuns` | messages, slot and cards of one Lark conversation | `MCLarkRuns` |
| `AppServer` | turns, compaction and goal on one Codex thread | `MCAppServer` |
| `ClaudeWorker` | turns, background tasks and reviews of one conversation | `MCClaudeWorker` |

The `MC` modules only declare model values and the sets of inputs of an
instance. Each operation is an action named after its method; `map` in
`PROJECT.json` gives the lines. Operators such as `BlockLeavingRun` or
`TimeOutAndForget` that no action uses are variants of the operation next to
them with a plausible mistake; replacing the operation by its variant breaks the
property that is there for it.

In the modules of one JavaScript process an action runs from the return of one
await to the next await: between them no other code runs.

### Board

`status`, `assignee`, `deps`, `schedule`, `gate`, `retries`, `archivedFrom` are
columns of the task table, `runs` the run history by run id, `claim` and
`lapsed` the claims and whether the lease has passed, `failures` and
`circuitOpen` the board's settings, `workers` the in-memory executions of
`/board run`. One mutation is one action because `enqueueWrite` runs it in one
SQLite write transaction, also between processes. What one transaction does
beside its own purpose is inside the action: `dispatchNext` promotes due tasks
and recovers lapsed claims first (`StatusBeforeSelection`), completing a task
promotes its dependents (`PromoteDependents`), starting, blocking, archiving or
deleting closes the active run and drops the claim.

Clock values are reduced to the questions the code asks: is the schedule due,
has the lease lapsed, has the run been silent too long, is the circuit's
cool-down over. These change by environment actions at any time. The choice
among several selectable tasks is left open where the code sorts by priority
and age. A bridge restart empties `workers` and nothing else.

Nothing in `src/` calls the dispatch or recovery operations by itself (they are
reached by tools, by the service facade and by tests), so `Board` assumes no
fairness and claims no liveness: a task whose worker died stays running until
someone recovers it.

Left out: comments, attachments, templates, events, dispatcher policy,
`expectedRevision` and idempotency keys (they only refuse calls or answer
repeated ones), and boards other than "main". With several boards the limits
need care: `startTask` and `startClaimedTask` apply the main board's limits to a
task of any board (default parameter of `enforceWipLimits`, line 4621).

### DeliveryLedger

A row is a ledger record; `Turn` is what a Lark turn does from the engine's
answer to the settled row, `Redelivery` what the recovery does with a claimed
row, `Boot`, `Crash`, `FatalExit` and `CleanStop` are the endings and beginnings
of the process with the breaker's bookkeeping. Every ledger mutation takes the
file mutex, so it is one action; a send is a step between two mutations and may
fail, be lost or be taken by the platform and not acknowledged. `Faulty` names
the answers whose ledger writes may fail. History variables say what the user
saw: whether the text is there, how often it was sent again, and whether a copy
came without the marker.

Not modelled: pruning to 200 rows, rows of a process whose pid was given to
another one. A row of a live turn older than one second is swept like an
orphan's (`delivery-obligation-store.ts:252-257`); the model has that, and
`FirstRedeliveryHonest` leaves such rows out.

### FileMutex

One action per file operation: the path is looked up again at each, so a
rename takes whatever directory is there by then. Reading `owner.json` together
with the directory's age is one step, and so is a recursive remove. In one
process callers queue in memory, so a process is one contender. Two
assumptions: no directory passes `staleLockMs` while a living process stands
between mkdir and writeFile, and no critical section lasts twenty times
`staleLockMs`; the code's constants (seconds and minutes against milliseconds)
are chosen so.

Bound on what is shown and proved: **two** processes. With three and the lock of a dead
process left over, exclusion fails even though every directory has a token: one
waiter renames a live lock away, a third makes a directory before it is
restored, and the restore is dropped. The code's comment claims restoration,
not exclusion, in that window, so this is recorded as a hazard and not as a
disagreement. The mutex is checked as part of `InstanceLock`; alone it is
checked by `mutex_pair.cfg`. The directory is the variable `mutex`: the ledger has a `lock`
of its own, and `ServiceProofs` is about both.

### InstanceLock

Extends `FileMutex` and takes its steps one by one. `file` is the lock file
`[by, whole]`: who wrote it, and whether its content is there yet, as
`writeFile` with `wx` creates and then fills; the fill follows the file even
when the path is gone. `stage` is a process's place between `Start` and
`Unlink`. A start that fails to create asks for the mutex and reads, removes
and recreates inside. History says where the code cannot do better: `misread`
that a start judged a file not filled yet, or one that had been released by the
time it read, `gap` that another start created its file between a recovery's
removal and its own create, `anonymous` (of `FileMutex`) that a directory
without `owner.json` was discarded, `unnoticed` that the last service died with
its lock and no start has reported it. The health file and the pid check's details are left out: a pid is
alive exactly while its process is, so a lock file found at the start is that of
a process that died before (`InstanceAssumption`).

### CronScheduler

A run is a record in a lane of its job and moves through the awaits of
`runJob`: get, trigger, execute, record, disable, notify, retire. Two lanes let
the bookkeeping of one run overlap the next run. A refresh reads the store in
one step and applies what it read in a later one; refreshes apply in the order
in which they read. `phase` is the position of now relative to a one-shot's
target, or `never` for a one-shot of the file whose `targetAt` is missing or no
date, which the scheduler passes over. Failing reads (`ReadFails`, `GetFails`)
and writes, stops and crashes are mishaps with a common bound; `overlooked`
records the jobs a failing refresh did not see, until a later one reads the
store, and `unsaved` those whose last run did not finish its bookkeeping or, of
a one-shot, could not read its job.

One job per instance: jobs share only the limit on enabled jobs and the
refresh, and `ChangeMode` stands for the command of another job that refreshes.
Disabling and unscheduling are one step, as they run without an await between
them. The path of an invalid cron expression (lines 130-138) is not modelled:
the commands refuse one.

Choices of the code the model keeps: `toggleEnabled` keeps `failureCount`; a
crash between recording and disabling leaves a job enabled over its limit; a
one-shot re-armed by its user during its own run is disabled at the end of that
run; `stop()` does not wait for bookkeeping.

### ChatQueue

`previous` is the task a task is chained behind, `queues` the end of a
conversation's chain, the generations and the cancelled ids decide at the start
of a task whether it is skipped. Start, settle and cleanup are steps of their own because they
are callbacks. A turn may call `runQueuedBridgeTurn` for another conversation,
which refuses a busy one, or for several at once as a crew does. The Lark path
(`lark/bus.ts:195`, `:323`) has no such guard: `RefusesBusy = FALSE`.

### TaskLife

The promise of the board without claims, leases, limits, schedules and
dependencies: a task has a phase (absent, open, running, review, done,
deleted), a run is opened once, for an open task, and closed once with an
outcome that goes with what becomes of the task; done is left only by deletion.
`Board` maps to it by `phase` (the five statuses of open work are one phase; an
archived task is in the phase it was archived from) and by the task and
outcome of its runs. TLC checks `IsTaskLife` in `board_lifecycle`, and
in `board_archive` with archives and restores; `BoardProofs` proves it.

### UpdateIntake

`proc[p]` is one call of the batch processor and its await, `turn` what became
of the turns it enqueued. The loop polls again while batches are in work;
`Processors` bounds how many go side by side, and the numbers of updates their
order. What awaits an update's way has is its kind: a message, a photo of an
album, a button, an approval, `/stop`, a group message, one not addressed to
the bot. `MarkCompleted`, `FlushCompleted` and `WriteHandled` are
`markUpdateCompleted` with its catching up of ids completed out of order.
`writes` is the chain of promises in `runtime-state.ts:121-131`
(`enqueueWrite`): however many batches have asked for a write of the watermark,
the writes happen in the order in which they were asked for. What is left of a
batch is a set, gone through by `Place`: an update's number, or for an album
the place of its first photo. A `Shutdown` refuses turns that have not begun.

Any access to a file may fail. `Caught` is the two catches of
`processTelegramUpdates` (`service.ts:1885`, `:1911`): an update whose handling
or mark failed is marked all the same, once more, and in a shutdown it is left
unmarked and forgotten. They answer for a configuration, an approval or a `/stop`
that cannot be handled (`HandlingFails`), a turn that cannot be recorded as
started or as ended (`TurnFails`) and a failing mark (`MarkFails`); an error at
the second mark, or at the first read, ends the batch (`BatchFails`), whose
turns go on with nobody to mark them. The `finally` of a `/stop` (`:1812`) takes
it out of the enqueued updates before its error is caught. History: `begun` and
`twice` (handled by this process, and more than once), `settled` (handled to the
end, by any), `refused` (by a shutdown), `givenUp` (failed before they were
handled), `slipped` (a `/stop` forgotten before it was marked).

Left out: that a corrupt state file is set aside and the watermark starts again
at nothing (`runtime-state.ts:40-57`), and the entry of `activeTasks` that stays
behind when `markTurnStarted` throws (`service.ts:1848`), which only gives a
later `/stop` a turn to abort that is over.

### SessionBinding

`records` is the session store, `conversationLock` and `sessionLock` are lock
files, `leases` the pool's file. A turn (`pc`) resolves its thread under the
conversation's lock, takes the thread's lock and a lease, opens the thread,
and binds what it was answered on; a thread the engine no longer knows is
dropped and the turn retried once. `Aside` are turns of scheduled jobs, which
do not pass the queue. `/resume`, `/detach` and `/reset` are commands of the
queue; `touched` marks the turns beside which a command ran. Two processes
(bots) share leases and threads, not conversations. A lease not renewed for
`staleLeaseMs` is dropped by whoever reads the file. `LeaseLapses` does so with
a lease left behind; `RenewalsFail` with that of a turn in work, whose renewals
failed one after another (the errors are swallowed) or whose host slept. Nothing
puts that lease back, so another turn is admitted in its place: `unrenewed`
names those turns, and `PoolRespected` does not count them. Counting them it
fails in `sessions.cfg`, against the comment at `turn-pool.ts:60`.

Left out: engine switches, workspaces, priorities among waiters.

### LarkRuns

One conversation. A message is parked in the burst, steered into the running
turn, merged, queued or, in preempt mode, put in front after the running turn
was aborted; `pc` is its place, `carrier` the message that carries a merged
one. `slot` is the entry of the conversation in the map of active runs,
`attached` and `host` what a pursuit beside an ordinary turn keeps of the
other. `waitCard` is the card that says a message waits; it moves through
sending, shown and settled beside the queue. The queue is that of `ChatQueue`, reduced
to its order and the ids it skips. Commands other than `/stop`, `/q` and
`/goal` are left out, as are access, rendering and files.

### AppServer

`requests` and `lines` are the two directions of the child's pipe, in order.
`owner` is the turn that the thread's notifications go to, `tid` the id it has
learned, `held` what came before the answer to `turn/start` and is replayed.
A compaction runs before a turn when the context is full; a pursuit sets a
goal, under which the engine starts turns of its own. The engine
(`Serve`, `Finish`, `GoalEnds`, ...) is external: it may run turns of a thread
side by side, miss the notice that a goal ended, fail a compaction, die. `Abort`
is the caller's, or a timer's, at any moment. A turn that completed without a
text is read from the thread (`reading`). `Drop` is `failPendingTurn`, for a
server request the adapter does not know (`Unsupported`, at any moment) and for
a line too many to hold (`Overflow`, at any line held: most lines are not in the
model). It rejects and evicts the turn and does not interrupt it, neither then
nor when its `turn/start` is answered, so the engine turn keeps the writer until
it ends by itself. `NoLeakedWriter` is of the turns that were aborted or
refused, not of those.

The adapter retries by itself in two places: a turn refused because its own
child holds the writer (`app-server-adapter.ts:771-791`), and a resume that
timed out (`:2361-2378`). Both destroy the child (or wait until it is idle) and
run the call again in the next one, once. In the model that is a refused or
failed attempt, `ChildDies`, and the attempt with the next number; that the
caller sees the second outcome only is left out.

No completion is lost in the model: in the code a turn whose completion is lost
ends by its own timers, which are `Abort`. Nor does `thread/read` fail.

Left out besides: approvals, dynamic tools, steering, several threads, idle
shutdown.

### ClaudeWorker

`cli[w]` is the process: what it is doing (idle, a turn, a review), the prompts
in its stdin and the tasks it runs; `worker[w]` the adapter's record of it
(`child`, tracked and collected tasks, the pending turn, the review slot `notice` with its
queue, whether a review is active). A line is emitted and handled in one action,
because nothing of the adapter's state changes between the two; prompts wait
in stdin. Requests (`at`) come one at a time, as the bridge's locks see to it;
one that must wait for a review waits on a line or on a timer (`grace`).
Several waiters woken by one line are the batch of one action. Killed processes
go on emitting until they close. History: `told` is what the user saw of each
task and in which order, `reply` whose result answered a request, `muddled`
that the slot and the review in work fell apart: the late notice of a collected
task took it (`claude-stream-adapter.ts:1159-1168`), hours of silence dropped
it, or the init of a turn claimed it.

That init is a line of its own kind, as it names nobody. `ReadPrompt` and
`Reinit` (a turn may initialise its session again) run the adapter's handler
for it: with no turn pending and a notice in the slot it counts as the start of
that review (`:1281-1287`). So it does for a turn that was settled early by its
task, given the result of the turn before, or whose process was stopped; its
result is then shown as the review, and the review itself once more.

Left out: approvals, texts, instruction files, several sessions, and tasks of
older CLIs, whose lines name no tool call: `:1112-1155` tracks them without a
turn, and `:1169-1190` lets the notice of an untracked one take the slot.

## 3. Runs

Bounds: an action whose guard has a bound (`MaxRuns`, `MaxLeases`,
`MaxAcquisitions`, `MaxStarts`, `MaxEdits`, `MaxMishaps`, `MaxEvents`, `MaxTroubles`,
`MaxCommands`, `MaxTouches`, `MaxStops`, `MaxClears`) stops there, so the
passing runs do not check deadlock: the system may rest, and nothing but its
environment would wake it. What must not rest is a liveness property, or
`NeverStuck`.

| run | instance | what it shows |
| --- | --- | --- |
| `board_lifecycle` | 2 tasks, 1 agent, 2 runs, 2 leases, 1 retry, threshold 1 | runs, claims, gate and late results agree; the board implements `TaskLife` |
| `board_graph` | 3 tasks planned together with any edges, 1 run, schedules, archives, deletion | dependencies and readiness agree |
| `ledger_recovery` | 1 answer, 4 endings, 2 attempts, breaker at 2 | redelivery complete, bounded, honest the first time; the breaker opens; orphans settle |
| `instance_lock` | 2 processes, 2 starts each, any leftover file and mutex | one service; unclean ends reported; every start ends |
| `cron_jobs` | 1 job, 2 lanes, 2 commands, 2 mishaps | no overlap, enabled means armed, streaks disable, one-shots settle |
| `chat_queue` | 2 conversations, 3 turns, 2 nested turns, 2 stops | serial, exact skipping, no mutual waiting |
| `intake` | six mixtures of kinds, 2 batches side by side; 3 updates and 1 crash, shutdown or failing access, 2 and 2, or 1 and 3 | nothing lost, nothing twice, the watermark catches up |
| `sessions` | 2 processes, 2 conversations, 3 turns (one scheduled), 2 commands, 1 mishap | bindings current, pool bounded but for turns that lost their lease, turns end |
| `app_server` | 2 turns, 1 compaction, 1 pursuit with a turn of its own, 1 abort, drop, stop or death | turns and watches end, no aborted turn is left writing |
| `lark_runs` | 3 messages of six kinds, 2 modes, 1 stop or tap, 1 wait card | stops reach, bursts first, nobody stuck |
| `claude_worker` | 2 requests, 2 tasks, 2 processes, both styles | answers and reviews reach whom they belong to; nobody waits without a timer |
| `claude_grace` | the same | *violated*: a task is given up while the turn that started it is in flight |

Why these bounds are enough to meet the cases. Two runs of a task is the least
that lets a late result meet a newer run, two leases the least that lets an old
token meet a new claim; a threshold of one opens the circuit, and a success
closes it. Three tasks give every shape of dependency on which the code acts
(chain, fork, join) and the shortest cycle that is not a pair. Two attempts and
four endings let a row be swept, redelivered, swept again and abandoned, and
let the breaker open. Two starts of two processes let a service die, be
recovered, be released and be started again beside another recovery. Two
commands meet one run as toggle off and on, add and remove, or run and refresh.
Two conversations are what mutual waiting needs. Three updates let the middle
one end last, and two batches fetch the same update twice. Two turns of one
conversation and one of another meet on a thread that was resumed, with one
lease between them. Two turns on one thread let the late lines of the first
meet the second, with a compaction before it and a goal's turn beside it. Three
messages let one run, one wait and one act on both. Two tasks let the review of
one run while the other ends, is collected or waits in the queue; two processes
let a killed one live on beside its successor. Where an exemption or an
interleaving needs more, the property says so.

Symmetry is used where constants do not tell values apart and the run has no
liveness property: tasks in the two board runs, requests and tasks in
`claude_worker`.

Properties of the passing runs:

- `RunningIffActiveRun`: status and run agree after every operation;
  `LateResultTouchesOnlyItsRun`: a worker's late result changes nothing but its
  own run; `IsTaskLife`: the end of a run is final, agrees with its task, and
  done is final.
- `ReadyDepsWereDone`, `DependenciesAcyclic`: what `dispatchNext` relies on
  without looking again. Readiness speaks of dependencies that were done, as a
  done one may have been archived since.
- `ReviewGateHolds`, `WipRespected`. The assignee limit is not in the latter:
  reassigning an unclaimed running task exceeds it, which the code does not
  forbid. The global limit of the run is 1, so that the limit per conversation
  never binds there; that half is covered by the proof (`LimitsHold`) alone.
- `DeliveredWasComplete`, `RedeliveryBounded`, `FirstRedeliveryHonest`,
  `RecoveryLoopBroken`, `OrphanSettles` for the ledger.
- `SingleService`, `ReportsUncleanEnd`, `EveryStartEnds` for the instance lock,
  up to the exemptions above.
- `NoOverlap`, `EnabledIsArmed`, `StreakDisables`, `OneShotSettles`.
  `EnabledIsArmed` has the exceptions that the code has: a write that failed
  to disable the job; a one-shot whose timer fired when `store.get` threw
  (caught at `cron-scheduler.ts:330`); a re-enabled one-shot whose timer fired
  and was skipped while a timed-out execution lingered (comment at
  `cron-scheduler.ts:509`); a refresh whose `store.list` threw and none since
  (`:104`); and a one-shot without a usable `targetAt` (`:457-465`). The same
  five are excepted in `OneShotSettles`.
- `Serial`, `SkipsExactlyTheDropped`, `EverySettles`.
- `NothingLost` (exempt are updates refused by a shutdown, and updates that
  failed before they were handled, which the code marks as complete),
  `HandledOnce` (for messages, photos and `/stop`, whose ids are enqueued before
  the first await, and until a `/stop` or its mark fails: its id is given up
  before it is marked again), `CatchesUp`.
- `NoStaleThread` (a turn beside which a command ran is exempt),
  `PoolRespected`, `EveryTurnEnds`.
- `NoLeakedWriter` (exempt are the turns `failPendingTurn` dropped),
  `EveryTurnSettles`, `WatchResolves`.
- `StopReaches`, `PursuitSurvives` (boards not tapped), `BurstGoesFirst`,
  `NoStaleWaitCard`, `NeverStuck`. The last one uses `ENABLED`: no work is done
  twice and the environment is bounded, so a message that can always still be
  worked on ends.
- `ReviewReachesItsTask`, `ShownOnce` (both unless `muddled`),
  `AnswerIsItsOwn`, `NobodyWaitsUnarmed`. The run has two requests and two
  tasks. `AnswerIsItsOwn` speaks of answers given before a task's
  result stood in for a turn that had not ended (`"early"`); that happens when
  the CLI is silent in the turn, or has yet to read its prompt because a review
  that was not noticed runs first and starts a task, which
  `claude-stream-adapter.ts:1138` books to the pending turn.

### Further instances

Configurations that are kept beside the runs above, for questions on the same
models; all end within minutes.

| cfg | result |
| --- | --- |
| `mutex_pair` | the mutex alone, 2 processes, 3 acquisitions each: exclusion and recovery of the leftover hold |
| `sessions_detach` | `DetachReturns` holds: `/detach` returns to what the first `/resume` found |
| `app_server_more` | `TypeOK`, `CompactionKeptApart`, `GoalForgotten` hold |
| `board_archive` | `IsTaskLife` holds in the instance of `board_lifecycle` with archives and restores (2.2 million states) |
| `claude_waits` | `TypeOK`, `EveryRequestEnds`, `EveryTaskIsTold` hold for one task |
| `board_ready_due`, `ledger_duplicate`, `mutex_ownerless`, `cron_once`, `instance_race`, `intake_shutdown`, `intake_album`, `sessions_reset`, `goal_replaced`, `lark_stop`, `lark_deadlock`, `claude_stop` | *violated*, see below |

### Where the code and its documents disagree

1. `claude_grace` (a run; listed under "findings"). The comment at
   `claude-stream-adapter.ts:1517-1519` measures a review's start window from
   the end of the turn in flight; the idle sweep (`:2112`) runs it while the
   turn is in flight, gives the review up, and drops it when it comes.
2. `board_ready_due`. A design document says a task becomes ready only when its
   schedule is due; `markReady` and `unblockTask` do not ask.
3. `ledger_duplicate`. The ledger's header promises "never a silent duplicate";
   a redelivery does not mark its row as attempting, so a crash after it is
   followed by another plain copy.
4. `mutex_ownerless`. The comment calls stale removal race-safe; without
   `owner.json` a leftover and a fresh directory compare equal.
5. `instance_race`. The comment at `instance-lock.ts:134-136` says the mutex
   keeps a starter from unlinking another's live lock; a file another start has
   created and not filled counts as repairable and is replaced, and both become
   the service. A clean release
   between the failed create and the read has the same effect, and is then
   reported as a stale recovery.
6. `cron_once`. A document says one-shots are disabled after their first
   attempt; between the end of the execution and the write that disables it,
   the job is idle and enabled and can be started again.
7. `intake_shutdown`. The comment at `service.ts:1993-1995` says that the offset
   is advanced by handled updates only, "to avoid message loss on crash"; a
   shutdown refuses the turn of an
   accepted update and forgets its id, and a later update of the batch whose
   own mark had failed takes the watermark past it. `intake_album`: the photos
   of a group album that is not addressed to the bot, around a private message,
   take the watermark past that message.
8. `sessions_reset`. After `/reset` a turn in work binds the old thread back:
   the command does not take the conversation's lock.
9. `goal_replaced`. "So the watch always resolves": the return of a replaced
   `/goal` clears the goal of its successor (`lark/commands.ts:2622`), whose
   watch then waits for ever.
10. `lark_stop`. "The pursuit survives" a stop while an ordinary turn runs; when
    a board card has taken the slot (`lark/bus.ts:137`, `:224`), it does not.
11. `lark_deadlock`. Two conversations whose turns delegate to each other
    through `lark/bus.ts:195` wait for ever: it queues without asking `isBusy`,
    which the Telegram path asks.
12. `claude_stop`. A process killed by `/stop` registers itself again with its
    next line (`claude-stream-adapter.ts:1101`), and the next request is
    written to it.

## 4. Fairness

- `Board`, `LarkRuns`: none. Nothing in `src/` calls the board's dispatch or
  recovery by itself; for Lark, `NeverStuck` says what can be said without.
- `DeliveryLedger`: weak fairness of `Boot`, `Sweep` and of the recovery's own
  steps. The service is run by a supervisor that restarts it, and after a
  connect the sweep is called unconditionally. No fairness for turns,
  endings or the clock. Endings are bounded, so `OrphanSettles` says: once the
  process stops dying, a row it died with is delivered, failed or abandoned,
  unless the breaker or a lost ledger write skipped the recovery.
- `FileMutex`, `InstanceLock`: weak fairness of each living process's own file
  operations and of the ageing of a lock. A waiter polls with a delay, so it
  takes steps for ever. Starting and stopping a service is nobody's duty. With
  acquisitions bounded, `EveryStartEnds` and `EventuallyAcquired` say that a
  leftover cannot block processes for ever, not that a waiter cannot starve;
  the code, which polls, does not promise that.
- `CronScheduler`: weak fairness of callbacks of the event loop (reading
  and applying a refresh, firing a due timer, each await of a run), of the end
  of an execution (one that times out is aborted), of the exit of a stopped
  service and of the boot. None for commands, timeouts or mishaps.
- `ChatQueue`: weak fairness of start, settle and cleanup of each task: promise
  callbacks are run, and a turn ends or is aborted by its timeout.
- `UpdateIntake`: weak fairness of the poll, of each batch's own steps, of
  turns (they end, or their timeout aborts them), of the exit and the restart.
  None for arrivals, shutdowns, crashes and failing accesses, which are bounded.
- `SessionBinding`: weak fairness of the own steps of each turn in work. A
  waiter for a lock or a lease polls, and may be overtaken; with three turns it
  cannot be for ever. A lease left behind lapses in time. None for commands,
  crashes and renewals that fail.
- `AppServer`: weak fairness of reading lines, of the engine's serving
  requests and ending its turns and goals, and of the watch's polling and
  returning. A turn's own timers owe nothing: its completion comes. None for
  aborts, drops, deaths and starting a turn.
- `ClaudeWorker`: weak fairness of the adapter's callbacks and timers, of the
  sweep that drops what was silent for hours, of the reaping of processes and
  of the end of a killed one. The CLI owes nothing: it may be silent for ever.

## 5. Proofs

Each theorem is of the specification a run checks, for every value of its
constants that satisfies the named assumption of the module: any number of
tasks, conversations, jobs, answers, turns or messages, any limits and any
bound on the mishaps. One hypothesis goes beyond those: the instance lock is
proved for two processes (`Pair`), as with three it fails. Every invariant below was first checked by TLC on a small
instance. TLC evaluates the assumptions (`BoundsAssumption`, `TaskAssumption`,
`InputAssumption`, `QueueAssumption`, `LedgerAssumption`, `MutexAssumption`,
`InstanceAssumption`, `CronAssumption`, `IntakeAssumption`, `BindingAssumption`, `AppServerAssumption`, `LarkRunsAssumption`,
`ClaudeAssumption`, `NoticeAssumption`) in every run of their module. They say
that sets of ids are disjoint from each other, from the null value and from the
marks a history uses beside them (`NoticeAssumption`: that the null value is no
record), that limits are naturals, where something is counted, that a set is
finite, that there is a lane for a run and a process for each request.

### Board

Part 1: `TypeCorrect`, `OneActiveRun` (`Spec => []RunningIffActiveRun`),
`ClaimOfTheRun` (`Spec => []RunBelongsToClaim`), `ClaimsAreLive`
(`Spec => []ClaimOnlyOnLiveTask`). All follow from `Agreement`, that `IndInv`
is always true:

    IndInv == TypeOK /\ RunsMatch /\ ClaimsMatch

None of the properties is inductive alone. That a task has at most one active
run is kept by `StartTask` only because a task that may be started has none,
which is the status's half of `RunsMatch`; that a new run is not somebody
else's needs the part of `TypeOK` that run ids from `nextRun` on are unused.
The claim's properties need that a claimed running task has its run under that
very lease, and that a claim survives only on statuses from which every
operation either keeps or drops it: that is `ClaimsMatch`.

The argument follows the shape of the operations. `StatusStep` covers those
that move tasks between statuses without touching a run, `ClosingStep` those
that close the runs of a set of tasks and take the tasks out of "running",
`StartingStep` those that start one; `InterruptStep`, `FinishStep`,
`RecoveryStep` and `StartStep` put them to work on the operators the actions
are built from. One lemma per group of `Next` (`PlanStep`, `ShapeStep`,
`ClaimStep`, ...) then has a step per action, and `NextIndInv` combines them.

Part 2: `Refinement` (`Spec => IsTaskLife`), by step simulation under
`IndInv` and `SilentTasksRun`, that only running tasks are silent. An operation
closes "the" active run of a task where `TaskLife` closes all its running ones;
`IndInv` makes these the same. Every operation is then one of four steps: it
leaves the phases alone (`NoLifeStep`), moves tasks that do not run
(`MoveStep`), closes the runs of the tasks it takes out of running
(`LeaveStep`), or opens a run as well.

Part 3: from `SoundGraph`, the inductive invariant `GraphInv`
(edges lie between existing tasks and admit no cycle, and ready tasks depend on
nothing that was never done), follow `NoCycle`, `NoDanglingDependency` and
`ReadyIsReady`; `GateHolds`, `LimitsHold` and `LateResultsAreHarmless` are
proved beside it. All but four operations leave the graph alone; `Conduct` says
what those may do to readiness, to done tasks and to the number of running
ones, and plans, links and deletion are looked at one by one. Acyclicity
is stated without paths: every non-empty set of tasks has a member that depends
on none of the set. That needs no induction: fewer edges keep it, and a new
plan or link is checked against its own violation.

### ChatQueue

`SerialAlways` (`Spec => []Serial`) and `ExactSkips`
(`Spec => []SkipsExactlyTheDropped`). The queue is a promise per conversation,
and the code never looks at more than its last one. The invariant `ChainInv`
says what the promises amount to: the tasks of a conversation form one chain
(`Chained`, `Founded`), `queues[c]` is its end and is waiting or running while
any of the chain is (`Ends`), and only one task of those that wait or run has
everything before it settled (`OneHead`). So a task that joins a chain whose end
has settled is alone, which is what cleanup relies on. `Founded` is that every
set of tasks has one whose predecessor is outside; it takes the place of an
induction along the chain.

`DropInv` is about the two ways to drop a task, the generation and the ids: no
task is ahead of the generation of its conversation, the pending ids are the
named tasks that wait, and a task that waits is doomed exactly if some stop or
cancel said so. Cleanup may start the generation anew only because of
`ChainInv`: nobody waits then.

### DeliveryLedger

`DeliveredIsComplete`, `PoisonIsBounded`, `FirstCopyIsHonest` and `LoopIsCut`
(`DeliveredWasComplete`, `RedeliveryBounded`, `FirstRedeliveryHonest` and
`RecoveryLoopBroken` at all times), from `LedgerSound`. Answers do not depend on
each other, so the invariant is `Sound(r)` of one of them: there is no row
before the engine finished (`Recorded`), what a turn or a redelivery had
acknowledged is on the platform (`Acknowledged`), each copy was counted when its
row was claimed (`Counting`), and a row says "pending" only until its turn
starts to send (`Honest`, of answers whose writes were not lost and that were
not swept under a working turn). `Counted` ties the breaker's count to the boots
that did recover: it is one behind between a death and the boot that notices.

### FileMutex and InstanceLock

`OneServiceAtATime` (`LockSpec => []SingleService`), `UncleanEndIsReported`
(`LockSpec => ReportsUncleanEnd`) and, of the mutex alone, `TokenExcludes`
(`MutexSpec => []ExclusionByToken`), all under

    Pair == \A p, q, r \in Processes : p = q \/ q = r \/ p = r

and for any number of starts and acquisitions. Without `Pair` they are false:
see FileMutex in section 3. `LockIsTyped` (`LockSpec => []LockTypeOK`) needs no
`Pair`.

The two come from `LockIsSound`, that `LockInv` is always true. It has four
layers, each resting on those before it.

1. `MutexInv`, for the mutex. A token that occurs in a directory, or in what
   somebody judged, belongs to no acquisition that is still to be written
   (`Fresh`). So what one process judged stale is not the directory of the
   other at work (`Kept`); if that one was renamed away by mistake, the path
   stays free until it is put back or its owner is gone (`Away`, `Renaming`);
   and a directory made and not yet signed is at the path, or in the other's
   hand to be restored (`Writing`). This is said of two living processes as
   long as no directory without an owner was discarded. Once one has died, the
   other is alone and there is nothing to say.
2. `Orderly`: which steps of the mutex a start's own place allows.
3. `Filed`: who has begun to create the file, or is the service, has it; the
   file of a living process is that of one of these; and what a start is about
   to remove is a dead process's. The last needs the mutex (between the reading
   and the removal no other recovery may put its own file there) and breaks
   with `misread`. Two services would both be the writer of one file.
4. `Noticed`: `unnoticed` is true exactly when the file of a dead process lies
   there, or a recovery has removed it and is not done, dead or alive. Whoever
   becomes the service has the file, so the first is not the case, and the
   second only if it is that recovery: which is what it reports. A start that
   creates its file inside a gap breaks this (`gap`).

### CronScheduler

`NoOverlapEver` (`Spec => []NoOverlap`) by `Held`: a run holds its job from its
start to the end of its execution, timed out or not, `activeJobIds` covers the
jobs that are held, and a job is held by one run. The property alone is not
inductive, since a timed-out execution lingers while its run does the
bookkeeping and may be over before the run is.

`StreaksEnd` (`Spec => []StreakDisables`) needs more: that a job at its limit is
disabled, or some run is on its way to disable it (`Caught`), that who is known
to a run, a timer or a list was once added (`Known`), and that only one-shots
reach the bookkeeping of missed ones (`MissedOnes`), which writes another state.

`EnabledArmed` (`Spec => []EnabledIsArmed`) by `ArmedInv`: while no refresh is
under way, an enabled job has its timer, or was overlooked, or is a one-shot that was
skipped, has no `targetAt`, is unsaved or has a run that will settle it (`Alive`); while lists are still to be
applied and none is still to be read, the last of them holds every enabled job,
so it does not matter in which order the earlier ones were read; and only
one-shots are retired (`Retires`), so that a recurring job's timer is never
cleared without the job being disabled. The property alone says nothing of jobs
that have a run, or of a service with a refresh under way, and is not inductive.

### UpdateIntake

`UpdatesAreKept` (`IntakeSpec => []NothingLost`), `UpdatesBeginOnce`
(`IntakeSpec => []HandledOnce`) and `UpdatesAreTyped`, from `IntakeInvariant`,
that `IntakeInv` is always true. `NothingLost` exempts the updates that a
shutdown kept from their turn (`refused`) and those that failed before they
were handled (`givenUp`): the code marks the latter as if they were complete,
so the watermark passes them. `HandledOnce` is claimed as long as no `/stop` has
`slipped`. Their hypothesis is `Albumless`: no sequence
of `Kinds` has two photos, so that no album is merged. With an album
`NothingLost` is not true in general, as `intake_album` shows, and which albums
it is true of depends on what stands between the photos. Any number of updates
of all eight kinds in any order, of batches side by side, of crashes, shutdowns
and failing accesses to files is left.

Neither property is inductive: that the watermark may pass to the smallest
flushable update follows from what was known of every update before it when the
batch took it up, in whichever poll and process of theirs. An update is
`Accounted` for if it is behind the watermark, at work or complete in this
process, or, in a shutdown or once a `/stop` has slipped, among those for which
nothing more is done (`Over`). `InOrder` says that whatever
comes before an update of a batch is accounted for or in the batch before it,
and `Behind` the same of the updates at work; `AtWork` is what each await of a
batch knows (that the update it marks was handled or given up and is the first
it has left, that everything up to the watermark it is about to write was
handled, refused or given up); `Passed` is the property and that neither the poll nor Telegram is
ahead of the watermark. A shutdown may leave updates out, and the service that
is started next fetches them again, if the watermark has not passed them.

`UpdatesBeginOnce` needs more: `Once`, that whatever has begun is still
accounted for, and for that `InLine`. A completed update is dropped from
`completedOutOfOrderUpdateIds` by whichever batch has written the watermark past
it, and a batch that runs on then knows it only by its own copy of the
watermark. While the service is up and no `/stop` has slipped (`Orderly`) each
write raises the watermark by one at most, and the writes happen in the order they were asked for, so the copy a
batch has after its write is not behind the watermark. An earlier version of the
model let the writes of several batches happen in any order; there `HandledOnce`
failed, which came out in the attempt at this proof, and the source gave the
order. That the smallest of a set of updates exists (`SmallestOf`) is
`WFMin` of the library, applied to the order of the naturals.

### SessionBinding

`ThreadsAreCurrent` (`Spec => []NoStaleThread`) and `PoolIsShared`
(`Spec => []PoolRespected`), from `BindingSound`. A lock file names a turn, and
whoever is between its lock and its unlock is the one named (`Holding`): locks
are taken over only from turns that are gone. So no other turn of the
conversation is there to rebind it while a turn is on its way to the engine.
For the pool the leases are counted, not the turns (`Bounded`): a turn in the
engine has a lease, or is one of `unrenewed` (`Known`), and a lease is taken only where those alive are
fewer than the taker's own limit. The limits of the processes may differ; the
widest one bounds the leases.

### LarkRuns

`StopsReach`, `BurstsGoFirst`, `CardsAreSettled` and `PursuitsSurvive`
(`StopReaches`, `BurstGoesFirst`, `NoStaleWaitCard`, `PursuitSurvives`), and
`LarkTypes`, from `LarkSound`, that `LarkInv` is always true.

`Intake` says that the burst, the queue and the carriers agree with the step of
each message: they are the same facts kept twice. It is stated over parameters
and not over the variables, because a message that submits a burst changes all
of them twice in one step; `Submitted` is the first half, and `JoinsQueue`,
`JoinsBurst` and `GoesItsWay` are the second. `InFront` strengthens
`BurstGoesFirst` from the start of the later message back to its arrival: an
attachment sent before it is not parked any more, and neither it nor the message
that carries it is behind it in the queue. `Alone` is one task at a time.
`Slots` says who has the run slot: a run that goes on, and the pursuit as long
as one is live, with the ordinary turn attached to it. `Carded` is that only
those who have been queued have a wait card.

### AppServer

`NoWriterLeaks` (`Spec => []NoLeakedWriter`) and `AppTypes`, from `AppSound`,
that `AppInv` is always true. `Led(t)` follows one turn through the mail: its
start is asked once; until the child has read that, no line names the turn and
it does not run; from then on the answer to `turn/start` is unread as long as
the turn runs without the adapter knowing its id; and a turn aborted while it
runs is interrupted, or an interrupt is asked, or that answer is still to come
and the turn is in `cut`. The property alone is not inductive: that an abort
without an id leaves an answer to come needs the whole history of the start.
Of a turn that was dropped it says no more than that it is not asked for again.
The mail is used only through what it has (`Has`) and has once (`Once`), so no
induction over the sequences is needed; `Posted` and `Said` say what a request
or a line more changes, `Fewer` and `Quiet` what one less does. A step is about
one turn (`OneTurnKept`) or none (`NoTurnKept`), and the rest are steady.

### ClaudeWorker

`NoOneWaitsUnarmed` (`Spec => []NobodyWaitsUnarmed`) and `ClaudeTypes`, from
`ClaudeSound`, that `ClaudeInv` is always true. The property alone is not
inductive: a line of another worker could change whom the session leads to, and
a review end on the one that is waited for without anybody being woken. So the
invariant says that one request is in work (`OneRequest`), that the session
leads to the worker it waits for (`Awaiting`), and that a pending turn is that
of the request that was written to that worker (`Pendings`). `Same` and `Grows`
say what the operators on a worker leave alone; a review ends only by a step
that calls `Wake`, and `Woke` says that whoever is not woken waits behind a
review or has a timer.

`AnswersAreOwn`, `ShownOnlyOnce` and `ReviewsReachTasks`
(`Spec => []AnswerIsItsOwn`, `Spec => []ShownOnce`,
`Spec => ReviewReachesItsTask`) relate the adapter's record to what the CLI has
still to say, and need that in the invariant: `ShowsSound` is that `Shows` is
always true beside `ClaudeInv`.

For both it says that a review counts as running only while the CLI runs a turn
(`Attend`), and, unless `muddled`, a turn of a review (`Apart`).

For the answers it says (`OwnTurn`) that the turn the CLI runs, or the one
prompt in its stdin, is the one pending on its worker, and that a tool the turn
has in flight is known to the adapter, which is what keeps the result of a task
from settling the turn. After a turn that was settled early this is no longer
so, and nothing is claimed.

For the tasks it says (`TaskInv`) that what may still be said of a task is open
in one worker alone (`Open`): the one that tracks it, whose CLI runs it or still
owes its review, or is at its review. Of an open task nothing was
told yet but that it was dropped, or its worker keeps it aside as collected and
will not show it; and while the CLI is at a review it announced by an envelope,
the task has the slot (`Reviewing`). A step shows a task only where it was open and is so no longer.
Every step is then a step on one worker, and of each task either none of its
business (`Untouched`), its being set aside (`KeptAside`), or its end (`Over`);
the end of a review is followed through `OverFor` and `ReviewedCalm`. All of
`TaskInv` is conditional on `muddled`, as the properties are: a review that has
lost its slot is taken for another one's, and a turn whose init was misread for
a review.

### What stays with TLC

  - Beyond the prover: liveness under fairness (`OrphanSettles`,
    `EveryStartEnds`, `OneShotSettles`, `EverySettles`, `CatchesUp`,
    `EveryTurnEnds`, `EveryTurnSettles`, `WatchResolves`), and `NeverStuck`,
    which is about `ENABLED`.
  - `NothingLost` and `HandledOnce` for batches with an album. `NothingLost` is
    false of some (`intake_album`); the run shows both for
    `photo, message, photo`.
  - The mutex under more than two processes, where exclusion fails, and under a
    leftover without an owner (`mutex_ownerless`), where it fails for two.
  - What recursive definitions compute (induction over data); none of the
    modules here declares a RECURSIVE operator.

## 6. Plan

Done of the first plan: the abstract life of a task and the refinement; the
proofs about the graph, the gate and the limits; the proofs of the chat queue,
the update intake, the ledger, the instance lock, the scheduler, the session
binding, the app-server, the Lark turns and the Claude worker; instance lock;
turn pool; update intake; session binding; Lark run slots; and two engine
adapters, which were not in it and turned out to be where most of the
interleaving is. What is left:

1. Delegation: bus, mini bus and crew; property: one answer per delegation, a
   late answer is dropped, budgets are kept.
2. Approvals and the file workflow.
3. The ACP client of Kimi, on the pattern of `AppServer`.
4. Several boards (`startTask` and `startClaimedTask` apply the main board's
   limits to a task of any board), idempotency keys and revisions.
