# Verification of Sygen

Sygen (`src/sygen_bot`) runs command-line AI agents behind chat transports. It is one
Python process on one asyncio event loop: messages, buttons, timers, webhooks, background
tasks and workflows all become coroutines that share dictionaries, JSON files and
per-session locks. A piece of code between two `await`s is atomic; everything else
interleaves, the process may die at any point, and the few worker threads interleave with
everything. The specifications here model the parts in which those interleavings decide
whether the program is right.

## The system

| Component | State it keeps | Operations | What is hard | What makes it correct |
|---|---|---|---|---|
| Task hub (`tasks/`) | `TaskRegistry._entries`, `tasks.json`, a folder per task, `_in_flight` | submit, resume, ask the parent, cancel, cancel all, delete, clean up, deliver, shutdown, restart | done-callbacks and cancels that arrive at a run which was resumed meanwhile; crashes between folder and file | one run of a task at a time, truthful statuses, every run reports, nothing removed returns, the limit holds |
| Session locks (`bus/lock_pool.py`) | a dictionary of `asyncio.Lock` | get (with eviction), acquire, release | a lock between release and wake-up looks free; references kept over awaits | one turn per session, in order of arrival |
| Telegram queue (`messenger/telegram/middleware.py`) | pending entries per chat, dedup cache | message, cancel button, `/stop`, drain | the drain awaits inside its loop over a live list | nothing cancelled is answered, nothing twice, everything settles |
| Workflow engine (`workflow/`) | `_runs` and their file, `_definitions`, `_active_tasks` | start, step, retry, fallback, skip, abort, pause, reply, cancel, reload, shutdown, restart | a reload in a thread, cancels that asyncio drops, crash between steps | running runs are driven, waiting ones parked, the file keeps up, a cancelled run starts nothing more |
| Message bus (`bus/`) | transports, injector, hooks | register, submit, inject, deliver | who holds which lock, missing transports, empty prompts | every envelope is delivered or its loss is known |
| Cron (`cron/`) | jobs and their file, `_scheduled`, `_executing`, dependency queues | schedule, run, reload, toggle, wait for a dependency, stop | a reload that cancels a job under way, a cancelled waiter, requests and the watcher that overlap | one task per job and it is the one in the table, a dependency is used by one job, nothing starts after stop |
| Supervisor and inter-agent bus (`multiagent/`) | stacks, tasks, bus, handlers and health by agent | start, stop, restart, crash, back-off, rebuild, reload of `agents.json`, shutdown, send | calls that overlap in their awaits; cancellations that the code they meet swallows | one live run per agent, tables that agree, a stop that stays, a shutdown that ends |
| Chat turns (`orchestrator/flows.py`, `injection.py`, `cli/process_registry.py`, `infra/inflight.py`) | processes, abort and interrupt flags and in-flight record of a chat | turn, recovery, streaming fallback, injection, `/stop`, interrupt, quick command, crash, restart | flags and kills that belong to the chat, turns that belong to a topic | what is silenced was stopped, what is stopped is silenced, and every exception has a cause that can be named; a crash announces what it cut off; turns end |
| Sessions (`session/manager.py`) | `sessions.json`, one lock | resolve, sync, update, reset, provider switch | the whole file is read before an await and written after it, partly without the lock | the file is what the completed operations add up to, and only an unlocked write takes anything back |
| Named sessions (`session/named.py`, `background/`) | registry and `named_sessions.json`, background tasks, recovery | create, follow up, message of a peer, end, end all, abort, deliver, crash, recover | many writers of one status field; results that come late, twice or never | one call in a session at a time, true statuses, a crash finds the work |
| The rest (transports, API server, CLI providers, webhooks, heartbeat, memory, RAG, skills, files, set-up) | mostly none, or files of their own | | I/O, parsing, ranking | tests reach it |

They interact through calls and callbacks. The Telegram queue, the bus, Matrix, webhooks and
the API server take turns with the session locks; a turn registers its CLI process, whose
kill and flags are the chat's, and reads and updates its session; hub, cron, heartbeat, webhooks and inter-agent
bus put envelopes on the message bus, which takes the same locks to inject them into a
conversation; background calls and peers work in named sessions without a lock; the supervisor starts
and stops hub and engine with their agents.

`PROJECT.json` lists every component with its status, each modelled definition with its
source lines, and under `hazards` the places where this code is hard to test.

## Modules

| Module | Models | Kind |
|---|---|---|
| `TaskHub` | `tasks/hub.py`, `registry.py`, `models.py` | state machine |
| `TaskLifecycle` | what a parent agent is promised about a task | abstract specification; `TaskHub!ImplementsLifecycle` |
| `LockPool` | `bus/lock_pool.py` and `asyncio.Lock` under all its users | state machine |
| `TurnQueue` | a line per session, served one by one | abstract specification; `LockPool!ImplementsTurns` |
| `SequentialMiddleware` | `messenger/telegram/middleware.py`, `dedup.py` | extends, and so composes with, `LockPool` |
| `WorkflowEngine` | `workflow/engine.py`, `executor.py`, `registry.py`, `observer.py` | state machine |
| `Supervisor` | `multiagent/supervisor.py`, `health.py`, registration in `bus.py`, `infra/file_watcher.py` | state machine |
| `DependencyQueue` | `cron/dependency_queue.py` | state machine |
| `CronObserver` | `cron/observer.py` on `manager.py`, `execution.py`, `infra/task_runner.py` | extends, and so composes with, `DependencyQueue` |
| `ChatTurn` | `orchestrator/flows.py`, `injection.py`, `core.py` on `cli/process_registry.py`, `service.py`, `executor.py`, `infra/inflight.py` | state machine |
| `Sessions` | `session/manager.py` as turns, `/new` and `/model` use it | state machine |
| `NamedSessions` | `session/named.py`, `background/observer.py`, foreground follow-ups, peers' messages, `infra/recovery.py` | state machine |
| `MC...` | values of the constants for the model checker | |
| `...Proofs` | theorems and their proofs | |

Variables carry the names of the fields they stand for where those are legible; comments give
the method an action stands for. An operator that follows a comment beginning with `Fault:` is a
wrong version of its neighbour, which shows that the properties notice.

### TaskHub

A run is `<<task, n>>`, one asyncio task whose body is `TaskHub._run`; `phase` says at which
`await` it stands. Every other action is one request of the outside (internal API, `/tasks`
commands, maintenance) or one step of shutdown, death and restart of the process.
`entries`, `disk` and `folders` are the registry in memory, in its file and as directories;
`inflight` is the table from which the limit, cancel and shutdown work. A task has a directory (`DirOf`): that of
the main agent (`DefaultDir`), where the orphan clean-up always looks, or that of a sub-agent, where it looks only
while an entry of that directory is left (`registry.py:72`). `asked`, `told` and `news` are history variables
for the properties, and so are the four that name what the code does not take care of: `joined`, the open runs that
were open together with another run of their task (one key of the in-flight table is all they have); `late`, those spawned
when shutdown had begun; `torn`, the tasks whose creation a crash cut short; and `gone`, those whose folder somebody else deleted.
No guard reads them, and the properties that mention them say that nothing else goes wrong.

The code has moments without a guard of its own. `Windows` names those in which the
environment may call: resuming while the previous run is still *delivering* its result,
cancelling then, cancelling before the first step of a body, requests during
shutdown, a task folder that somebody deletes, and crashes. Each run says which are open; the theorems
that need one of them closed have that as a hypothesis, and the others hold with all of them open. With "resume_while_delivering" and
"cancel_while_delivering" open together, `OneRunAtATime` fails: a run cancelled during
delivery writes `cancelled` over the status of the resumed one (`hub.py:465`), and the
next resume starts a third run beside the second.

Abstracted: prompts, TASKMEMORY and question texts; provider and model are resolved or not;
ids are never reused; saves do not fail.

### LockPool and SequentialMiddleware

A user of the pool is an asyncio task; `at` is its place from looking a lock up to holding it,
`ref` the object it holds a reference to, which eviction may have dropped from the pool.
Between a release and the moment the woken waiter resumes, the lock is neither locked nor
free to take; that window is a place of its own ("woken"). A cancelled waiter passes through
"abandoned", or "doomed" when it was already woken. Connections of the API server keep their object
for their lifetime.

`SequentialMiddleware` makes Telegram deliveries users of that pool. It adds the pending list
of a chat with its indicators, redeliveries, the cancel button, and `/stop`, whose drain
is one action per stretch between two awaits, with the index Python's list iterator is at.
The cache may forget an id at any time (`Expire`): 30 seconds are shorter than a turn, so a
redelivery after them is handled again, even while the first delivery waits. `HandledOnce` promises no more than the
cache does: two deliveries that were both admitted in one lifetime of the id are not both handled.
Assumed: the other users of the locks are not cancelled. `OtherKeys` bounds where those take turns.

### WorkflowEngine

A run is driven by one asyncio task. `pc` is "looping" while that task holds the event loop
(nothing else on the loop acts then, see `Free`), and otherwise the `await` at which it stands.
`ReloadClears` and `ReloadFills` are a worker thread and are not bound by `Free`. `runs` and `disk`
are the registry and its file; `active` is the table that limit, cancel and shutdown use;
`cancelling` holds the tasks with a CancelledError on its way, `stranded` (history) the running
runs whose task has ended without a verdict.

`Steps` is any definition: types, strategies, `goto`, branches and fallbacks, dangling ids included.
The agent and the notification are what the engine sees of them: calls that return, raise or
time out. `SwallowsCancel` is `asyncio.wait_for` of Python 3.11 (the version the project
requires at least), which drops a cancellation that finds the answer there already. Abstracted:
variables and their substitution, the texts, the results of substeps in a parallel block,
several definitions, definitions that change under a run, saves that fail.

### Supervisor

`run[a][i]` is the i-th supervised run of an agent, one asyncio task whose body is
`_supervised_run`; a stack goes by the number of its run. `stacks`, `tasks`, `bus`, `handler` and
`health` are the tables that four methods fill and empty at different awaits. Everything else that
acts is a caller with a plan: the watcher of `agents.json`, the `/agent_*` commands and the shutdown.
A plan is a set of ranked items (stop, start, check, sync); between two items with no await nothing else
runs (`Between`). Cancellation is modelled as asyncio delivers it: a `suppress(CancelledError)` that awaits a run
swallows the cancellation of the awaiting task, and so may the shutdown of a bot.

`Concurrent = FALSE` claims the properties for one caller at a time, besides shutdown, which may come at any
moment. With `Concurrent = TRUE` they fail: see *What does not hold*.

### DependencyQueue and CronObserver

A user of the dependency queue is one asyncio task; the lock is again an `asyncio.Lock` with its window between
release and wake-up. `queue` and `active` are the bookkeeping beside it. In `CronObserver` that
task is `_run_at`: asleep, queued, with its CLI process, killed, or at its last await. `mem` and `disk` are the
jobs in the manager and in the file, `planner` the two coroutines that reschedule everything, `gathered` the tasks
they have cancelled and await. When a job is due and how its CLI ends is left open. Several users may
carry one job id, since a reload cancels a task while its successor is already in the table.
A job may carry an invalid cron expression ("bad", and "badoff" when it is disabled too): `_schedule_job` then takes
its task away and creates none (`observer.py:238`; `tests/cron/test_observer.py:149` expects that), so `ScheduleTrue` says that of
the enabled jobs *exactly* those with a valid expression have a task. An expression that was valid when a task was made still is when that task ends.

### ChatTurn

One chat with several topics; a turn (a user's message or an injected prompt) prepares, launches, runs and judges its CLI call;
`proc` is its process, `registry` what `ProcessRegistry` lists, `kills` the `kill_all`s that sit in
their grace period. The flags, the kill set and the in-flight record belong to the chat and not to the turn,
which is what the properties are about. Nothing is excluded: a `/stop`, an interrupt, a quick command, a message of another topic, an
exception (answered with an internal error whatever the flags say, `core.py:333`) and a crash may come at any moment. A start
after a crash announces the record, unless the chat is a group or the record is too old (`inflight.py:83`).

Two histories say what has happened, and no guard reads them. `mark` is what the flags owe a message: "stopped" when a `/stop` or an interrupt
met it, "cleared" when somebody took the flags down again after that, "struck" when a flag went up, or was up, for another turn's
sake. `SilenceExplained` is a biconditional up to these: a message that is still "stopped" at its end gets no answer (an internal error at
most), and a message that got none has a mark. `unrecorded` holds the messages whose in-flight record another message overwrote or removed.

Abstracted: what the CLI says, recovery turns of `/recover` and the age of records (a restart is in time or too late), the text of the announcement.

### Sessions

`sessions.json` is read and written as a whole. `buf[a]` is what an operation has read and changed
and not yet written; `snap[u]` is the `SessionData` object a turn holds on to over its CLI call. The lock (`lock`) is taken by
`update_session` and `sync_session_target` only; turns of a topic exclude each other, `/model` and a `/new @topic` from elsewhere exclude
nobody. A turn resolves, syncs, calls and updates, and may recover once in between, which resets the session of the provider the
message asks for or of the configured model (`default`, which `/model` changes outside topics), whatever provider the session has. An
injected prompt takes the session as it finds it, calls and updates, and is recorded even when its call fails (`injection.py:63`).

Every operation may overlap every other one. Three histories, read by no guard, say what comes of it: `meant` is what the completed
operations of each session add up to, ids, counts and active provider; `missed[a]` the sessions that were written since `a` read them with no lock
between the two, including the own session of a turn when a command changes it during the call; `disturbed` the sessions that somebody has
written after missing a write to them. `FileTrue` says that every other session is as `meant` says; a session that is replaced (stale) is true again.
`OthersKept` says that a save changes another session only if it is in `missed`, so two locked operations never undo each other.

Abstracted: the model of a session beside its provider (a write of the same provider stands for it), costs and time stamps, the topic's name,
the heartbeat's sync of the model alone (`flows.py:816`), the `kill_all` of `/model` (calls may fail at any time here).

### NamedSessions

A call is a background task, a foreground follow-up or a message of a peer agent. `at` is its stage, `job` what it
is about, whether it resumes a conversation, whether the object it holds is still the registry's
(`current`) and whether a cancellation is on its way. The statuses of a session are written by `create`, `mark_running`,
`update_after_response`, `end_session`, `end_all`, by the flows and `handle_interagent_message` directly on the object
(`SetStatus`, without saving) and by `_load`. "lost" is a call that ended without anybody writing the
status: refused by the limit, cut off by a timeout, cancelled before its first step, or
delivered where no transport updates the registry. `OneCall` is the point of the status, and nothing enforces it but the status check of a
follow-up (`core.py:578`, `flows.py:674`): a message of a peer looks at no status, a new session may take the name of one whose call still works, and a
result that is delivered under another call sets the status to idle. `loose` (history, read by no guard) holds the sessions in which one of these has
happened while a call was at work, until none is; the properties say that in all others one call works at a time, that
none of them reads idle or ended-and-gone over a call at work, and that a crash finds what is under way.

Abstracted: prompts (compared, not read; the file keeps the first 4000 characters of one, `named.py:313`, so that a longer one is executed again cut short),
the labels of processes, names (a given set, the peer's is deterministic).

## Runs

| Run | Instance | Shows |
|---|---|---|
| `taskhub_resume` | 1 task, 3 runs; early resumes, requests during shutdown, crashes; fair (101,000 states) | one run at a time; statuses true; the in-flight table and the shutdown miss the runs named above and no other; tasks settle; the hub implements `TaskLifecycle` |
| `taskhub_cancel` | 2 tasks of one chat, one in the directory of a sub-agent, limit 1, one parent unreachable; early and late cancels, vanishing folders, crashes (148,000) | the limit, the parent's knowledge, folders and entries match, removal for good |
| `lockpool` | 2 users, one a connection, 3 sessions, room for 2 (15,000) | eviction never takes a held lock |
| `sequential` | a message delivered twice, the cache forgets it once, another user, two `/stop`; fair (187,000) | cancelled stays cancelled, exclusion, once per lifetime in the cache, the drain misses few, order of arrival (`TurnQueue`), messages settle |
| `workflow` | 2 runs in one chat, limit 1, a definition with every strategy, a loop back to its question and a dangling branch; fair (211,000) | all properties of the engine |
| `supervisor` | the main agent and one sub-agent, two runs of each, two edits of `agents.json`, commands, shutdown; fair (396,000) | one live run, tables agree, no resurrection, shutdown ends |
| `cron` | 2 jobs with one dependency, three tasks, one toggle or write, reschedules, stop; fair (177,000) | one holder per dependency, no orphan, of the enabled jobs exactly the valid ones have a task, waiters move, nothing after stop |
| `cron_v_executing` | the same | finding 1 |
| `chatturn` | a message and an injected prompt of one topic, a message of another; one `/stop`, interrupt, quick command, exception or crash; fair (449,000) | every silence and every answer after a stop explained, crash announced, turns end |
| `chatturn_v_stop` | one message, `/stop` and one event more | finding 2 |
| `sessions` | a message, a `/new` and a `/model` in the main session, an injected prompt and a `/new` in a topic, 2 providers (1,815,000) | the file is true but for disturbed sessions, other sessions are kept |
| `named` | a user session and a peer's, 2 calls, 2 prompts, one background task at a time, crashes (665,000) | one call per session, statuses true, a crash finds the work |

**Why these bounds.** What can go wrong in the hub goes wrong between one run and the next of the
same task (two runs, three to see what a wrong status costs) or between two tasks of one chat that
compete for one place. Locks need a holder, a woken waiter and a newcomer, and a fourth user to
see order; eviction needs one session more than places. In the drain, an entry leaves, one is
skipped, one is reached: three entries in the run that shows it and two where it is bounded. A workflow
run needs a rival for its place; one definition has each strategy, and
its loop lets a step run twice, with the attempts of the first time. The limit of the pool is 1000
in the code (`_MAX_LOCKS`) and 1 or 2 here; `Locks` only bounds how many lock objects are
referred to at once, and has an identity for every reference. `MaxSpawns`, `MaxRuns` and `MaxEdits` bound how often requests come, and remove
no interleaving among those that do. For the supervisor a run and the one that replaces it are enough to see two
alive at once, and two edits let a change arrive while the last one is worked off. A cron job needs two tasks at a time (the
cancelled one and its successor) and a rival for its dependency. In a chat it takes two turns of one topic and
one of another to leave flags to a later turn, and one event to strike; with two events (`MaxEvents = 2`) the invariants hold in 2.3 million
states, too many to be repeated with every change. A lost update needs two sessions, and three operations of one session show how commands disturb
a turn; two turns of one topic and a message in a topic with a default model were checked apart. `ChatTurnProofs`, `SessionsProofs` and
`NamedSessionsProofs` cover all sizes.

**Fairness.** `TaskHub`: weak fairness of each run's own steps; a CLI call ends by
`timeout_seconds` at the latest and result handlers end with their own CLI call. `SequentialMiddleware`: weak fairness of a delivery's steps
after its arrival and of the others' wake-up and release; Telegram calls and turns time out. `WorkflowEngine`: strong
fairness of each run's task, since a ready task is not enabled while another run holds the loop, but gets its turn in
the loop's order. `Supervisor`: weak fairness of runs and callers, since every await of theirs is a task or a
shutdown that ends; bots need not exit. `CronObserver`: weak fairness of tasks, planners and the polling loop; a CLI call ends by its
timeout. `ChatTurn`: weak fairness of a turn's own steps and of the end of a grace period. `Sessions` and `NamedSessions` state safety
only: what may be lost there is lost for good, and the properties say what is then still true. No request, crash, reload or restart is ever assumed to happen, and no reply.

## Proofs

All theorems hold for any values of the constants that satisfy the named assumptions. Every
invariant and every action property that a passing run checks is also a theorem, and so are
the two refinements. Where a theorem about the hub needs one of its `Windows` closed, about the supervisor one caller at a
time (`~Concurrent`), or about the pool room for every session, that is a hypothesis and stands in the statement. The theorems
about chats, sessions and named sessions have none of the kind: what the code leaves open there is always open, and
the properties say what is then still true. Where an invariant is stated as "*X* is closed
=> ...", TLC was asked for each set of windows which of them break it.

*TaskHub* (`TaskHubProofs`). `TypeCorrect`, and `AdmissionBounded`: submitted runs respect
`max_parallel`. The bound alone is not inductive, since `submit` counts the in-flight
table and not the runs; the strengthening is `FreshTracked` (a submitted run that has not left
its CLI call is the one its key points at, and its task cannot have been resumed).

The other theorems rest on `HubInv`, which holds with every window open (`HubInvHolds`); what a
window can break stands in it behind `Shut(window)`. Its parts say what a run's phase, its
entry, the copies of its status and its folder have to do with each other: a run that has its
call ahead is the last one of its task, an entry that reads `running` has such a run, what the
parent was told agrees with the entry, what is on disk without a folder cannot come back.
From it, with the windows that TLC showed to be needed and no others:

| Theorem | Windows that must be closed |
|---|---|
| `OneRunAtATimeHolds` | "resume_while_delivering" or "cancel_while_delivering" (`NoLateWrite`) |
| `RunningIffRunHolds` | the same; "cancel_before_start", "folder_vanishes" |
| `FoldersMatchHolds`, `LiveRunsTrackedHolds`, `ShutdownLeavesNoRunHolds`, `ParentKnowsHolds`, `RemovedForGoodHolds` | none |
| `LifecycleImplemented` | "cancel_while_delivering", "folder_vanishes" |

The three in the middle are bounds on what goes wrong, and each has its part of `HubInv`: two runs of a task that are
open together are in `joined`, both of them (`Joins`), so that whoever pops the other's key is excused and nobody
else is; while shutdown waits, every live run is one it awaits, a joined one or a late one (`AwaitsAll`); a folder
without an entry is that of a creation cut short by a crash, in a sub-agent's directory (`Folders`).

`LifecycleImplemented` is the refinement of `TaskLifecycle`: each action of the hub is mapped to a
start, a finish, a resume, a removal or a stutter, the death of the process to `ProcessLost`. It uses
`HubInv` for the guards, since that a finished run's task still reads `running` is not in the action's own.

*LockPool* (`SequentialProofs`, first part). `LockHeldOnce`: one lock object never has two holders; its
invariant `LockInv` says that the deque is a line, that only the first in it is woken, and
that nobody is woken while the lock is locked. `SessionsExclusive`: with
room for every session no lock is evicted, hence everybody's reference is the pool's (`Own`), and
exclusion of objects becomes exclusion of sessions. The eviction of locks in use (below) is why that assumption is needed.
`HeldLocksStay` needs no room: what is evicted reads unlocked (`GetKeepsLocked`), and who is inside keeps it locked.
`PoolServesInTurn` is the refinement of `TurnQueue`, with room for every session: `acquire` joins
the line (and is served at once only if nobody stands in it), a woken waiter that resumes is the first of it,
a release or a cancellation leaves it, and the late steps of a cancelled waiter, the wake-ups and the look-ups are stutters. One
lemma per abstract step (`JoinsLine`, `IsServed`, `LeavesLine`, `NotInLine`) maps the sets, and `LockInv` and `Own` supply the guards.

*SequentialMiddleware* (`SequentialProofs`, second part). `QueueUsesPool`: each step of the queue is a step of
the pool or leaves it alone, so the theorems about the pool carry over (`QueueServesInTurn`, and
`AnswersInTurn` with `AtTurn`: who is being answered is inside the lock of its session). `CancelledStays` and
`AnsweredOnce` follow from `QueueInv`, which ties each entry of a list to the stage of its
delivery, one for one, through removals from the middle. `DrainMisses` counts: the uncancelled entries below the drain's index that the
`/stop` found (`Passed`) are never more than those that left (`left`), because a removal moves at most one entry below the index (`RemovalKeepsFew`), a stretch of the
drain cancels what it walks over (`DrainFromKeepsFew`), and a new entry is none of those found (`FoundArrived`).

*WorkflowEngine* (`WorkflowProofs`). `DriveInv` says for each run how status, place of the task,
table entry and cancellation fit together; it is inductive with the typing of the
variables and carries `RunningRunsAreDriven`, `TableIsTrue` and `WaitingRunsAreParked`.
For the latter the type of a run includes what a waiting run looks like, since a
restart takes it from the file. `StoreKeepsUp` adds `AllAgree` (memory and file), and
`CancelledRunsStop` needs both: a restart must not bring another status back, and the step a
cancelled task is still in must have a cancellation on its way unless asyncio dropped it.
`AdmissionIsBounded` uses that while the engine is up every driven running run is in the table.

*Supervisor* (`SupervisorProofs`). `TablesAgreeHolds` and `NoResurrectionHolds`, with one caller at a time
besides the shutdown (`~Concurrent`), for any agents, runs per agent and edits. Neither is
inductive: what a caller may do next depends on the plan it is working off and on the await at which the run it
deals with stands. `Inv` says what every such combination looks like: who may create a run (`MayCreate`) and that nobody else is
at it (`Alone`), that a live run is the one in the table (`Tracked`), which of the five tables an agent is in at each
step of a start or a stop (`TablesTrue`), and what is left to do once the shutdown is at work. `OneRun` follows, too (`OneRunHolds`),
and under this hypothesis says little: it is overlapping callers, which the code does not keep apart, that start an agent twice (below).

*DependencyQueue* and *CronObserver* (`CronProofs`). `OneAtATime` rests on the same
shape of invariant as the pool's: who is inside has the lock held, who was woken has it free. `CronUsesQueue` shows
that each step of the scheduler is a step of the queue or leaves it alone, which gives `CronSequential`. `JobsHaveOneTask`
is inductive given the types. `NothingAfterStop` follows from it: when stop has cancelled the tasks in the table, no
live task is left uncancelled, since there is none beside the table, and no planner is left to schedule one.
`NoJobForgotten` (`ScheduleTrue`): only the end of a reschedule brings both planners to rest, and it schedules every
enabled job with a valid expression and leaves the others without a task (`ScheduleCovers`); from there a toggle puts a planner to work and a task that ends leaves a successor. Its hypothesis
`TasksForAll` says that the constants provide a task for every job, which the code can always create.

*ChatTurn* (`ChatTurnProofs`). `SilenceTrue` and `CrashAnnouncedHolds`, for any messages, commands, injected prompts, topics and
events. The model's actions are first reduced to four shapes of step (`Begins`, `Goes`, `Settles`, `Ends`) and those of the
world (`Outside`); the invariants then have one proof per shape. `Flags` strengthens `SilenceExplained`: under a message marked as
stopped a flag is up, and no flag is up under one whose mark does not tell why, so that whatever its end finds is explained. `Record`
strengthens `CrashAnnounced`: each prepared message under way is the one in the record or has lost its place there (`unrecorded`).

*Sessions* (`SessionsProofs`). `OtherSessionsKept` and `SessionFileTrue`, for any sessions, providers, turns and commands and any overlap of them.
The former follows from two facts: a locked operation that has read the file holds the lock (`Locking`), and a buffer is the file in all
sessions but its own and those it missed a write to (`Buffers`); `Missing` shows that of two operations with a buffer each the saving of
one is always missed by the other, since at least one of them has no lock. For the latter, what an operation works with must be
what `meant` says wherever nothing was missed or disturbed (`Ordered`): the snapshot of a turn up to its own answer
(`TurnAgrees`), a buffer up to the effect of its operation (`BufferAgrees`); that turns of a session exclude each other (`Alone`) is what keeps
the merge of `update_session` exact.

*NamedSessions* (`NamedSessionsProofs`). `SessionsOneCall`, `StatusIsTrue` and `CrashFindsWork`, for any
number of calls, sessions and prompts, with every kind of call at any moment. The invariant speaks of the calls at work in sessions that are not loose (`Bound`): one works at a time (`Solo`),
its session reads running or ended (`Reads`), and registry and file agree on it (`Kept`); what reads running has a call that holds its object or was
lost (`Owned`), and a call under way is of no session still to be recovered (`Shape`). The status check of a follow-up and `Reads` are what
keeps a second call out. Every action is one of four kinds of step (a call goes on, a call reports, sessions are ended, a call starts), and one
lemma per kind shows that it keeps the invariant.

Only model-checked: what holds under fairness (`TasksSettle`, `MessagesSettle`, `RunsSettle`, `TurnsEnd`, `ShutdownEnds`, `QueueMoves`).
Liveness needs `ENABLED`, which is out of the prover's reach.

## Findings

Two runs show that the code does not do what its own text says.

1. *A reload kills an executing cron job* (`cron/observer.py:195`). `_reschedule_all` leaves executing jobs alone, as line 157
   promises, and ends with `_schedule_all`, which cancels and replaces the task of every enabled job.
2. *A quick command un-stops a turn* (`orchestrator/core.py:322`). `/status` and its like clear the chat's abort flag
   without the topic's lock; the turn that `/stop` killed is then answered, or executed once more.

## What does not hold

What the models found, or what their properties have to excuse because the code leaves it open. Each can be
reproduced with the values given.

*Task hub.* The done-callback of a run pops the in-flight key by task id (`hub.py:227`): a task resumed while its
last run still delivers is invisible to cancel, `cancel_all`, the limit and shutdown; these are exactly the runs in `joined`. A run that is spawned while
shutdown works survives it (`hub.py:346`; the internal API is stopped later, `supervisor.py:663`). A cancel before the first step of a run
leaves `running` behind (`hub.py:298`; window "cancel_before_start", `RunningIffRun`). A crash during the creation of a sub-agent's only task
leaves a folder that no clean-up looks at until that agent has a task again (`registry.py:72`).

*Session locks.* Eviction takes "not locked" for "unused" (`lock_pool.py:57`), although a waiter may have been woken or a caller
may hold the object: one session, two turns (`PoolSpec`, two keys, three users, no connection, `MaxLocks = 1`,
`MutualExclusion`).

*Telegram queue.* `drain_pending` iterates over a live list (`middleware.py:257`) and skips an entry for each one that leaves meanwhile;
`DrainMissesFew` is the exact bound.

*Workflow engine.* A run that looks its definition up while the reloading thread has cleared the dictionary ends without a verdict
(`engine.py:182`); the wait step announces itself before the run is marked waiting (`engine.py:282`); the Telegram transport has no
handler for `WORKFLOW_RESULT` (`transport.py:402`).

*Message bus.* An envelope that needs injection but has no prompt is delivered without it (`bus.py:129`); one
submitted with no transport registered is dropped (`bus.py:157`).

*Supervisor.* `start_agent_by_name` looks at a table that `_start_sub_agent` fills only after `AgentStack.create`, and takes no
lock: two overlapping starts leave two stacks, the first out of everybody's reach (`Concurrent = TRUE`, two commands, `OneRun`).
A clean exit or a give-up leaves the stack in its table, so that a start answers "already running". The handler of a stopped agent stays
registered, and the result of its asynchronous request goes to the stack that was shut down.

*Cron.* A write of the tools between a reload and the save of a toggle is lost. The thread of a job in script mode
outlives the cancellation of its task (`observer.py:440`).

*Chat turns.* The abort flag and the in-flight record are the chat's, the turns a topic's. A message of another topic clears the flag under
a turn that `/stop` killed, which is then answered (`core.py:322`), as does a recovery that a `/stop` meets in its grace period
(`flows.py:317`), whose prompt is executed again (mark "cleared"). Flags strike others: a timeout's `kill_all` in one topic silences a turn of
another, an interrupt that meets only an injected prompt leaves its flag to the next message, whose answer is swallowed, and
a `/stop` while a turn prepares lets the CLI call happen and drops its output (mark "struck", or "stopped"). An exception is
answered with an internal error whatever the flags say (`core.py:333`). One message overwrites the in-flight record of another, which is then not announced after
a crash (`inflight.py:58`; `unrecorded`); the turns of groups never are (`inflight.py:87`), nor records older than twice the timeout. `ns:` buttons do not
clear the abort flag: after a `/stop` a button runs the CLI and drops the answer.

*Sessions.* `resolve` and `reset` save without the lock, so that they may undo the update of another session (`missed`; the docstring at
`manager.py:446` is about this race); `/new @topic` or `/model` during a turn of that session is undone or half undone by the turn's update (`disturbed`).
`_recover_session` says that it resets the active provider's session and resets that of the requested or configured model (`flows.py:315`),
so that a session of another provider is resumed as it was and its stale conversation met again.

*Named sessions.* Errors, aborts and interrupts of a foreground call set `idle` without saving (`flows.py:697`), so that a restart re-runs finished work.
`update_after_response` revives a session that was ended while the call ran (`named.py:295`), also after `/stop`. A refused or cut-off call, or one cancelled
before its first step, leaves `running` for good ("lost"). `handle_interagent_message` does not look at the status: two messages work in one conversation, and the
result of one sets the status to idle under the other (`loose`).
A prompt of more than 4000 characters is executed again cut short (`named.py:313`).
Background envelopes carry the transport "tg": without Telegram nobody updates the registry. Recovery itself is not crash-safe, since
submitting one session saves the others as idle.

## Plan

Done, in this order: `TaskHub`, `LockPool`, `SequentialMiddleware`, `WorkflowEngine`, `Supervisor`, `DependencyQueue` and
`CronObserver`, `ChatTurn`, `Sessions`, `NamedSessions`, each with its run and its theorems.

What would come next: the supervisor's overlapping commands (`Concurrent = TRUE`), with histories that say what they lose, as for the hub and
the sessions; the time between a `/stop` and the drain of the queue, in which the next message may begin; asynchronous sends of the
inter-agent bus on top of `Supervisor`, whose property would be that a result reaches a stack that is alive.

## Not modelled

The models cover the state that several coroutines share. What they leave out is most of the program by lines: transports and
rendering (Telegram, Matrix, API server), the CLI subprocesses and their output formats, prompts, i18n, memory and retrieval, skills,
file storage, set-up and updates. These are input and output, or sequential processing of text and numbers, where tests reach what a model
could say. In particular:

- *Message bus*: one straight line per envelope, with no state between envelopes; its lock step is `LockPool`'s, its injection is a
  turn of `ChatTurn` and `Sessions`.
- *Inter-agent bus*: the receiving side is in `NamedSessions`, registration in `Supervisor`; a send shares nothing else with the next one. The table that
  cancel reads and the delivery of results are not modelled.
- *Heartbeat, model caches, configuration reload*: loops whose ticks share no state, or validation.
- *Webhooks*: stateless handlers over one file, which end in the message bus.
- *Cron jobs in script mode*, *stateless background tasks*, *kills by label*: see the notes in `PROJECT.json`.
- Time is nowhere modelled: a timeout, a delay or a due time may come at any moment.
