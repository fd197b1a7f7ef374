---------------------------- MODULE CronObserver ----------------------------
(***************************************************************************)
(* The cron scheduler: cron/observer.py on top of cron/manager.py (the     *)
(* jobs in memory and in cron_jobs.json), infra/file_watcher.py and the    *)
(* dependency queue.                                                       *)
(*                                                                         *)
(* A user of the dependency queue is here one asyncio task _run_at: it     *)
(* sleeps until its job is due, executes it and schedules the next one.    *)
(* Two processes replace them: the watcher of the file and the request     *)
(* that a toggle in the chat queues.  The command line tools of the agents *)
(* write the file themselves.  When a job is due, what its CLI answers and *)
(* how long it takes is left open.                                         *)
(***************************************************************************)
EXTENDS DependencyQueue, FiniteSets

CONSTANTS
    DepOf,     \* the dependency of a job, or None
    MaxEdits   \* bound: toggles and writes of the tools

ASSUME CronAssumption ==
    DepOf \in [Jobs -> Deps \cup {None}] /\ MaxEdits \in Nat /\ None \notin Users

VARIABLES
    running,     \* CronObserver._running
    mem, disk,   \* the jobs of the manager and of the file: "on", "off", "gone";
                 \* "bad", "badoff": on and off, with an invalid cron expression
    fresh,       \* the watcher's mtime is that of the file
    edits,
    scheduled,   \* _scheduled: the task of a job (None: no entry)
    executing,   \* _executing
    at,          \* where a task stands; "queued": in the dependency queue; "cli":
                 \* its process runs; "killing": the process was killed and is
                 \* awaited; "stat": the last await, for the file's mtime
    cancelled,   \* cancel() was called on it
    planner,     \* where the watcher and the request stand
    gathered     \* the cancelled tasks they await

cronVars == <<running, mem, disk, fresh, edits, scheduled, executing, at, cancelled,
              planner, gathered>>
vars == <<cronVars, depVars>>
files == <<mem, disk, fresh, edits>>

Planners == {"watcher", "request"}
Enabled == {j \in Jobs : mem[j] \in {"on", "bad"}}
On      == {j \in Jobs : mem[j] = "on"}
Live   == {u \in Users : at[u] # "free"}
FreeUsers(j) == {u \in Users \ Live : JobOf[u] = j /\ \A p \in Planners : u \notin gathered[p]}

Init ==
    /\ DepInit
    /\ running = TRUE
    /\ mem \in [Jobs -> {"on", "off", "bad"}] /\ disk = mem
    /\ fresh = TRUE /\ edits = 0
    /\ scheduled \in [Jobs -> Users \cup {None}]
    /\ \A j \in Jobs : scheduled[j] = IF j \in On THEN CHOOSE u \in Users : JobOf[u] = j ELSE None
    /\ executing = {}
    /\ at = [u \in Users |-> IF scheduled[JobOf[u]] = u THEN "sleeping" ELSE "free"]
    /\ cancelled = [u \in Users |-> FALSE]
    /\ planner = [p \in Planners |-> "idle"]
    /\ gathered = [p \in Planners |-> {}]

-----------------------------------------------------------------------------
(* _schedule_job for a set of jobs; stop cancels without a successor *)

\* Fault: the old task is forgotten, not cancelled.
ScheduleOver(jobs, valid, moved) ==
    LET new == [j \in valid |-> CHOOSE u \in FreeUsers(j) : TRUE] IN
        /\ \A j \in valid : FreeUsers(j) # {}
        /\ scheduled' = [j \in Jobs |-> IF j \in valid THEN new[j]
                                        ELSE IF j \in jobs THEN None ELSE scheduled[j]]
        /\ at' = [u \in Users |-> IF \E j \in valid : new[j] = u THEN "sleeping" ELSE moved[u]]
        /\ cancelled' = [u \in Users |-> moved[u] # "free" /\ cancelled[u]]
\* A task that a job had before is cancelled and leaves the table; then each job
\* with a valid expression gets a new task that sleeps, for the others there is a
\* line in the log.  moved is where the tasks stand otherwise.
Schedule(jobs, valid, moved) ==
    LET new == [j \in valid |-> CHOOSE u \in FreeUsers(j) : TRUE] IN
        /\ \A j \in valid : FreeUsers(j) # {}
        /\ scheduled' = [j \in Jobs |-> IF j \in valid THEN new[j]
                                        ELSE IF j \in jobs THEN None ELSE scheduled[j]]
        /\ at' = [u \in Users |-> IF \E j \in valid : new[j] = u THEN "sleeping" ELSE moved[u]]
        /\ cancelled' = [u \in Users |->
                            moved[u] # "free" /\ (cancelled[u] \/ (JobOf[u] \in jobs /\ scheduled[JobOf[u]] = u))]

-----------------------------------------------------------------------------
(* _run_at and _execute_job *)

Steps(u, from) == at[u] = from /\ ~cancelled[u]
GoTo(u, to) == at' = [at EXCEPT ![u] = to]

\* The execution is over: the job is scheduled anew if it is still enabled, by the
\* expression that this task was made with, which was valid.
Finish(u) ==
    /\ executing' = executing \ {JobOf[u]}
    /\ IF running /\ JobOf[u] \in Enabled
       THEN Schedule({JobOf[u]}, {JobOf[u]}, [at EXCEPT ![u] = "free"])
       ELSE GoTo(u, "free") /\ UNCHANGED <<scheduled, cancelled>>

\* The job is due: nothing to do (disabled, or quiet hours), or the queue for its
\* dependency, or its CLI at once.
Fire(u) ==
    LET d == DepOf[JobOf[u]] IN
    /\ Steps(u, "sleeping")
    /\ \/ Finish(u) /\ UNCHANGED depVars
       \/ /\ mem[JobOf[u]] \notin {"off", "badoff"}
          /\ executing' = executing \cup {JobOf[u]}
          /\ IF d = None THEN GoTo(u, "cli") /\ UNCHANGED depVars
             ELSE Acquire(u, d) /\ GoTo(u, IF place'[u] = "inside" THEN "cli" ELSE "queued")
          /\ UNCHANGED <<scheduled, cancelled>>
    /\ UNCHANGED <<running, files, planner, gathered>>

TurnComes(u) ==
    /\ Steps(u, "queued")
    /\ Enter(u)
    /\ GoTo(u, "cli")
    /\ UNCHANGED <<running, files, scheduled, executing, cancelled, planner, gathered>>

LetGo(u) == IF place[u] = "inside" THEN Release(u) ELSE UNCHANGED depVars

\* update_run_status writes all jobs as the manager knows them.
SaveStatus(j) ==
    IF mem[j] = "gone" THEN UNCHANGED files
    ELSE disk' = mem /\ fresh' = FALSE /\ UNCHANGED <<mem, edits>>

\* The CLI has answered; without a folder or a binary the job ends here.
CliEnds(u) ==
    /\ Steps(u, "cli")
    /\ LetGo(u)
    /\ \/ /\ GoTo(u, "delivering")
          /\ UNCHANGED <<files, scheduled, executing, cancelled>>
       \/ Finish(u) /\ SaveStatus(JobOf[u])
    /\ UNCHANGED <<running, planner, gathered>>

\* The result is out (or silent): only then the status is written.
Delivered(u) ==
    /\ Steps(u, "delivering")
    /\ GoTo(u, "stat")
    /\ SaveStatus(JobOf[u])
    /\ UNCHANGED <<depVars, running, scheduled, executing, cancelled, planner, gathered>>

\* update_mtime, so that the write just made is not taken for a change.
Ended(u) ==
    /\ Steps(u, "stat")
    /\ fresh' = TRUE
    /\ Finish(u)
    /\ UNCHANGED <<depVars, running, mem, disk, edits, planner, gathered>>

\* CancelledError: a waiter leaves the queue, a process is killed and awaited.
Drop(u) ==
    /\ GoTo(u, "free")
    /\ cancelled' = [cancelled EXCEPT ![u] = FALSE]
    /\ executing' = IF at[u] = "sleeping" THEN executing ELSE executing \ {JobOf[u]}
Unwind(u) ==
    /\ cancelled[u]
    /\ \/ at[u] \in {"sleeping", "delivering", "stat"} /\ Drop(u) /\ UNCHANGED depVars
       \/ at[u] = "queued" /\ place[u] # "leaving" /\ CancelWaiter(u)
          /\ UNCHANGED <<at, cancelled, executing>>
       \/ at[u] = "queued" /\ Leave(u) /\ Drop(u)
       \/ at[u] = "cli" /\ GoTo(u, "killing") /\ UNCHANGED <<depVars, cancelled, executing>>
       \/ at[u] = "killing" /\ LetGo(u) /\ Drop(u)
    /\ UNCHANGED <<running, files, scheduled, planner, gathered>>

TaskStep(u) == Fire(u) \/ TurnComes(u) \/ CliEnds(u) \/ Delivered(u) \/ Ended(u) \/ Unwind(u)

-----------------------------------------------------------------------------
(* Rescheduling *)

Plans(p, to, tasks) ==
    /\ planner' = [planner EXCEPT ![p] = to]
    /\ gathered' = [gathered EXCEPT ![p] = tasks]
tasksAndDeps == <<scheduled, executing, at, cancelled, depVars>>

\* The watcher sees another mtime; the manager is then reloaded in a thread.
Poll ==
    /\ running
    /\ planner["watcher"] = "idle"
    /\ ~fresh
    /\ fresh' = TRUE
    /\ Plans("watcher", "reloading", {})
    /\ UNCHANGED <<running, mem, disk, edits, tasksAndDeps>>

Reloaded ==
    /\ planner["watcher"] = "reloading"
    /\ mem' = disk
    /\ Plans("watcher", "lock", {})
    /\ UNCHANGED <<running, disk, fresh, edits, tasksAndDeps>>

\* reschedule_now has read the file's mtime.
Noted ==
    /\ planner["request"] = "noting"
    /\ fresh' = TRUE
    /\ Plans("request", "lock", {})
    /\ UNCHANGED <<running, mem, disk, edits, tasksAndDeps>>

\* _reschedule_lock.
LockFree == \A p \in Planners : planner[p] \notin {"gathering", "listing"}

\* _reschedule_all: the tasks of jobs that do not execute are cancelled.
CancelIdle(p) ==
    LET idle == {j \in Jobs : scheduled[j] # None /\ j \notin executing}
        old  == {scheduled[j] : j \in idle} \cap Live
    IN  /\ planner[p] = "lock"
        /\ LockFree
        /\ cancelled' = [u \in Users |-> cancelled[u] \/ u \in old]
        /\ scheduled' = [j \in Jobs |-> IF j \in idle THEN None ELSE scheduled[j]]
        /\ Plans(p, "gathering", old)
        /\ UNCHANGED <<running, files, executing, at, depVars>>

Gathered(p) ==
    /\ planner[p] = "gathering"
    /\ gathered[p] \cap Live = {}
    /\ Plans(p, "listing", {})
    /\ UNCHANGED <<running, files, tasksAndDeps>>

\* _schedule_all, after its update_mtime: every enabled job, the executing ones too.
ScheduleAll(p) ==
    /\ planner[p] = "listing"
    /\ fresh' = TRUE
    /\ Schedule(Enabled, On, at)
    /\ Plans(p, "idle", {})
    /\ UNCHANGED <<running, mem, disk, edits, executing, depVars>>

PlannerStep(p) == CancelIdle(p) \/ Gathered(p) \/ ScheduleAll(p)

-----------------------------------------------------------------------------
(* The world around *)

\* Fault: the toggle leaves it to the watcher of the file.
RequestNever == UNCHANGED <<planner, gathered>>
\* request_reschedule: one request at a time.
Request ==
    IF planner["request"] = "idle" THEN Plans("request", "noting", {})
    ELSE UNCHANGED <<planner, gathered>>

Switched == [on |-> "off", off |-> "on", bad |-> "badoff", badoff |-> "bad"]

\* A button in the chat switches a job and asks for a reschedule.
Toggle(j) ==
    /\ running
    /\ edits < MaxEdits /\ edits' = edits + 1
    /\ mem[j] # "gone"
    /\ mem' = [mem EXCEPT ![j] = Switched[@]]
    /\ disk' = mem'
    /\ fresh' = FALSE
    /\ Request
    /\ UNCHANGED <<running, tasksAndDeps>>

\* cron_add, cron_edit, cron_remove: an agent's CLI rewrites one job in the file.
ToolWrites(j) ==
    /\ running
    /\ edits < MaxEdits /\ edits' = edits + 1
    /\ \E v \in {"on", "off", "gone", "bad", "badoff"} \ {disk[j]} :
          disk' = [disk EXCEPT ![j] = v]
    /\ fresh' = FALSE
    /\ UNCHANGED <<running, mem, planner, gathered, tasksAndDeps>>

\* stop: the watcher is cancelled first ...
BeginStop ==
    /\ running
    /\ running' = FALSE
    /\ Plans("watcher", "stopped", {})
    /\ UNCHANGED <<files, tasksAndDeps>>

\* Every task in the table is cancelled.
StopTasks ==
    /\ cancelled' = [u \in Users |-> cancelled[u] \/ (scheduled[JobOf[u]] = u /\ u \in Live)]
    /\ scheduled' = [j \in Jobs |-> None]
\* Fault: a request under way is not cancelled.
GoOnAlone ==
    /\ ~running
    /\ planner["watcher"] = "stopped"
    /\ Plans("watcher", "gone", {})
    /\ StopTasks
    /\ UNCHANGED <<running, files, executing, at, depVars>>
\* ... then the request, then every task in the table.
GoOnStopping ==
    /\ ~running
    /\ planner["watcher"] = "stopped"
    /\ planner' = [p \in Planners |-> "gone"]
    /\ gathered' = [p \in Planners |-> {}]
    /\ StopTasks
    /\ UNCHANGED <<running, files, executing, at, depVars>>

Next ==
    \/ \E u \in Users : TaskStep(u)
    \/ \E p \in Planners : PlannerStep(p)
    \/ Poll \/ Reloaded \/ Noted
    \/ \E j \in Jobs : Toggle(j) \/ ToolWrites(j)
    \/ BeginStop \/ GoOnStopping

Spec == Init /\ [][Next]_vars

\* Tasks and planners go on; the CLI has a timeout.  The watcher polls for ever.
Fairness ==
    /\ \A u \in Users : WF_vars(TaskStep(u))
    /\ \A p \in Planners : WF_vars(PlannerStep(p))
    /\ WF_vars(Poll) /\ WF_vars(Reloaded) /\ WF_vars(Noted) /\ WF_vars(GoOnStopping)

FairSpec == Spec /\ Fairness

-----------------------------------------------------------------------------
(* Properties *)

\* Issue #75: a job has no task beside the one in the table, so that it never
\* runs twice at a time.  A task that was cancelled starts nothing any more.
NoOrphans ==
    \A u \in Live : ~cancelled[u] => scheduled[JobOf[u]] = u

\* While nobody reschedules, of the enabled jobs exactly those with a valid expression
\* have a task that will run them: a toggle that meets a running reschedule, or a job
\* that ends beside one, is not lost, and no task goes on by an expression that an
\* edit has made invalid.
ScheduleTrue ==
    (running /\ \A p \in Planners : planner[p] = "idle") =>
        On = {j \in Enabled : \E u \in Live : JobOf[u] = j /\ ~cancelled[u]}

\* A job that waits for its dependency gets it or is cancelled, also when the one
\* that was woken before it is cancelled before it has resumed.
QueueMoves == \A u \in Users : at[u] = "queued" ~> at[u] # "queued"

\* Once stop has cancelled everything no CLI starts any more: neither a reschedule
\* under way nor a job that just ended puts a task beside those it cancelled.
StopHolds ==
    [][planner["watcher"] = "gone" => \A u \in Users : at'[u] = "cli" => at[u] = "cli"]_vars

\* "Jobs that are currently executing are left running": a reschedule does not
\* cancel a job whose CLI is at work.
ExecutingSurvives ==
    [][\A u \in Users : Steps(u, "cli") /\ cancelled'[u] => ~running]_vars
=============================================================================
