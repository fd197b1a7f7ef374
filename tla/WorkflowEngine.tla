-------------------------- MODULE WorkflowEngine --------------------------
(***************************************************************************)
(* The workflow engine: workflow/engine.py (WorkflowEngine), registry.py   *)
(* (WorkflowRegistry) and the models they share.                           *)
(*                                                                         *)
(* A run is driven by one asyncio task, the body of _execute_run, a loop   *)
(* over the steps of the definition that awaits in most of them.  pc says  *)
(* where that task stands: while it is "looping" it holds the event loop,  *)
(* and nothing else on the loop can act (Free).  The definitions are       *)
(* reloaded by a worker thread, which can act between any two steps here.  *)
(*                                                                         *)
(* The runs are numbered in the order they are created, the order the      *)
(* registry's dictionary keeps.  They all execute one definition, Steps,   *)
(* whose ids are their positions; an id outside of it is a dangling one    *)
(* and 0 stands for the empty string.                                      *)
(***************************************************************************)
EXTENDS Integers, Sequences, FiniteSets

CONSTANTS
    MaxRuns,      \* bound: workflow runs ever started
    Chats,        \* chats (with their topic)
    ChatOf,       \* the chat a run was started from
    Steps,        \* WorkflowDefinition.steps
    MaxParallel   \* max_parallel_runs

RunIds  == 1 .. MaxRuns
StepIds == DOMAIN Steps

\* What the engine reads of a StepDefinition.  "broken" stands for the steps that
\* fail without awaiting anything: an unsupported type, a wait_for_reply inside
\* a parallel block.  retries is retry.max_attempts, 0 without a retry section,
\* fallback is 0 without a fallback section.
StepDefinition ==
    [type     : {"ask_agent", "notify", "parallel", "wait_for_reply", "condition", "broken"},
     on_error : {"abort", "retry", "fallback", "skip"},
     retries  : Nat,
     fallback : Nat,
     goto     : Nat,
     then     : Nat,
     else     : Nat]

ASSUME WorkflowAssumption ==
    /\ MaxRuns \in Nat
    /\ ChatOf \in [RunIds -> Chats]
    /\ Steps \in Seq(StepDefinition) /\ Steps # <<>>
    /\ MaxParallel \in Nat

VARIABLES
    engine,      \* "up", "stopping" (in shutdown), "drained" (after it)
    known,       \* the definition is in WorkflowRegistry._definitions
    runs,        \* WorkflowRegistry._runs
    disk,        \* the runs as saved
    pc,          \* where each run's asyncio task stands
    active,      \* WorkflowEngine._active_tasks
    cancelling,  \* runs whose task has a CancelledError on its way
    awaited,     \* runs whose tasks shutdown() gathers
    stranded     \* history: running runs whose task ended without a verdict

vars == <<engine, known, runs, disk, pc, active, cancelling, awaited, stranded>>

StepStatuses == {"pending", "running", "completed", "failed", "skipped", "waiting"}
RunStatuses  == {"pending", "running", "waiting", "completed", "failed", "cancelled"}

StepRun == [status : StepStatuses \cup {"absent"}, attempt : Nat]
NoStep  == [status |-> "absent", attempt |-> 0]
NoRun   == [status |-> "absent", step |-> 0, wait |-> 0, steps |-> [s \in StepIds |-> NoStep]]

\* "created": the task is scheduled, its body not entered; "stepping": it awaits
\* the agent, the notification or the substeps of its current step; "sleeping":
\* the delay before a retry; "telling": the notification that the run has ended.
Places == {"none", "created", "looping", "stepping", "sleeping", "telling"}

Free    == \A r \in RunIds : pc[r] # "looping"

Init ==
    /\ engine = "up"
    /\ known \in BOOLEAN
    /\ runs = [r \in RunIds |-> NoRun]
    /\ disk = runs
    /\ pc = [r \in RunIds |-> "none"]
    /\ active = {}
    /\ cancelling = {}
    /\ awaited = {}
    /\ stranded = {}

-----------------------------------------------------------------------------
(* WorkflowRegistry *)

\* update_run: all runs are saved, with whatever else has changed in memory.
UpdateRun(r, run) == runs' = [runs EXCEPT ![r] = run] /\ disk' = runs'

\* The result of a step goes into the run; the attempts so far stay.
WithStep(run, s, status) == [run EXCEPT !.steps[s].status = status]

\* get_waiting_run: the oldest of the runs that wait in the chat.
WaitingIn(c)   == {r \in RunIds : runs[r].status = "waiting" /\ ChatOf[r] = c}
ReplyGoesTo(r) == r \in WaitingIn(ChatOf[r]) /\ \A q \in WaitingIn(ChatOf[r]) : r <= q

-----------------------------------------------------------------------------
(* The asyncio task of a run *)

\* Fault: the finally clause leaves the table entry.
LeaveTracked(r) ==
    /\ pc' = [pc EXCEPT ![r] = "none"]
    /\ awaited' = awaited \ {r}
    /\ UNCHANGED active
\* The body ends, by way of the finally clause; gather sees the task done.
Leave(r) ==
    /\ pc' = [pc EXCEPT ![r] = "none"]
    /\ active' = active \ {r}
    /\ awaited' = awaited \ {r}

Goes(r, place) == pc' = [pc EXCEPT ![r] = place] /\ UNCHANGED <<active, awaited>>

\* create_task, entered in the table.
Spawn(r) ==
    /\ pc' = [pc EXCEPT ![r] = "created"]
    /\ active' = active \cup {r}
    /\ UNCHANGED awaited

\* _resolve_next_step: an explicit goto, then the target of a condition (0: none,
\* or not asked for), then the next step of the list; 0 when there is none.
NextStep(s, target) ==
    IF Steps[s].goto # 0 THEN Steps[s].goto
    ELSE IF target # 0 THEN target
    ELSE IF s + 1 \in StepIds THEN s + 1
    ELSE 0

\* A step went well: on to the next one, or to the end and its notification.
Advance(r, target) ==
    LET s    == runs[r].step
        done == WithStep(runs[r], s, "completed")
        next == NextStep(s, target)
    IN  \/ /\ next # 0
           /\ UpdateRun(r, [done EXCEPT !.step = next])
           /\ Goes(r, "looping")
        \/ /\ next = 0
           /\ UpdateRun(r, [done EXCEPT !.status = "completed"])
           /\ Goes(r, "telling")

\* Fault: the loop is not left.
PauseLooping(r) ==
    LET s == runs[r].step IN
    /\ UpdateRun(r, [WithStep(runs[r], s, "waiting") EXCEPT !.status = "waiting", !.wait = s])
    /\ Goes(r, "looping")
\* The wait_for_reply step has been announced: the run pauses, its task ends.
Pause(r) ==
    LET s == runs[r].step IN
    /\ UpdateRun(r, [WithStep(runs[r], s, "waiting") EXCEPT !.status = "waiting", !.wait = s])
    /\ Leave(r)

MayRetry(r)         == runs[r].steps[runs[r].step].attempt < Steps[runs[r].step].retries

Again(r) == [status |-> "pending", attempt |-> runs[r].steps[runs[r].step].attempt + 1]

\* Fault: the attempt is not counted.
RetryUncounted(r) ==
    /\ UpdateRun(r, WithStep(runs[r], runs[r].step, "pending"))
    /\ Goes(r, "sleeping")
\* Fault: the attempt is not saved before the delay.
RetryUnsaved(r) ==
    /\ runs' = [runs EXCEPT ![r].steps[runs[r].step] = Again(r)]
    /\ Goes(r, "sleeping")
    /\ UNCHANGED disk
Retry(r) ==
    /\ UpdateRun(r, [runs[r] EXCEPT !.steps[runs[r].step] = Again(r)])
    /\ Goes(r, "sleeping")

\* Fault: the loop is left.
FallbackLeaving(r) ==
    LET s == runs[r].step IN
    /\ UpdateRun(r, [WithStep(runs[r], s, "failed") EXCEPT !.step = Steps[s].fallback])
    /\ Leave(r)
Fallback(r) ==
    LET s == runs[r].step IN
    /\ UpdateRun(r, [WithStep(runs[r], s, "failed") EXCEPT !.step = Steps[s].fallback])
    /\ Goes(r, "looping")

\* A skipped last step completes the run without a notification.
Skip(r) ==
    LET s       == runs[r].step
        skipped == WithStep(runs[r], s, "skipped")
        next    == NextStep(s, 0)
    IN  \/ /\ next # 0
           /\ UpdateRun(r, [skipped EXCEPT !.step = next])
           /\ Goes(r, "looping")
        \/ /\ next = 0
           /\ UpdateRun(r, [skipped EXCEPT !.status = "completed"])
           /\ Leave(r)

Abort(r) ==
    /\ UpdateRun(r, [WithStep(runs[r], runs[r].step, "failed") EXCEPT !.status = "failed"])
    /\ Goes(r, "telling")

\* _handle_step_failure: abort is the default, and what is left when the retries
\* are spent or the section a strategy needs is missing.
StepFails(r) ==
    LET s       == Steps[runs[r].step]
        retry   == s.on_error = "retry" /\ MayRetry(r)
        goesOn  == s.on_error = "fallback" /\ s.fallback # 0
        skipped == s.on_error = "skip"
    IN  \/ retry   /\ Retry(r)
        \/ goesOn  /\ Fallback(r)
        \/ skipped /\ Skip(r)
        \/ ~(retry \/ goesOn \/ skipped) /\ Abort(r)

\* The condition's result is the id of the branch taken; evaluating it may fail.
Branch(r) ==
    LET s == Steps[runs[r].step] IN
    /\ s.type = "condition"
    /\ \E target \in {s.then, s.else} : Advance(r, target)

\* The head of _execute_step: only a StepRun that is in the run already is seen
\* to be running, and nothing is saved.
StartStep(r) ==
    LET s == runs[r].step IN
    /\ Steps[s].type \notin {"condition", "broken"}
    /\ runs' = IF runs[r].steps[s] = NoStep THEN runs
               ELSE [runs EXCEPT ![r] = WithStep(runs[r], s, "running")]
    /\ Goes(r, "stepping")
    /\ UNCHANGED disk

\* Fault: the loop does not look at the status.
GoesOnAnyway(r) == TRUE
GoesOn(r)       == runs[r].status = "running"

\* One pass of the loop of _execute_run, up to its next await or its next pass.
\* A run without a definition is abandoned as it is; a dangling step id ends it
\* as completed, without a notification.
Iterate(r) ==
    /\ pc[r] = "looping"
    /\ \/ /\ ~GoesOn(r)
          /\ Leave(r)
          /\ UNCHANGED <<runs, disk, stranded>>
       \/ /\ GoesOn(r)
          /\ ~known
          /\ Leave(r)
          /\ stranded' = stranded \cup {r}
          /\ UNCHANGED <<runs, disk>>
       \/ /\ GoesOn(r)
          /\ known
          /\ \/ /\ runs[r].step \notin StepIds
                /\ UpdateRun(r, [runs[r] EXCEPT !.status = "completed"])
                /\ Leave(r)
             \/ /\ runs[r].step \in StepIds
                /\ \/ StartStep(r)
                   \/ Branch(r)
                   \/ Steps[runs[r].step].type \in {"condition", "broken"} /\ StepFails(r)
          /\ UNCHANGED stranded
    /\ UNCHANGED <<engine, known, cancelling>>

\* The event loop enters the body of a new task, or returns to it after a delay.
Runs(r) ==
    /\ Free
    /\ pc[r] \in {"created", "sleeping"}
    /\ r \notin cancelling
    /\ Goes(r, "looping")
    /\ UNCHANGED <<engine, known, runs, disk, cancelling, stranded>>

\* What a step awaited has ended, well or not; a parallel block never fails: the
\* failures of its substeps stay in StepRuns that nobody keeps.
StepEnds(r) ==
    /\ Free
    /\ pc[r] = "stepping"
    /\ r \notin cancelling
    /\ \/ Steps[runs[r].step].type = "wait_for_reply" /\ Pause(r)
       \/ Steps[runs[r].step].type # "wait_for_reply" /\ Advance(r, 0)
       \/ Steps[runs[r].step].type # "parallel" /\ StepFails(r)
    /\ UNCHANGED <<engine, known, cancelling, stranded>>

\* asyncio.wait_for of Python 3.11: a cancellation that finds the answer there
\* already is dropped, and the task goes on.
SwallowsCancel(r) ==
    /\ Free
    /\ pc[r] = "stepping"
    /\ r \in cancelling
    /\ Steps[runs[r].step].type = "ask_agent"
    /\ Advance(r, 0) \/ StepFails(r)
    /\ cancelling' = cancelling \ {r}
    /\ UNCHANGED <<engine, known, stranded>>

\* The notification of the end: if it fails, the run has failed.
Told(r) ==
    /\ Free
    /\ pc[r] = "telling"
    /\ r \notin cancelling
    /\ \/ UNCHANGED <<runs, disk>>
       \/ UpdateRun(r, [runs[r] EXCEPT !.status = "failed"])
    /\ Leave(r)
    /\ UNCHANGED <<engine, known, cancelling, stranded>>

\* The CancelledError is delivered: except clause and finally, or nothing at all
\* when the body has not been entered.
CancelArrives(r) ==
    /\ Free
    /\ r \in cancelling
    /\ IF pc[r] = "created" THEN LeaveTracked(r) ELSE Leave(r)
    /\ cancelling' = cancelling \ {r}
    /\ stranded' = IF runs[r].status = "running" THEN stranded \cup {r} ELSE stranded
    /\ UNCHANGED <<engine, known, runs, disk>>

-----------------------------------------------------------------------------
(* Callers: commands, messages, the internal API *)

New(r) == runs[r] = NoRun /\ \A q \in RunIds : q < r => runs[q] # NoRun

\* Fault: one run more than max_parallel_runs is admitted.
AdmitsOneMore == Cardinality(active) <= MaxParallel
Admits        == Cardinality(active) < MaxParallel

\* start_workflow.
Start(r) ==
    /\ Free
    /\ New(r)
    /\ Admits
    /\ known
    /\ UpdateRun(r, [runs[r] EXCEPT !.status = "running", !.step = 1])
    /\ Spawn(r)
    /\ UNCHANGED <<engine, known, cancelling, stranded>>

\* A message that is not a command, with a run waiting in its chat:
\* resume_workflow.  Without a definition only the step is completed, in memory.
Reply(r) ==
    LET s        == runs[r].wait
        answered == WithStep(runs[r], s, "completed")
        next     == NextStep(s, 0)
    IN  /\ Free
        /\ ReplyGoesTo(r)
        /\ \/ /\ ~known
              /\ runs' = [runs EXCEPT ![r] = answered]
              /\ UNCHANGED <<disk, pc, active, awaited>>
           \/ /\ known
              /\ next # 0
              /\ UpdateRun(r, [answered EXCEPT !.step = next, !.status = "running", !.wait = 0])
              /\ Spawn(r)
           \/ /\ known
              /\ next = 0
              /\ UpdateRun(r, [answered EXCEPT !.status = "completed"])
              /\ UNCHANGED <<pc, active, awaited>>
        /\ UNCHANGED <<engine, known, cancelling, stranded>>

\* cancel_workflow: whatever the status.
Cancel(r) ==
    /\ Free
    /\ runs[r] # NoRun
    /\ active' = active \ {r}
    /\ cancelling' = cancelling \cup {q \in active \cap {r} : pc[q] # "none"}
    /\ UpdateRun(r, [runs[r] EXCEPT !.status = "cancelled"])
    /\ UNCHANGED <<engine, known, pc, awaited, stranded>>

-----------------------------------------------------------------------------
(* Definitions, shutdown, restart *)

\* load_definitions in a worker thread: the dictionary is cleared, then filled
\* again; sooner or later, if the file was removed.
ReloadClears ==
    /\ known
    /\ known' = FALSE
    /\ UNCHANGED <<engine, runs, disk, pc, active, cancelling, awaited, stranded>>

ReloadFills ==
    /\ ~known
    /\ known' = TRUE
    /\ UNCHANGED <<engine, runs, disk, pc, active, cancelling, awaited, stranded>>

\* shutdown: every task of the table is cancelled and awaited.
Shutdown ==
    /\ engine = "up"
    /\ Free
    /\ engine' = IF active = {} THEN "drained" ELSE "stopping"
    /\ cancelling' = cancelling \cup active
    /\ awaited' = active
    /\ UNCHANGED <<known, runs, disk, pc, active, stranded>>

\* gather returns, the table is cleared.
ShutdownReturns ==
    /\ engine = "stopping"
    /\ Free
    /\ awaited = {}
    /\ engine' = "drained"
    /\ active' = {}
    /\ UNCHANGED <<known, runs, disk, pc, cancelling, awaited, stranded>>

\* A new process: the runs are what was saved, and none of them is driven.
Fresh ==
    /\ engine' = "up"
    /\ known' \in BOOLEAN
    /\ pc' = [r \in RunIds |-> "none"]
    /\ active' = {}
    /\ cancelling' = {}
    /\ awaited' = {}
    /\ stranded' = {r \in RunIds : disk'[r].status = "running"}

\* The process ends, by itself or not, and the next one reads the file
\* (_load_runs).
Restart == runs' = disk /\ UNCHANGED disk /\ Fresh

\* The same between the two saves of start_workflow.
RestartInStart(r) ==
    /\ Free
    /\ New(r)
    /\ Admits
    /\ known
    /\ disk' = [runs EXCEPT ![r].status = "pending"]
    /\ runs' = disk'
    /\ Fresh

Drive(r) ==
    \/ Runs(r)
    \/ Iterate(r)
    \/ StepEnds(r)
    \/ SwallowsCancel(r)
    \/ Told(r)
    \/ CancelArrives(r)

Next ==
    \/ \E r \in RunIds : \/ Drive(r)
                         \/ Start(r)
                         \/ Reply(r)
                         \/ Cancel(r)
                         \/ RestartInStart(r)
    \/ ReloadClears
    \/ ReloadFills
    \/ Shutdown
    \/ ShutdownReturns
    \/ Restart

Spec == Init /\ [][Next]_vars

\* The event loop runs what is ready in its order, agents answer or time out, and
\* notifications return.  Strong fairness: a task is ready again and again while
\* others hold the loop in between.
Fairness == \A r \in RunIds : SF_vars(Drive(r))

FairSpec == Spec /\ Fairness

-----------------------------------------------------------------------------
(* Properties *)

\* A run that reads "running" has a task that drives it, unless its task found the
\* definitions cleared, or shutdown() or the end of the process took it.
RunningIsDriven ==
    \A r \in RunIds :
        runs[r].status = "running" /\ r \notin stranded => pc[r] # "none"

\* A waiting run is parked: no task is left that could go on beside the one the
\* reply creates, and the step to complete is known.
WaitingIsParked ==
    \A r \in RunIds : runs[r].status = "waiting" =>
        /\ pc[r] = "none"
        /\ r \notin active \cup cancelling
        /\ runs[r].wait = runs[r].step /\ runs[r].wait \in StepIds
        /\ runs[r].steps[runs[r].wait].status \in {"waiting", "completed"}

\* The table that start_workflow counts, and through which cancel and shutdown find
\* a task, is the truth while the engine is up: no key without its task, no
\* running run without its key.
TableTrue ==
    engine = "up" =>
        /\ \A r \in active : pc[r] # "none"
        /\ \A r \in RunIds :
              runs[r].status = "running" /\ r \notin stranded => r \in active

\* A crash takes back no verdict, no attempt and no result: only that a step was
\* under way again, and a reply that met no definition.
StoreAgrees ==
    \A r \in RunIds :
        /\ \A f \in {"status", "step", "wait"} : disk[r][f] = runs[r][f]
        /\ \A s \in StepIds :
              /\ disk[r].steps[s].attempt = runs[r].steps[s].attempt
              /\ \/ disk[r].steps[s].status = runs[r].steps[s].status
                 \/ runs[r].steps[s].status = "running"
                 \/ disk[r].steps[s].status = "waiting" /\ runs[r].status = "waiting"

\* max_parallel_runs: when a run is started, it and the runs that are driven, the
\* resumed ones included, are no more than the limit.
AdmissionBound ==
    [][\A r \in RunIds :
          engine = "up" /\ runs[r] = NoRun /\ pc'[r] = "created" =>
              Cardinality({q \in RunIds : runs'[q].status = "running" /\ pc'[q] # "none"})
                  <= MaxParallel]_vars

\* A cancelled run stops: whatever its task still does with an answer that came
\* with the cancel, no step of it is started any more, it never waits for a reply
\* and it does not run again.  (Not after shutdown(), which forgets the runs that
\* were started while it waited.)
CancelledStops ==
    [][\A r \in RunIds : engine # "drained" /\ runs[r].status = "cancelled" =>
          /\ runs'[r].status \notin {"running", "waiting"}
          /\ pc'[r] = "stepping" => pc[r] = "stepping"]_vars

\* A run does not stay running for ever: it reaches a verdict, a pause, or the
\* fate of a stranded run.
RunsSettle ==
    \A r \in RunIds :
        runs[r].status = "running" ~> runs[r].status # "running" \/ r \in stranded
=============================================================================
