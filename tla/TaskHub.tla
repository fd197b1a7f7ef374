------------------------------ MODULE TaskHub ------------------------------
(***************************************************************************)
(* The background task hub: tasks/hub.py (TaskHub), tasks/registry.py      *)
(* (TaskRegistry) and the models they share.                               *)
(*                                                                         *)
(* Everything runs on one asyncio event loop, so a step of this module is  *)
(* a piece of code between two awaits.  A task is created once and may be  *)
(* resumed; every spawn of it is a run <<task, n>>, one asyncio task whose *)
(* body is TaskHub._run.  The registry is kept in memory (entries) and on  *)
(* disk (disk), next to one folder per task (folders).                     *)
(*                                                                         *)
(* The callers of the hub (the parent agent through the internal API, the  *)
(* user through /tasks, the periodic observers) may call it at any time.   *)
(* Windows names the moments at which the code has no guard of its own and *)
(* the environment is allowed to call: a run with Windows = {} shows what  *)
(* the hub keeps when callers wait, a run with a window open what that     *)
(* call costs.                                                             *)
(***************************************************************************)
EXTENDS Integers, Sequences, FiniteSets

CONSTANTS
    Tasks,        \* task ids; registry.create never hands out an id twice
    Chats,        \* chat ids
    ChatOf,       \* the chat a task is submitted from
    DirOf,        \* the tasks_dir of a task: that of its parent agent
    DefaultDir,   \* the registry's own: that of the main agent
    Unheard,      \* tasks whose parent agent has registered no handlers
    MaxParallel,  \* TasksConfig.max_parallel
    MaxSpawns,    \* bound: runs of one task, its submission included
    Windows       \* the unguarded moments the environment may use

AllWindows == {"resume_while_delivering",  \* resume before the last run has ended
               "cancel_while_delivering",  \* cancel once the status is written
               "cancel_before_start",      \* cancel before the body's first step
               "request_while_stopping",   \* the internal API outlives shutdown()
               "folder_vanishes",          \* somebody deletes a task folder
               "crash"}                    \* the process dies

ASSUME TaskHubAssumption ==
    /\ IsFiniteSet(Tasks)
    /\ ChatOf \in [Tasks -> Chats]
    /\ Unheard \subseteq Tasks
    /\ MaxParallel \in Nat
    /\ MaxSpawns \in Nat \ {0}
    /\ Windows \subseteq AllWindows

VARIABLES
    hub,         \* "up", "stopping" (in shutdown), "drained" (after it), "down"
    entries,     \* TaskRegistry._entries
    disk,        \* tasks.json
    folders,     \* the task folders that exist
    inflight,    \* TaskHub._in_flight: task -> its TaskInFlight (run 0: no key)
    phase,       \* where each run's asyncio task stands
    cancelling,  \* runs with a CancelledError on its way
    awaited,     \* runs shutdown() gathers
    asked,       \* history: unended runs whose agent asked while executing
    told,        \* history: statuses each unended run gave the result handler
    news,        \* history: the status a task's parent heard last
    joined,      \* history: open runs that were open with another of their task
    late,        \* history: open runs spawned when shutdown() had begun
    torn,        \* history: tasks whose creation a crash cut short
    gone         \* history: tasks whose folder somebody else deleted

marks == <<joined, late, torn, gone>>
vars == <<hub, entries, disk, folders, inflight, phase, cancelling, awaited,
          asked, told, news, marks>>
storeVars == <<entries, disk, folders>>

Statuses  == {"running", "waiting", "done", "failed", "cancelled"}
Finished  == {"done", "failed", "cancelled"}
Resumable == Finished \cup {"waiting"}

\* Of a TaskEntry only what guards read: its status, whether session_id and
\* provider are non-empty.  "absent" stands for a missing key.
Entry   == [status : Statuses \cup {"absent"}, session : BOOLEAN, provider : BOOLEAN]
NoEntry == [status |-> "absent", session |-> FALSE, provider |-> FALSE]

Runs    == Tasks \X (1 .. MaxSpawns)
RunsOf(t) == {t} \X (1 .. MaxSpawns)
NotInFlight == [run |-> 0, question |-> FALSE]

\* "unborn"; "created": scheduled, body not entered; "executing": awaiting
\* cli.execute; "delivering": awaiting the result handler inside the try;
\* "closing": awaiting it inside an except clause; "finished": the asyncio task
\* is done, its done-callback is still queued; "ended": it has run, or the run
\* died with its process.
Phases == {"unborn", "created", "executing", "delivering", "closing",
           "finished", "ended"}

Open(r)      == phase[r] \notin {"unborn", "ended"}
Live(r)      == phase[r] \in {"created", "executing", "delivering", "closing"}
Executing(r) == phase[r] \in {"created", "executing"}
Present(t)   == entries[t].status # "absent"
Spawned(t)   == {n \in 1 .. MaxSpawns : phase[<<t, n>>] # "unborn"}

\* The run the in-flight entry of t points at, and the not-done runs the hub
\* would find by walking _in_flight.
InFlight(t)  == inflight[t].run # 0
RunOf(t)     == <<t, inflight[t].run>>
ActiveIn(c)  == {t \in Tasks : ChatOf[t] = c /\ InFlight(t) /\ Live(RunOf(t))}
Active       == {t \in Tasks : InFlight(t) /\ Live(RunOf(t))}

Init ==
    /\ hub = "up"
    /\ entries = [t \in Tasks |-> NoEntry]
    /\ disk = entries
    /\ folders = {}
    /\ inflight = [t \in Tasks |-> NotInFlight]
    /\ phase = [r \in Runs |-> "unborn"]
    /\ cancelling = {}
    /\ awaited = {}
    /\ asked = {}
    /\ told = [r \in Runs |-> <<>>]
    /\ news = [t \in Tasks |-> "none"]
    /\ joined = {} /\ late = {} /\ torn = {} /\ gone = {}

-----------------------------------------------------------------------------
(* TaskRegistry *)

\* _persist: the whole registry is rewritten, atomically.
Persist == disk' = entries'

\* Fault: a missing entry is created again.
UpdateStatusUpsert(t, new) == entries' = [entries EXCEPT ![t] = new] /\ Persist
\* update_status: silently nothing when the entry is gone.
UpdateStatus(t, new) ==
    IF Present(t)
    THEN entries' = [entries EXCEPT ![t] = new] /\ Persist
    ELSE UNCHANGED <<entries, disk>>

\* _remove_entries: entries and folders go, then the registry is saved.
RemoveEntries(S) ==
    /\ S # {}
    /\ entries' = [t \in Tasks |-> IF t \in S THEN NoEntry ELSE entries[t]]
    /\ folders' = folders \ S
    /\ Persist

\* Fault: stale running entries are kept.
LoadedAsSaved == disk
\* _load: what a fresh process reads; stale running entries become failed.
Loaded ==
    [t \in Tasks |-> IF disk[t].status = "running"
                     THEN [disk[t] EXCEPT !.status = "failed"]
                     ELSE disk[t]]

\* Fault: folders without an entry are left.
CleanupEntriesOnly(e) ==
    /\ entries' = [t \in Tasks |-> IF t \in folders THEN e[t] ELSE NoEntry]
    /\ Persist
    /\ UNCHANGED folders
\* _cleanup_orphans, applied to a registry e: entries without a folder go, and
\* folders without an entry in the default tasks_dir and in those of the entries
\* left; saved only if something was removed.
CleanupOrphans(e) ==
    LET had     == {t \in Tasks : e[t].status # "absent"}
        kept    == had \cap folders
        scanned == {DefaultDir} \cup {DirOf[t] : t \in kept}
        stray   == {t \in folders \ kept : DirOf[t] \in scanned}
    IN  /\ entries' = [t \in Tasks |-> IF t \in kept THEN e[t] ELSE NoEntry]
        /\ folders' = folders \ stray
        /\ IF kept # had \/ stray # {} THEN Persist ELSE UNCHANGED disk

FinishedTasks == {t \in Tasks : entries[t].status \in Finished}

-----------------------------------------------------------------------------
(* Requests *)

\* Requests are served until the process exits: stop_all stops the internal
\* API only after TaskHub.shutdown has returned.
Serving == \/ hub = "up"
           \/ hub \in {"stopping", "drained"} /\ "request_while_stopping" \in Windows

\* Two runs of a task are open at a time; a run begins when shutdown() has begun.
Mark(t, n) ==
    LET others == {r \in RunsOf(t) : Open(r)} IN
    /\ joined' = IF others = {} THEN joined ELSE joined \cup others \cup {<<t, n>>}
    /\ late' = IF hub = "up" THEN late ELSE late \cup {<<t, n>>}
    /\ UNCHANGED <<torn, gone>>

\* Fault: a resumed run is not registered in flight.
SpawnUntracked(t, n) ==
    /\ phase' = [phase EXCEPT ![<<t, n>>] = "created"]
    /\ inflight' = IF n = 1 THEN [inflight EXCEPT ![t] = [run |-> n, question |-> FALSE]]
                             ELSE inflight
    /\ news' = [news EXCEPT ![t] = "none"]
    /\ Mark(t, n)
    /\ UNCHANGED <<hub, cancelling, awaited, asked, told>>
\* _spawn: create_task schedules the body, the new TaskInFlight replaces
\* whatever the key held.
Spawn(t, n) ==
    /\ phase' = [phase EXCEPT ![<<t, n>>] = "created"]
    /\ inflight' = [inflight EXCEPT ![t] = [run |-> n, question |-> FALSE]]
    /\ news' = [news EXCEPT ![t] = "none"]
    /\ Mark(t, n)
    /\ UNCHANGED <<hub, cancelling, awaited, asked, told>>

\* Fault: "active > max_parallel" instead of ">=".
SubmitOneMore(t, override) ==
    /\ Serving
    /\ Spawned(t) = {}
    /\ Cardinality(ActiveIn(ChatOf[t])) <= MaxParallel
    /\ entries' = [entries EXCEPT ![t] = [status |-> "running", session |-> FALSE,
                                          provider |-> override]]
    /\ folders' = folders \cup {t}
    /\ Persist
    /\ Spawn(t, 1)
\* submit -> TaskRegistry.create -> _spawn.
Submit(t, override) ==
    /\ Serving
    /\ Spawned(t) = {}
    /\ Cardinality(ActiveIn(ChatOf[t])) < MaxParallel
    /\ entries' = [entries EXCEPT ![t] = [status |-> "running", session |-> FALSE,
                                          provider |-> override]]
    /\ folders' = folders \cup {t}
    /\ Persist
    /\ Spawn(t, 1)

\* Fault: the status of the task is not looked at.
ResumeAnyStatus(t, n) ==
    /\ Serving
    /\ entries[t].session
    /\ entries[t].provider
    /\ Spawned(t) = 1 .. (n - 1)
    /\ UpdateStatus(t, [entries[t] EXCEPT !.status = "running"])
    /\ UNCHANGED folders
    /\ Spawn(t, n)
\* resume: same entry, same folder, a new run.
Resume(t, n) ==
    /\ Serving
    /\ entries[t].status \in Resumable
    /\ entries[t].session
    /\ entries[t].provider
    /\ Spawned(t) = 1 .. (n - 1)
    /\ \/ "resume_while_delivering" \in Windows
       \/ \A r \in RunsOf(t) : ~Open(r)
    /\ UpdateStatus(t, [entries[t] EXCEPT !.status = "running"])
    /\ UNCHANGED folders
    /\ Spawn(t, n)

\* forward_question: the status is rewritten with the value it has, the
\* registry is saved, the in-flight entry remembers the question.
ForwardQuestion(r) ==
    LET t == r[1] IN
    /\ hub # "down"
    /\ phase[r] \in {"executing", "delivering"}
    /\ Present(t)
    /\ t \notin Unheard
    /\ UpdateStatus(t, entries[t])
    /\ inflight' = IF InFlight(t) THEN [inflight EXCEPT ![t].question = TRUE]
                                  ELSE inflight
    /\ asked' = IF phase[r] = "executing" THEN asked \cup {r} ELSE asked
    /\ UNCHANGED <<hub, folders, phase, cancelling, awaited, told, news, marks>>

\* The moments at which the environment cancels a run.
Cancellable(r) ==
    \/ phase[r] = "executing"
    \/ phase[r] = "created" /\ "cancel_before_start" \in Windows
    \/ phase[r] \in {"delivering", "closing"} /\ "cancel_while_delivering" \in Windows

\* asyncio.Task.cancel on the runs of a set of tasks.
CancelRuns(S) ==
    /\ \A t \in S : Cancellable(RunOf(t))
    /\ cancelling' = cancelling \cup {RunOf(t) : t \in S}

Cancel(t) ==
    /\ Serving
    /\ t \in Active
    /\ CancelRuns({t})
    /\ UNCHANGED <<hub, storeVars, inflight, phase, awaited, asked, told, news, marks>>

CancelAll(c) ==
    /\ Serving
    /\ CancelRuns(ActiveIn(c))
    /\ UNCHANGED <<hub, storeVars, inflight, phase, awaited, asked, told, news, marks>>

Remove(S) ==
    /\ RemoveEntries(S)
    /\ UNCHANGED <<hub, inflight, phase, cancelling, awaited, asked, told, news, marks>>

Delete(t) == Serving /\ t \in FinishedTasks /\ Remove({t})

CleanupFinished(c) == Serving /\ Remove({t \in FinishedTasks : ChatOf[t] = c})

\* cleanup_old, called by the cleanup observer: the finished tasks older than
\* some age.
CleanupOld(S) == hub = "up" /\ S \subseteq FinishedTasks /\ Remove(S)

\* The maintenance loop's cleanup_orphans; shutdown() stops the loop first.
Maintenance ==
    /\ hub = "up"
    /\ CleanupOrphans(entries)
    /\ UNCHANGED <<hub, inflight, phase, cancelling, awaited, asked, told, news, marks>>

-----------------------------------------------------------------------------
(* TaskHub._run *)

\* _deliver: without a handler the result is dropped and the body goes on to
\* its end at once.
Deliver(r, status, next) ==
    IF r[1] \in Unheard
    THEN /\ phase' = [phase EXCEPT ![r] = "finished"]
         /\ UNCHANGED <<told, news>>
    ELSE /\ phase' = [phase EXCEPT ![r] = next]
         /\ told' = [told EXCEPT ![r] = Append(@, status)]
         /\ news' = [news EXCEPT ![r[1]] = status]

\* The first step of the body: the provider is resolved and recorded.
FirstStep(r) ==
    LET t == r[1] IN
    /\ phase[r] = "created"
    /\ r \notin cancelling
    /\ phase' = [phase EXCEPT ![r] = "executing"]
    /\ IF entries[t].provider
       THEN UNCHANGED <<entries, disk>>
       ELSE UpdateStatus(t, [entries[t] EXCEPT !.status = "running", !.provider = TRUE])
    /\ UNCHANGED <<hub, folders, inflight, cancelling, awaited, asked, told, news, marks>>

\* cli.execute returned: ok, or timed out / is_error; session says whether the
\* response carries a session id.
CliReturns(r, ok, session) ==
    LET t      == r[1]
        status == IF ~ok THEN "failed"
                  ELSE IF InFlight(t) /\ inflight[t].question THEN "waiting" ELSE "done"
    IN  /\ phase[r] = "executing"
        /\ r \notin cancelling
        /\ UpdateStatus(t, [entries[t] EXCEPT !.status = status, !.session = session])
        /\ Deliver(r, status, "delivering")
        /\ UNCHANGED <<hub, folders, inflight, cancelling, awaited, asked, marks>>

\* Fault: an exception of the CLI call leaves the status alone.
CliRaisesUnrecorded(r) ==
    /\ phase[r] = "executing"
    /\ r \notin cancelling
    /\ Deliver(r, "failed", "closing")
    /\ UNCHANGED <<hub, storeVars, inflight, cancelling, awaited, asked, marks>>
\* cli.execute raised: the "except Exception" clause.
CliRaises(r) ==
    LET t == r[1] IN
    /\ phase[r] = "executing"
    /\ r \notin cancelling
    /\ UpdateStatus(t, [entries[t] EXCEPT !.status = "failed"])
    /\ Deliver(r, "failed", "closing")
    /\ UNCHANGED <<hub, folders, inflight, cancelling, awaited, asked, marks>>

\* Fault: a cancelled run is reported, its status not written.
RunCancelledUnrecorded(r) ==
    /\ r \in cancelling
    /\ phase[r] \in {"executing", "delivering"}
    /\ Deliver(r, "cancelled", "closing")
    /\ cancelling' = cancelling \ {r}
    /\ UNCHANGED <<hub, storeVars, inflight, awaited, asked, marks>>
\* CancelledError arrives inside the try: the "except CancelledError" clause.
RunCancelled(r) ==
    LET t == r[1] IN
    /\ r \in cancelling
    /\ phase[r] \in {"executing", "delivering"}
    /\ UpdateStatus(t, [entries[t] EXCEPT !.status = "cancelled"])
    /\ Deliver(r, "cancelled", "closing")
    /\ cancelling' = cancelling \ {r}
    /\ UNCHANGED <<hub, folders, inflight, awaited, asked, marks>>

\* CancelledError arrives outside the try: before the first step the body is
\* never entered, in an except clause it just propagates.
RunDropped(r) ==
    /\ r \in cancelling
    /\ phase[r] \in {"created", "closing"}
    /\ phase' = [phase EXCEPT ![r] = "finished"]
    /\ cancelling' = cancelling \ {r}
    /\ UNCHANGED <<hub, storeVars, inflight, awaited, asked, told, news, marks>>

\* The result handler returned, or its exception was logged.
DeliveryReturns(r) ==
    /\ phase[r] \in {"delivering", "closing"}
    /\ r \notin cancelling
    /\ phase' = [phase EXCEPT ![r] = "finished"]
    /\ UNCHANGED <<hub, storeVars, inflight, cancelling, awaited, asked, told, news, marks>>

\* The done-callback pops whatever in-flight entry the task has by now.
DoneCallback(r) ==
    /\ phase[r] = "finished"
    /\ phase' = [phase EXCEPT ![r] = "ended"]
    /\ inflight' = [inflight EXCEPT ![r[1]] = NotInFlight]
    /\ asked' = asked \ {r}
    /\ told' = [told EXCEPT ![r] = <<>>]
    /\ joined' = joined \ {r} /\ late' = late \ {r}
    /\ UNCHANGED <<hub, storeVars, cancelling, awaited, news, torn, gone>>

-----------------------------------------------------------------------------
(* Shutdown, crash and restart *)

Shutdown ==
    /\ hub = "up"
    /\ hub' = "stopping"
    /\ CancelRuns(Active)
    /\ awaited' = {RunOf(t) : t \in Active}
    /\ UNCHANGED <<storeVars, inflight, phase, asked, told, news, marks>>

\* Fault: the cancelled runs are not awaited.
ShutdownReturnsAtOnce ==
    /\ hub = "stopping"
    /\ hub' = "drained"
    /\ inflight' = [t \in Tasks |-> NotInFlight]
    /\ UNCHANGED <<storeVars, phase, cancelling, awaited, asked, told, news, marks>>
\* The gather has returned: _in_flight is cleared.
ShutdownReturns ==
    /\ hub = "stopping"
    /\ \A r \in awaited : ~Live(r)
    /\ hub' = "drained"
    /\ inflight' = [t \in Tasks |-> NotInFlight]
    /\ UNCHANGED <<storeVars, phase, cancelling, awaited, asked, told, news, marks>>

\* The process is gone, with the memory it held and the runs in flight.
Die ==
    /\ hub' = "down"
    /\ entries' = [t \in Tasks |-> NoEntry]
    /\ inflight' = [t \in Tasks |-> NotInFlight]
    /\ cancelling' = {}
    /\ awaited' = {}
    /\ asked' = {}
    /\ told' = [r \in Runs |-> <<>>]
    /\ joined' = {} /\ late' = {}
    /\ UNCHANGED <<news, gone>>
RunsEnd(S) ==
    phase' = [r \in Runs |-> IF phase[r] # "unborn" \/ r \in S THEN "ended" ELSE "unborn"]

Exit == hub = "drained" /\ Die /\ RunsEnd({}) /\ UNCHANGED <<disk, folders, torn>>

Crash ==
    /\ "crash" \in Windows
    /\ hub # "down"
    /\ Die
    /\ RunsEnd({})
    /\ UNCHANGED <<disk, folders, torn>>

\* Inside create: the folder is there, the registry not yet saved.  The id is
\* spent without its caller having seen it.
CrashInCreate(t) ==
    /\ "crash" \in Windows
    /\ Serving
    /\ Spawned(t) = {}
    /\ folders' = folders \cup {t}
    /\ Die
    /\ RunsEnd({<<t, 1>>})
    /\ torn' = torn \cup {t}
    /\ UNCHANGED disk

\* Inside _remove_entries: some folders are deleted, the registry not saved.
CrashInRemove(S) ==
    /\ "crash" \in Windows
    /\ Serving
    /\ S # {}
    /\ S \subseteq FinishedTasks
    /\ folders' = folders \ S
    /\ Die
    /\ RunsEnd({})
    /\ UNCHANGED <<disk, torn>>

\* TaskRegistry.__init__: _load, then _cleanup_orphans.
Restart ==
    /\ hub = "down"
    /\ hub' = "up"
    /\ CleanupOrphans(Loaded)
    /\ UNCHANGED <<inflight, phase, cancelling, awaited, asked, told, news, marks>>

\* An agent or a user removes a task folder (it lies in the workspace).
FolderVanishes(t) ==
    /\ "folder_vanishes" \in Windows
    /\ t \in folders
    /\ folders' = folders \ {t}
    /\ gone' = gone \cup {t}
    /\ UNCHANGED <<hub, entries, disk, inflight, phase, cancelling, awaited, asked, told, news,
                   joined, late, torn>>

-----------------------------------------------------------------------------
Requests ==
    \/ \E t \in Tasks, override \in BOOLEAN : Submit(t, override)
    \/ \E t \in Tasks, n \in 2 .. MaxSpawns : Resume(t, n)
    \/ \E r \in Runs : ForwardQuestion(r)
    \/ \E t \in Tasks : Cancel(t)
    \/ \E c \in Chats : CancelAll(c)
    \/ \E t \in Tasks : Delete(t)
    \/ \E c \in Chats : CleanupFinished(c)
    \/ \E S \in SUBSET Tasks : CleanupOld(S)

CliEnds(r) ==
    \/ \E ok \in BOOLEAN, session \in BOOLEAN : CliReturns(r, ok, session)
    \/ CliRaises(r)
    \/ RunCancelled(r)

RunStep(r) ==
    FirstStep(r) \/ CliEnds(r) \/ RunDropped(r) \/ DeliveryReturns(r) \/ DoneCallback(r)

Lifecycle ==
    \/ Maintenance
    \/ Shutdown
    \/ ShutdownReturns
    \/ Exit
    \/ Crash
    \/ \E t \in Tasks : CrashInCreate(t)
    \/ \E S \in SUBSET Tasks : CrashInRemove(S)
    \/ Restart
    \/ \E t \in Tasks : FolderVanishes(t)

Next == Requests \/ (\E r \in Runs : RunStep(r)) \/ Lifecycle

Spec == Init /\ [][Next]_vars

\* Every run's coroutine keeps being scheduled: the CLI call is bounded by
\* timeout_seconds, a handler by its own CLI call.
Fairness == \A r \in Runs : WF_vars(RunStep(r))

FairSpec == Spec /\ Fairness

-----------------------------------------------------------------------------
(* Properties *)

\* Every variable has its type: the registry, its file and the in-flight table
\* map every task id to a value of the code's dataclasses.
TypeOK ==
    /\ hub \in {"up", "stopping", "drained", "down"}
    /\ entries \in [Tasks -> Entry]
    /\ disk \in [Tasks -> Entry]
    /\ folders \subseteq Tasks
    /\ inflight \in [Tasks -> [run : 0 .. MaxSpawns, question : BOOLEAN]]
    /\ phase \in [Runs -> Phases]
    /\ cancelling \subseteq Runs
    /\ awaited \subseteq Runs
    /\ asked \subseteq Runs
    /\ told \in [Runs -> Seq(Statuses)]
    /\ news \in [Tasks -> Statuses \cup {"none"}]
    /\ joined \subseteq Runs /\ late \subseteq Runs
    /\ torn \subseteq Tasks /\ gone \subseteq Tasks

\* max_parallel as submit enforces it: of the runs that a submission started, no
\* more than max_parallel of one chat have a CLI call ahead of them or under way,
\* although what submit counts is the in-flight table, whose keys resumes
\* overwrite and done-callbacks pop.  (Not between shutdown(), which clears the
\* table under runs it did not await, and the exit of the process.)
FreshRuns(c) == {t \in Tasks : ChatOf[t] = c /\ Executing(<<t, 1>>)}
AdmissionBound ==
    hub # "drained" => \A c \in Chats : Cardinality(FreshRuns(c)) <= MaxParallel

\* Why the bound holds: a submitted run that has not left its CLI call is the one
\* its in-flight key points at, and its task cannot be resumed yet.
FreshTracked ==
    \A t \in Tasks :
        Executing(<<t, 1>>) =>
            /\ hub # "down"
            /\ hub # "drained" => inflight[t].run = 1
            /\ entries[t].status \in {"running", "absent"}
            /\ \A n \in 2 .. MaxSpawns : phase[<<t, n>>] = "unborn"

\* Whatever crashes came in between, a serving hub has a folder for every entry,
\* unless somebody else deleted it, and an entry for every folder: cleanup_orphans
\* repairs what a crash inside create or _remove_entries left.  It looks into the
\* default directory and those of other entries only: the one folder it may leave
\* is that of a creation cut short in the directory of a sub-agent.
FoldersMatch ==
    hub # "down" =>
        \A t \in Tasks :
            /\ Present(t) => t \in folders \cup gone
            /\ t \in folders /\ ~Present(t) => t \in torn /\ DirOf[t] # DefaultDir

\* A task that was removed, or whose creation a crash cut short, never comes
\* back: not with a late update_status of a run still delivering, not with a
\* restart.
RemovedForGood ==
    [][\A t \in Tasks :
          Spawned(t) # {} /\ entries[t] = NoEntry /\ disk[t] = NoEntry
          => entries'[t] = NoEntry /\ disk'[t] = NoEntry]_vars

\* A task reads "running" exactly while one of its runs has its CLI call ahead or
\* under way: none is stuck in "running", none executes behind a finished status
\* (which delete and resume would act on).
RunningIffRun ==
    hub # "down" =>
        \A t \in Tasks : entries[t].status = "running" <=> \E r \in RunsOf(t) : Executing(r)

\* No two runs of a task execute at once: they would share its CLI session and
\* its folder.
OneRunAtATime ==
    \A t \in Tasks : \A r, s \in RunsOf(t) : Executing(r) /\ Executing(s) => r = s

\* Every run the hub has to be able to cancel is in the in-flight table.  Only runs
\* that were open together with another run of their task may be missing, as one key
\* is all they have: no other run suffers from it, nor these once a run is alone again.
LiveRunsTracked ==
    hub \in {"up", "stopping"} =>
        \A t \in Tasks : \A r \in RunsOf(t) :
            Live(r) => r \in joined \/ (InFlight(t) /\ RunOf(t) = r)

\* What the parent heard last about a task, since it was last spawned, is what
\* the registry says of it.
ParentKnows ==
    hub # "down" =>
        \A t \in Tasks : Present(t) /\ news[t] # "none" => entries[t].status = news[t]

\* Every run that comes to its end has reported to the parent, if the parent can
\* be reached.
EveryRunReports ==
    \A r \in Runs : phase[r] = "finished" /\ r[1] \notin Unheard => told[r] # <<>>

\* After shutdown() no run is left to die with the process, but for those that began
\* after it and those that were open together with another run of their task.
ShutdownLeavesNoRun == hub = "drained" => \A r \in Runs : Live(r) => r \in joined \cup late

\* A task does not stay "running" for ever: the CLI call times out, and what
\* dies with the process is downgraded at the next start.
TasksSettle ==
    \A t \in Tasks : entries[t].status = "running" ~> entries[t].status # "running"

\* The task as its parent sees it: while the process is down, what the next start
\* will make of file and folders.
SeenStatus ==
    LET seen == IF hub = "down" THEN Loaded ELSE entries IN
    [t \in Tasks |->
        IF Spawned(t) = {} THEN "unborn"
        ELSE IF seen[t].status = "absent" \/ (hub = "down" /\ t \notin folders) THEN "removed"
        ELSE seen[t].status]

Promise == INSTANCE TaskLifecycle WITH status <- SeenStatus

\* The hub implements the life cycle its parent agents rely on: whatever
\* requests, runs and crashes interleave, each attempt ends once, and nothing a
\* crash interrupted shows a state in between.
ImplementsLifecycle == Promise!Spec
=============================================================================
