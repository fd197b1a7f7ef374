--------------------------- MODULE TaskHubProofs ---------------------------
(* Theorems about TaskHub for any tasks, chats, bounds and windows. *)
EXTENDS TaskHub, TLAPS, FiniteSetTheorems

USE DEF NotInFlight, InFlight, RunOf, Present, storeVars, marks

\* A task and a run number name a run, and a run names its task.
LEMMA RunPairs ==
    /\ \A t \in Tasks : \A n \in 1 .. MaxSpawns : <<t, n>> \in Runs
    /\ \A r \in Runs : r[1] \in Tasks /\ r[2] \in 1 .. MaxSpawns /\ r = <<r[1], r[2]>>
BY DEF Runs

LEMMA RunsOfTask ==
    \A t \in Tasks : RunsOf(t) \subseteq Runs /\ \A r \in Runs : r \in RunsOf(t) <=> r[1] = t
BY RunPairs DEF RunsOf, Runs

\* The registry entries the hub builds are entries.
LEMMA EntryUpdates ==
    /\ NoEntry \in Entry
    /\ \A p \in BOOLEAN : [status |-> "running", session |-> FALSE, provider |-> p] \in Entry
    /\ \A e \in Entry : \A s \in Statuses : [e EXCEPT !.status = s] \in Entry
    /\ \A e \in Entry : \A s \in Statuses, b \in BOOLEAN :
          [e EXCEPT !.status = s, !.session = b] \in Entry
    /\ \A e \in Entry : [e EXCEPT !.status = "running", !.provider = TRUE] \in Entry
BY DEF Entry, NoEntry, Statuses

\* update_status keeps the registry and its file well typed.
LEMMA UpdateType ==
    ASSUME TypeOK, NEW t \in Tasks, NEW new \in Entry, UpdateStatus(t, new)
    PROVE  entries' \in [Tasks -> Entry] /\ disk' \in [Tasks -> Entry]
<1>1. entries \in [Tasks -> Entry] /\ disk \in [Tasks -> Entry]
  BY DEF TypeOK
<1> QED
  BY <1>1 DEF UpdateStatus, Persist

\* Spawning keeps the in-flight table and the runs well typed.
LEMMA SpawnType ==
    ASSUME TypeOK, NEW t \in Tasks, NEW n \in 1 .. MaxSpawns, Spawn(t, n),
           entries' \in [Tasks -> Entry], disk' \in [Tasks -> Entry], folders' \subseteq Tasks
    PROVE  TypeOK'
<1>1. <<t, n>> \in Runs
  BY RunPairs
<1>2. [run |-> n, question |-> FALSE] \in [run : 0 .. MaxSpawns, question : BOOLEAN]
  BY TaskHubAssumption
<1>3. phase' \in [Runs -> Phases]
  BY <1>1 DEF TypeOK, Spawn, Phases
<1>4. inflight' \in [Tasks -> [run : 0 .. MaxSpawns, question : BOOLEAN]]
  BY <1>2 DEF TypeOK, Spawn
<1>5. news' \in [Tasks -> Statuses \cup {"none"}]
  BY DEF TypeOK, Spawn
<1>6. joined' \subseteq Runs /\ late' \subseteq Runs /\ torn' = torn /\ gone' = gone
  BY <1>1, RunsOfTask DEF TypeOK, Spawn, Mark
<1> QED
  BY <1>3, <1>4, <1>5, <1>6 DEF TypeOK, Spawn

\* Delivering keeps the runs and the histories well typed.
LEMMA DeliverType ==
    ASSUME TypeOK, NEW r \in Runs, NEW status \in Statuses, NEW next \in Phases,
           Deliver(r, status, next)
    PROVE  /\ phase' \in [Runs -> Phases]
           /\ told' \in [Runs -> Seq(Statuses)]
           /\ news' \in [Tasks -> Statuses \cup {"none"}]
<1>1. r[1] \in Tasks
  BY RunPairs
<1>2. Append(told[r], status) \in Seq(Statuses)
  BY DEF TypeOK
<1>3. "finished" \in Phases
  BY DEF Phases
<1>4. CASE r[1] \in Unheard
  BY <1>3, <1>4 DEF TypeOK, Deliver
<1>5. CASE r[1] \notin Unheard
  <2>1. phase' \in [Runs -> Phases]
    BY <1>5 DEF TypeOK, Deliver
  <2>2. told' \in [Runs -> Seq(Statuses)]
    <3>1. told \in [Runs -> Seq(Statuses)]
      BY DEF TypeOK
    <3> QED
      BY <1>2, <1>5, <3>1 DEF Deliver
  <2>3. news' \in [Tasks -> Statuses \cup {"none"}]
    <3>1. news \in [Tasks -> Statuses \cup {"none"}]
      BY DEF TypeOK
    <3> QED
      BY <1>1, <1>5, <3>1 DEF Deliver
  <2> QED
    BY <2>1, <2>2, <2>3
<1> QED
  BY <1>4, <1>5

\* Dying leaves every variable it sets well typed.
LEMMA DieType ==
    ASSUME TypeOK, Die, NEW S, RunsEnd(S), disk' = disk, folders' \subseteq Tasks,
           torn' \subseteq Tasks
    PROVE  TypeOK'
<1>1. NotInFlight \in [run : 0 .. MaxSpawns, question : BOOLEAN]
  BY TaskHubAssumption
<1>2. inflight' \in [Tasks -> [run : 0 .. MaxSpawns, question : BOOLEAN]]
  BY <1>1 DEF Die
<1>3. phase' \in [Runs -> Phases]
  BY DEF RunsEnd, Phases
<1>4. told' \in [Runs -> Seq(Statuses)]
  BY DEF Die
<1>5. entries' \in [Tasks -> Entry]
  BY EntryUpdates DEF Die
<1> QED
  BY <1>2, <1>3, <1>4, <1>5 DEF TypeOK, Die

\* cleanup_orphans keeps the registry, its file and the folders well typed.
LEMMA CleanupType ==
    ASSUME TypeOK, NEW e \in [Tasks -> Entry], CleanupOrphans(e)
    PROVE  /\ entries' \in [Tasks -> Entry]
           /\ disk' \in [Tasks -> Entry]
           /\ folders' \subseteq Tasks
<1> DEFINE kept == {t \in Tasks : e[t].status # "absent"} \cap folders
<1>1. entries' = [t \in Tasks |-> IF t \in kept THEN e[t] ELSE NoEntry]
  BY DEF CleanupOrphans
<1>2. folders' \subseteq folders
  BY DEF CleanupOrphans
<1>3. disk' = entries' \/ disk' = disk
  BY DEF CleanupOrphans, Persist
<1>4. entries' \in [Tasks -> Entry]
  BY <1>1, EntryUpdates
<1> QED
  BY <1>2, <1>3, <1>4 DEF TypeOK

\* What _load makes of the file is a registry.
LEMMA LoadedType == TypeOK => Loaded \in [Tasks -> Entry]
<1>1. "failed" \in Statuses
  BY DEF Statuses
<1> QED
  BY <1>1, EntryUpdates DEF TypeOK, Loaded

\* A live run named by an in-flight entry is a run.
LEMMA ActiveRuns == ASSUME TypeOK, NEW t \in Active PROVE t \in Tasks /\ RunOf(t) \in Runs
<1>1. t \in Tasks /\ inflight[t].run # 0 /\ inflight[t].run \in 0 .. MaxSpawns
  BY DEF TypeOK, Active
<1>2. inflight[t].run \in 1 .. MaxSpawns
  BY <1>1, TaskHubAssumption
<1> QED
  BY <1>1, <1>2, RunPairs

\* Every reachable state of the hub, with any window open, is well typed.
THEOREM TypeCorrect == Spec => []TypeOK
<1>1. Init => TypeOK
  <2> SUFFICES ASSUME Init PROVE TypeOK
    OBVIOUS
  <2>1. NotInFlight \in [run : 0 .. MaxSpawns, question : BOOLEAN]
    BY TaskHubAssumption
  <2>2. entries \in [Tasks -> Entry] /\ disk \in [Tasks -> Entry]
    BY EntryUpdates DEF Init
  <2>3. phase \in [Runs -> Phases]
    BY DEF Init, Phases
  <2>4. told \in [Runs -> Seq(Statuses)]
    BY DEF Init
  <2> QED
    BY <2>1, <2>2, <2>3, <2>4 DEF Init, TypeOK
<1>2. TypeOK /\ [Next]_vars => TypeOK'
  <2> SUFFICES ASSUME TypeOK, [Next]_vars PROVE TypeOK'
    OBVIOUS
  <2> USE RunPairs
  <2>0. /\ Statuses = {"running", "waiting", "done", "failed", "cancelled"}
        /\ {"executing", "delivering", "closing", "finished", "ended"} \subseteq Phases
        /\ \A t \in Tasks : entries[t] \in Entry
    BY DEF Statuses, Phases, TypeOK
  <2>1. ASSUME NEW t \in Tasks, NEW override \in BOOLEAN, Submit(t, override) PROVE TypeOK'
    <3>1. entries' \in [Tasks -> Entry]
      BY <2>1, EntryUpdates DEF TypeOK, Submit
    <3>2. 1 \in 1 .. MaxSpawns
      BY TaskHubAssumption
    <3> QED
      BY <2>1, <3>1, <3>2, SpawnType DEF TypeOK, Submit, Persist
  <2>2. ASSUME NEW t \in Tasks, NEW n \in 2 .. MaxSpawns, Resume(t, n) PROVE TypeOK'
    <3>1. [entries[t] EXCEPT !.status = "running"] \in Entry
      BY <2>0, EntryUpdates
    <3>2. entries' \in [Tasks -> Entry] /\ disk' \in [Tasks -> Entry]
      BY <2>2, <3>1, UpdateType DEF Resume
    <3>3. n \in 1 .. MaxSpawns
      BY TaskHubAssumption
    <3> QED
      BY <2>2, <3>2, <3>3, SpawnType DEF TypeOK, Resume
  <2>3. ASSUME NEW r \in Runs, ForwardQuestion(r) PROVE TypeOK'
    <3>1. entries' \in [Tasks -> Entry] /\ disk' \in [Tasks -> Entry]
      BY <2>0, <2>3, UpdateType DEF ForwardQuestion
    <3>2. inflight' \in [Tasks -> [run : 0 .. MaxSpawns, question : BOOLEAN]]
      BY <2>3 DEF TypeOK, ForwardQuestion
    <3> QED
      BY <2>3, <3>1, <3>2 DEF TypeOK, ForwardQuestion
  <2>4. ASSUME NEW t \in Tasks, Cancel(t) PROVE TypeOK'
    BY <2>4, ActiveRuns DEF TypeOK, Cancel, CancelRuns
  <2>5. ASSUME NEW c \in Chats, CancelAll(c) PROVE TypeOK'
    <3>1. \A t \in ActiveIn(c) : t \in Active
      BY DEF ActiveIn, Active
    <3> QED
      BY <2>5, <3>1, ActiveRuns DEF TypeOK, CancelAll, CancelRuns
  <2>6. ASSUME NEW S, Remove(S) PROVE TypeOK'
    BY <2>6, EntryUpdates DEF TypeOK, Remove, RemoveEntries, Persist
  <2>7. ASSUME NEW r \in Runs, FirstStep(r) PROVE TypeOK'
    <3>1. [entries[r[1]] EXCEPT !.status = "running", !.provider = TRUE] \in Entry
      BY <2>0, EntryUpdates
    <3>2. entries' \in [Tasks -> Entry] /\ disk' \in [Tasks -> Entry]
      BY <2>7, <3>1, UpdateType DEF TypeOK, FirstStep
    <3> QED
      BY <2>0, <2>7, <3>2 DEF TypeOK, FirstStep
  <2>8. ASSUME NEW r \in Runs, NEW ok \in BOOLEAN, NEW session \in BOOLEAN,
               CliReturns(r, ok, session)
        PROVE  TypeOK'
    <3>1. PICK s \in {"failed", "waiting", "done"} :
             /\ UpdateStatus(r[1], [entries[r[1]] EXCEPT !.status = s, !.session = session])
             /\ Deliver(r, s, "delivering")
      BY <2>8 DEF CliReturns
    <3>2. s \in Statuses /\ [entries[r[1]] EXCEPT !.status = s, !.session = session] \in Entry
      BY <2>0, EntryUpdates
    <3>3. entries' \in [Tasks -> Entry] /\ disk' \in [Tasks -> Entry]
      BY <3>1, <3>2, UpdateType
    <3> QED
      BY <2>0, <2>8, <3>1, <3>2, <3>3, DeliverType DEF TypeOK, CliReturns
  <2>9. ASSUME NEW r \in Runs, CliRaises(r) PROVE TypeOK'
    <3>1. [entries[r[1]] EXCEPT !.status = "failed"] \in Entry
      BY <2>0, EntryUpdates
    <3>2. entries' \in [Tasks -> Entry] /\ disk' \in [Tasks -> Entry]
      BY <2>9, <3>1, UpdateType DEF CliRaises
    <3> QED
      BY <2>0, <2>9, <3>2, DeliverType DEF TypeOK, CliRaises
  <2>10. ASSUME NEW r \in Runs, RunCancelled(r) PROVE TypeOK'
    <3>1. [entries[r[1]] EXCEPT !.status = "cancelled"] \in Entry
      BY <2>0, EntryUpdates
    <3>2. entries' \in [Tasks -> Entry] /\ disk' \in [Tasks -> Entry]
      BY <2>10, <3>1, UpdateType DEF RunCancelled
    <3> QED
      BY <2>0, <2>10, <3>2, DeliverType DEF TypeOK, RunCancelled
  <2>11. ASSUME NEW r \in Runs, RunDropped(r) PROVE TypeOK'
    BY <2>0, <2>11 DEF TypeOK, RunDropped
  <2>12. ASSUME NEW r \in Runs, DeliveryReturns(r) PROVE TypeOK'
    BY <2>0, <2>12 DEF TypeOK, DeliveryReturns
  <2>13. ASSUME NEW r \in Runs, DoneCallback(r) PROVE TypeOK'
    <3>1. NotInFlight \in [run : 0 .. MaxSpawns, question : BOOLEAN]
      BY TaskHubAssumption
    <3> QED
      BY <2>0, <2>13, <3>1 DEF TypeOK, DoneCallback
  <2>14. ASSUME Maintenance PROVE TypeOK'
    <3>1. entries \in [Tasks -> Entry]
      BY DEF TypeOK
    <3> QED
      BY <2>14, <3>1, CleanupType DEF TypeOK, Maintenance
  <2>15. ASSUME Shutdown PROVE TypeOK'
    BY <2>15, ActiveRuns DEF TypeOK, Shutdown, CancelRuns
  <2>16. ASSUME ShutdownReturns PROVE TypeOK'
    <3>1. NotInFlight \in [run : 0 .. MaxSpawns, question : BOOLEAN]
      BY TaskHubAssumption
    <3> QED
      BY <2>16, <3>1 DEF TypeOK, ShutdownReturns
  <2>17. ASSUME Exit PROVE TypeOK'
    BY <2>17, DieType DEF TypeOK, Exit
  <2>18. ASSUME Crash PROVE TypeOK'
    BY <2>18, DieType DEF TypeOK, Crash
  <2>19. ASSUME NEW t \in Tasks, CrashInCreate(t) PROVE TypeOK'
    BY <2>19, DieType DEF TypeOK, CrashInCreate
  <2>20. ASSUME NEW S \in SUBSET Tasks, CrashInRemove(S) PROVE TypeOK'
    BY <2>20, DieType DEF TypeOK, CrashInRemove
  <2>21. ASSUME Restart PROVE TypeOK'
    BY <2>21, LoadedType, CleanupType DEF TypeOK, Restart
  <2>22. ASSUME NEW t \in Tasks, FolderVanishes(t) PROVE TypeOK'
    BY <2>22 DEF TypeOK, FolderVanishes
  <2>23. CASE UNCHANGED vars
    BY <2>23 DEF TypeOK, vars
  <2> QED
    BY <2>1, <2>2, <2>3, <2>4, <2>5, <2>6, <2>7, <2>8, <2>9, <2>10, <2>11, <2>12, <2>13,
       <2>14, <2>15, <2>16, <2>17, <2>18, <2>19, <2>20, <2>21, <2>22, <2>23
       DEF Next, Requests, RunStep, CliEnds, Lifecycle, Delete, CleanupFinished, CleanupOld
<1> QED
  BY <1>1, <1>2, PTL DEF Spec

-----------------------------------------------------------------------------
(* The admission bound *)

\* While a submitted run executes it is the only run of its task.
LEMMA OnlyRun ==
    ASSUME FreshTracked, NEW t \in Tasks, Executing(<<t, 1>>),
           NEW r \in Runs, r[1] = t, phase[r] # "unborn"
    PROVE  r = <<t, 1>>
<1>1. r = <<t, r[2]>> /\ r[2] \in 1 .. MaxSpawns
  BY RunPairs
<1>2. r[2] \notin 2 .. MaxSpawns
  BY <1>1 DEF FreshTracked
<1>3. r[2] = 1
  BY <1>1, <1>2, TaskHubAssumption
<1> QED
  BY <1>1, <1>3

\* update_status touches one entry.
LEMMA UpdateOther ==
    ASSUME TypeOK, NEW u \in Tasks, NEW t \in Tasks, t # u, NEW new, UpdateStatus(u, new)
    PROVE  entries'[t] = entries[t]
BY DEF TypeOK, UpdateStatus

\* Delivering changes the phase of one run, to a phase after its CLI call.
LEMMA DeliverPhase ==
    ASSUME TypeOK, NEW r \in Runs, NEW s, NEW next \in {"delivering", "closing"},
           Deliver(r, s, next)
    PROVE  /\ ~Executing(r)'
           /\ \A q \in Runs : q # r => phase'[q] = phase[q]
BY DEF TypeOK, Deliver, Executing

\* A run that has left its CLI call, and the changes it may make on the way,
\* disturb no other task's fresh run.
LEMMA LeavingFresh ==
    ASSUME TypeOK, FreshTracked, hub' = hub, NEW r \in Runs, phase[r] # "unborn",
           ~Executing(r)', \A q \in Runs : q # r => phase'[q] = phase[q],
           \A t \in Tasks : t # r[1] => entries'[t] = entries[t] /\ inflight'[t] = inflight[t]
    PROVE  /\ FreshTracked'
           /\ \A t \in Tasks : Executing(<<t, 1>>)' => Executing(<<t, 1>>)
<1> SUFFICES ASSUME NEW t \in Tasks, Executing(<<t, 1>>)'
             PROVE  /\ Executing(<<t, 1>>)
                    /\ (hub # "down")'
                    /\ (hub # "drained" => inflight[t].run = 1)'
                    /\ (entries[t].status \in {"running", "absent"})'
                    /\ \A n \in 2 .. MaxSpawns : phase'[<<t, n>>] = "unborn"
  BY DEF FreshTracked
<1>0. <<t, 1>> \in Runs /\ \A n \in 2 .. MaxSpawns : <<t, n>> \in Runs
  BY RunPairs, TaskHubAssumption
<1>1. r # <<t, 1>>
  OBVIOUS
<1>2. Executing(<<t, 1>>)
  BY <1>0, <1>1 DEF Executing
<1>3. r[1] # t
  BY <1>1, <1>2, OnlyRun
<1>4. \A n \in 2 .. MaxSpawns : phase'[<<t, n>>] = "unborn"
  BY <1>0, <1>2, <1>3 DEF FreshTracked
<1> QED
  BY <1>2, <1>3, <1>4 DEF FreshTracked

\* Steps that leave the runs alone keep FreshTracked if they keep what it says of
\* the in-flight table and the entries.
LEMMA QuietFresh ==
    ASSUME FreshTracked, phase' = phase, hub' # "down",
           \A t \in Tasks : Executing(<<t, 1>>) =>
               /\ hub' # "drained" => inflight'[t].run = 1
               /\ entries'[t].status \in {"running", "absent"}
    PROVE  /\ FreshTracked'
           /\ \A t \in Tasks : Executing(<<t, 1>>)' => Executing(<<t, 1>>)
BY DEF FreshTracked, Executing

\* Dying leaves no run.
LEMMA DyingFresh ==
    ASSUME TypeOK, NEW S, RunsEnd(S)
    PROVE  FreshTracked' /\ \A t \in Tasks : ~Executing(<<t, 1>>)'
<1>1. \A t \in Tasks : <<t, 1>> \in Runs
  BY RunPairs, TaskHubAssumption
<1> QED
  BY <1>1 DEF RunsEnd, Executing, FreshTracked

\* Every step but a submission keeps FreshTracked and starts no fresh run.
LEMMA StepFresh ==
    ASSUME TypeOK, FreshTracked, [Next]_vars,
           ~ \E t \in Tasks, override \in BOOLEAN : Submit(t, override)
    PROVE  /\ FreshTracked'
           /\ \A t \in Tasks : Executing(<<t, 1>>)' => Executing(<<t, 1>>)
<1> DEFINE Goal == /\ FreshTracked'
                   /\ \A t \in Tasks : Executing(<<t, 1>>)' => Executing(<<t, 1>>)
<1> USE RunPairs
<1>0. \A t \in Tasks : <<t, 1>> \in Runs
  BY TaskHubAssumption
<1>2. ASSUME NEW u \in Tasks, NEW n \in 2 .. MaxSpawns, Resume(u, n) PROVE Goal
  <2>1. entries[u].status \notin {"running", "absent"}
    BY <1>2 DEF Resume, Resumable, Finished
  <2>2. ~Executing(<<u, 1>>)
    BY <2>1 DEF FreshTracked
  <2>3. \A t \in Tasks, m \in 1 .. MaxSpawns :
           <<t, m>> # <<u, n>> => phase'[<<t, m>>] = phase[<<t, m>>]
    BY <1>2 DEF TypeOK, Resume, Spawn
  <2>4. 1 \in 1 .. MaxSpawns /\ n # 1 /\ \A m \in 2 .. MaxSpawns : m \in 1 .. MaxSpawns
    BY TaskHubAssumption
  <2>5. ~Executing(<<u, 1>>)'
    BY <2>2, <2>3, <2>4 DEF Executing
  <2>6. \A t \in Tasks : t # u => /\ entries'[t] = entries[t]
                                  /\ inflight'[t] = inflight[t]
    BY <1>2, UpdateOther DEF TypeOK, Resume, Spawn
  <2>7. \A t \in Tasks : t # u => /\ phase'[<<t, 1>>] = phase[<<t, 1>>]
                                  /\ \A m \in 2 .. MaxSpawns : phase'[<<t, m>>] = phase[<<t, m>>]
    BY <2>3, <2>4
  <2>8. hub' = hub
    BY <1>2 DEF Resume, Spawn
  <2>9. \A t \in Tasks : Executing(<<t, 1>>)' => t # u /\ Executing(<<t, 1>>)
    BY <2>5, <2>7 DEF Executing
  <2> QED
    BY <2>6, <2>7, <2>8, <2>9 DEF FreshTracked
<1>3. ASSUME NEW r \in Runs, ForwardQuestion(r) PROVE Goal
  <2>1. entries' = entries
    BY <1>3 DEF TypeOK, ForwardQuestion, UpdateStatus
  <2>2. \A t \in Tasks : inflight'[t].run = inflight[t].run
    BY <1>3 DEF TypeOK, ForwardQuestion
  <2> QED
    BY <1>3, <2>1, <2>2, QuietFresh DEF ForwardQuestion, FreshTracked
<1>4. ASSUME NEW t \in Tasks, Cancel(t) PROVE Goal
  BY <1>4, QuietFresh DEF Cancel, Serving, FreshTracked
<1>5. ASSUME NEW c \in Chats, CancelAll(c) PROVE Goal
  BY <1>5, QuietFresh DEF CancelAll, Serving, FreshTracked
<1>6. ASSUME NEW S, Remove(S) PROVE Goal
  <2>1. \A t \in Tasks : entries'[t] = entries[t] \/ entries'[t].status = "absent"
    BY <1>6 DEF TypeOK, Remove, RemoveEntries, NoEntry
  <2> QED
    BY <1>6, <2>1 DEF Remove, FreshTracked, Executing
<1>7. ASSUME NEW r \in Runs, FirstStep(r) PROVE Goal
  <2>1. \A t \in Tasks : \/ entries'[t] = entries[t]
                         \/ t = r[1] /\ entries'[t].status \in {"running", "absent"}
    <3>1. CASE entries' = entries
      BY <3>1
    <3>2. CASE entries' = [entries EXCEPT ![r[1]] =
                             [entries[r[1]] EXCEPT !.status = "running", !.provider = TRUE]]
      <4>1. entries'[r[1]].status = "running"
        BY <3>2 DEF TypeOK, Entry
      <4> QED
        BY <3>2, <4>1 DEF TypeOK
    <3> QED
      BY <1>7, <3>1, <3>2 DEF FirstStep, UpdateStatus
  <2>2. \A q \in Runs : q # r => phase'[q] = phase[q]
    BY <1>7 DEF TypeOK, FirstStep
  <2>3. Executing(r)
    BY <1>7 DEF FirstStep, Executing
  <2>4. \A t \in Tasks : Executing(<<t, 1>>)' => Executing(<<t, 1>>)
    BY <1>0, <2>2, <2>3 DEF Executing
  <2>5. \A t \in Tasks : Executing(<<t, 1>>) =>
           \A n \in 2 .. MaxSpawns : phase'[<<t, n>>] = "unborn"
    <3>1. ASSUME NEW t \in Tasks, Executing(<<t, 1>>), NEW n \in 2 .. MaxSpawns
          PROVE  phase'[<<t, n>>] = "unborn"
      <4>1. <<t, n>> \in Runs /\ phase[<<t, n>>] = "unborn"
        BY <3>1, TaskHubAssumption DEF FreshTracked
      <4>2. <<t, n>> # r
        BY <4>1, <1>7 DEF FirstStep
      <4> QED
        BY <2>2, <4>1, <4>2
    <3> QED
      BY <3>1
  <2>6. hub' = hub /\ inflight' = inflight
    BY <1>7 DEF FirstStep
  <2> QED
    BY <2>1, <2>4, <2>5, <2>6 DEF FreshTracked
<1>8. ASSUME NEW r \in Runs, CliEnds(r) PROVE Goal
  <2>1. phase[r] # "unborn" /\ hub' = hub /\ inflight' = inflight
    BY <1>8 DEF CliEnds, CliReturns, CliRaises, RunCancelled
  <2>2. \A t \in Tasks : t # r[1] => entries'[t] = entries[t]
    BY <1>8, UpdateOther DEF CliEnds, CliReturns, CliRaises, RunCancelled
  <2>3. ~Executing(r)' /\ \A q \in Runs : q # r => phase'[q] = phase[q]
    BY <1>8, DeliverPhase DEF CliEnds, CliReturns, CliRaises, RunCancelled
  <2> QED
    BY <2>1, <2>2, <2>3, LeavingFresh
<1>9. ASSUME NEW r \in Runs, RunDropped(r) \/ DeliveryReturns(r) \/ DoneCallback(r)
      PROVE  Goal
  <2>1. phase[r] # "unborn" /\ hub' = hub /\ entries' = entries
    BY <1>9 DEF RunDropped, DeliveryReturns, DoneCallback, storeVars
  <2>2. \A t \in Tasks : t # r[1] => inflight'[t] = inflight[t]
    BY <1>9 DEF TypeOK, RunDropped, DeliveryReturns, DoneCallback
  <2>3. ~Executing(r)' /\ \A q \in Runs : q # r => phase'[q] = phase[q]
    BY <1>9 DEF TypeOK, RunDropped, DeliveryReturns, DoneCallback, Executing
  <2> QED
    BY <2>1, <2>2, <2>3, LeavingFresh
<1>10. ASSUME Maintenance PROVE Goal
  <2>1. \A t \in Tasks : entries'[t] = entries[t] \/ entries'[t].status = "absent"
    BY <1>10 DEF Maintenance, CleanupOrphans, NoEntry
  <2> QED
    BY <1>10, <2>1, QuietFresh DEF Maintenance, FreshTracked
<1>11. ASSUME Shutdown \/ ShutdownReturns PROVE Goal
  BY <1>11, QuietFresh DEF Shutdown, ShutdownReturns, FreshTracked, storeVars
<1>12. ASSUME NEW S, RunsEnd(S) PROVE Goal
  BY <1>12, DyingFresh
<1>13. ASSUME Restart PROVE Goal
  <2>1. \A t \in Tasks : ~Executing(<<t, 1>>)
    BY <1>13 DEF Restart, FreshTracked
  <2> QED
    BY <1>13, <2>1, QuietFresh DEF Restart
<1>14. ASSUME NEW t \in Tasks, FolderVanishes(t) PROVE Goal
  <2>1. hub' = hub /\ entries' = entries /\ inflight' = inflight /\ phase' = phase
    BY <1>14 DEF FolderVanishes
  <2> QED
    BY <2>1 DEF FreshTracked, Executing
<1>15. CASE UNCHANGED vars
  <2>1. hub' = hub /\ entries' = entries /\ inflight' = inflight /\ phase' = phase
    BY <1>15 DEF vars
  <2> QED
    BY <2>1 DEF FreshTracked, Executing
<1> QED
  BY <1>2, <1>3, <1>4, <1>5, <1>6, <1>7, <1>8, <1>9, <1>10, <1>11, <1>12, <1>13, <1>14, <1>15
     DEF Next, Requests, RunStep, Lifecycle, Delete, CleanupFinished, CleanupOld,
         Exit, Crash, CrashInCreate, CrashInRemove

\* A submission keeps FreshTracked and starts the fresh run of its task alone.
LEMMA SubmitFresh ==
    ASSUME TypeOK, FreshTracked, NEW u \in Tasks, NEW override \in BOOLEAN,
           Submit(u, override)
    PROVE  /\ FreshTracked'
           /\ \A t \in Tasks : t # u /\ Executing(<<t, 1>>)' => Executing(<<t, 1>>)
           /\ hub' = hub
<1>1. hub' = hub /\ hub # "down"
  BY DEF Submit, Spawn, Serving
<1>2. /\ 1 \in 1 .. MaxSpawns
      /\ \A m \in 2 .. MaxSpawns : m \in 1 .. MaxSpawns /\ m # 1
  BY TaskHubAssumption
<1>3. \A t \in Tasks, m \in 1 .. MaxSpawns :
         <<t, m>> # <<u, 1>> => phase'[<<t, m>>] = phase[<<t, m>>]
  BY RunPairs DEF TypeOK, Submit, Spawn
<1>4. \A m \in 1 .. MaxSpawns : phase[<<u, m>>] = "unborn"
  BY DEF Submit, Spawned
<1>5. \A m \in 2 .. MaxSpawns : phase'[<<u, m>>] = "unborn"
  BY <1>2, <1>3, <1>4
<1>6. entries'[u].status = "running" /\ inflight'[u].run = 1
  BY DEF TypeOK, Submit, Spawn
<1>7. \A t \in Tasks : t # u => entries'[t] = entries[t] /\ inflight'[t] = inflight[t]
  BY DEF TypeOK, Submit, Spawn
<1>8. \A t \in Tasks : t # u => /\ phase'[<<t, 1>>] = phase[<<t, 1>>]
                                /\ \A m \in 2 .. MaxSpawns : phase'[<<t, m>>] = phase[<<t, m>>]
  BY <1>2, <1>3
<1> QED
  BY <1>1, <1>5, <1>6, <1>7, <1>8 DEF FreshTracked, Executing

\* The fresh runs of a chat are among the runs submit counts.
LEMMA FreshAreActive ==
    ASSUME TypeOK, FreshTracked, hub # "drained", NEW c
    PROVE  FreshRuns(c) \subseteq ActiveIn(c)
BY DEF FreshTracked, FreshRuns, ActiveIn, Live, Executing

\* Sets of tasks are finite, and smaller sets have fewer elements.
LEMMA TaskSets ==
    ASSUME NEW S \in SUBSET Tasks, NEW T \in SUBSET S
    PROVE  /\ IsFiniteSet(S) /\ IsFiniteSet(T)
           /\ Cardinality(S) \in Nat /\ Cardinality(T) \in Nat
           /\ Cardinality(T) <= Cardinality(S)
<1>1. IsFiniteSet(S)
  BY TaskHubAssumption, FS_Subset
<1>2. IsFiniteSet(T)
  BY <1>1, FS_Subset
<1> QED
  BY <1>1, <1>2, FS_Subset, FS_CardinalityType

\* The submissions of a chat never have more than max_parallel CLI calls ahead or
\* under way: submit counts in-flight keys, and the key of a fresh run is its own.
THEOREM AdmissionBounded == Spec => []AdmissionBound
<1> DEFINE IInv == TypeOK /\ FreshTracked /\ AdmissionBound
<1>1. Init => FreshTracked /\ AdmissionBound
  <2> SUFFICES ASSUME Init PROVE FreshTracked /\ AdmissionBound
    OBVIOUS
  <2>1. \A t \in Tasks : ~Executing(<<t, 1>>)
    BY RunPairs, TaskHubAssumption DEF Init, Executing
  <2>2. \A c \in Chats : FreshRuns(c) = {}
    BY <2>1 DEF FreshRuns
  <2>3. Cardinality({}) = 0 /\ MaxParallel >= 0
    BY FS_EmptySet, TaskHubAssumption
  <2> QED
    BY <2>1, <2>2, <2>3 DEF FreshTracked, AdmissionBound
<1>2. TypeOK /\ FreshTracked /\ AdmissionBound /\ [Next]_vars /\ TypeOK'
        => FreshTracked' /\ AdmissionBound'
  <2> SUFFICES ASSUME TypeOK, FreshTracked, AdmissionBound, [Next]_vars
               PROVE  FreshTracked' /\ AdmissionBound'
    OBVIOUS
  <2>1. CASE \E t \in Tasks, override \in BOOLEAN : Submit(t, override)
    <3>1. PICK u \in Tasks, override \in BOOLEAN : Submit(u, override)
      BY <2>1
    <3>2. FreshTracked' /\ hub' = hub
      BY <3>1, SubmitFresh
    <3>3. ASSUME hub' # "drained", NEW c \in Chats
          PROVE  Cardinality(FreshRuns(c)') <= MaxParallel
      <4>1. hub # "drained" /\ Cardinality(FreshRuns(c)) <= MaxParallel
        BY <3>2, <3>3 DEF AdmissionBound
      <4>2. FreshRuns(c)' \subseteq FreshRuns(c) \cup {u}
        BY <3>1, SubmitFresh DEF FreshRuns
      <4>3. CASE ChatOf[u] # c
        <5>1. FreshRuns(c)' \subseteq FreshRuns(c)
          BY <4>2, <4>3 DEF FreshRuns
        <5>2. FreshRuns(c) \in SUBSET Tasks
          BY DEF FreshRuns
        <5>3. MaxParallel \in Nat
          BY TaskHubAssumption
        <5>4. /\ Cardinality(FreshRuns(c)') <= Cardinality(FreshRuns(c))
              /\ Cardinality(FreshRuns(c)') \in Nat
              /\ Cardinality(FreshRuns(c)) \in Nat
          BY <5>1, <5>2, TaskSets
        <5> QED
          BY <4>1, <5>3, <5>4
      <4>4. CASE ChatOf[u] = c
        <5>1. Cardinality(ActiveIn(c)) < MaxParallel
          BY <3>1, <4>4 DEF Submit
        <5>2. ActiveIn(c) \in SUBSET Tasks
          BY DEF ActiveIn
        <5>3. FreshRuns(c)' \subseteq ActiveIn(c) \cup {u}
          BY <4>1, <4>2, FreshAreActive
        <5>4. IsFiniteSet(ActiveIn(c)) /\ Cardinality(ActiveIn(c)) \in Nat
          BY <5>2, TaskSets
        <5>5. Cardinality(ActiveIn(c) \cup {u}) <= Cardinality(ActiveIn(c)) + 1
          <6>1. Cardinality(ActiveIn(c) \cup {u})
                  = IF u \in ActiveIn(c) THEN Cardinality(ActiveIn(c))
                                          ELSE Cardinality(ActiveIn(c)) + 1
            BY <5>4, FS_AddElement
          <6> QED
            BY <5>4, <6>1
        <5>6. /\ Cardinality(FreshRuns(c)') <= Cardinality(ActiveIn(c) \cup {u})
              /\ Cardinality(FreshRuns(c)') \in Nat
              /\ Cardinality(ActiveIn(c) \cup {u}) \in Nat
          <6>1. ActiveIn(c) \cup {u} \in SUBSET Tasks
            BY <5>2
          <6> QED
            BY <5>3, <6>1, TaskSets
        <5>7. MaxParallel \in Nat
          BY TaskHubAssumption
        <5> QED
          BY <5>1, <5>4, <5>5, <5>6, <5>7
      <4> QED
        BY <4>3, <4>4
    <3> QED
      BY <3>2, <3>3 DEF AdmissionBound
  <2>2. CASE ~ \E t \in Tasks, override \in BOOLEAN : Submit(t, override)
    <3>1. FreshTracked' /\ \A t \in Tasks : Executing(<<t, 1>>)' => Executing(<<t, 1>>)
      BY <2>2, StepFresh
    <3>2. ASSUME hub # "drained", NEW c \in Chats
          PROVE  Cardinality(FreshRuns(c)') <= MaxParallel
      <4>1. FreshRuns(c)' \subseteq FreshRuns(c) /\ FreshRuns(c) \in SUBSET Tasks
        BY <3>1 DEF FreshRuns
      <4>2. Cardinality(FreshRuns(c)) <= MaxParallel
        BY <3>2 DEF AdmissionBound
      <4>3. MaxParallel \in Nat
        BY TaskHubAssumption
      <4> QED
        BY <4>1, <4>2, <4>3, TaskSets
    <3>3. CASE hub = "drained" /\ hub' # "drained"
      <4>1. hub' = "down"
        BY <3>3 DEF Next, vars, Requests, RunStep, CliEnds, Lifecycle, Delete, CleanupFinished,
              CleanupOld, Remove, Submit, Resume, Spawn, ForwardQuestion, Cancel, CancelAll,
              FirstStep, CliReturns, CliRaises, RunCancelled, RunDropped, DeliveryReturns,
              DoneCallback, Maintenance, Shutdown, ShutdownReturns, Exit, Crash, CrashInCreate,
              CrashInRemove, Die, Restart, FolderVanishes
      <4>2. \A c \in Chats : FreshRuns(c)' = {}
        BY <3>1, <4>1 DEF FreshTracked, FreshRuns
      <4>3. Cardinality({}) = 0 /\ MaxParallel \in Nat
        BY FS_EmptySet, TaskHubAssumption
      <4> QED
        BY <3>1, <4>2, <4>3 DEF AdmissionBound
    <3> QED
      BY <3>1, <3>2, <3>3 DEF AdmissionBound
  <2> QED
    BY <2>1, <2>2
<1> QED
  BY <1>1, <1>2, TypeCorrect, PTL DEF Spec

-----------------------------------------------------------------------------
(***************************************************************************)
(* What the hub keeps while its callers wait                               *)
(*                                                                         *)
(* Most properties hold only as long as nobody calls at some moment the    *)
(* code does not guard; the theorems name these moments.  None of the      *)
(* properties is inductive by itself: which runs may still write, which    *)
(* cancellations are on their way and what the file says have to be known. *)
(***************************************************************************)

\* Nobody calls at this moment.
Shut(w) == w \notin Windows
\* A run cancelled while it delivers does not write behind the back of a later one.
NoLateWrite == Shut("resume_while_delivering") \/ Shut("cancel_while_delivering")

RunsAlone ==
    Shut("resume_while_delivering") =>
        \A t \in Tasks : \A r, s \in RunsOf(t) : Open(r) /\ Open(s) => r = s

CancelsLand ==
    \A r \in cancelling :
        /\ Live(r)
        /\ Shut("cancel_while_delivering") => Executing(r)
        /\ Shut("cancel_before_start") => phase[r] # "created"

DownIsEmpty ==
    hub = "down" => (\A r \in Runs : ~Open(r)) /\ (\A t \in Tasks : entries[t] = NoEntry)

\* The file is the registry, but for tasks a dead process left running.
Books ==
    /\ \A t \in Tasks : /\ entries[t].status = "absent" => entries[t] = NoEntry
                        /\ disk[t].status = "absent" => disk[t] = NoEntry
                        /\ Present(t) \/ disk[t].status # "absent" => Spawned(t) # {}
    /\ hub # "down" => \A t \in Tasks :
          \/ disk[t] = entries[t]
          \/ /\ disk[t].status = "running" /\ news[t] = "none"
             /\ entries[t] = [disk[t] EXCEPT !.status = "failed"]

\* A run writes its outcome once its CLI call is over.
RunsRead ==
    NoLateWrite => \A t \in Tasks : \A r \in RunsOf(t) :
        Executing(r) => entries[t].status \in {"running", "absent"}
Singly == NoLateWrite => OneRunAtATime

\* Folder and entry: also what the next start will find.
Folders ==
    /\ FoldersMatch
    /\ hub = "down" => \A t \in folders : disk[t].status = "absent" => t \in torn
    /\ Shut("folder_vanishes") => gone = {}

\* Nothing leaves a task running: no body is dropped before its first step, and no
\* registry entry of a run goes.
Bodies ==
    NoLateWrite /\ Shut("cancel_before_start") /\ Shut("folder_vanishes") => RunningIffRun

\* Two open runs of a task are both known to be.
Joins ==
    \A t \in Tasks : \A r, s \in RunsOf(t) : Open(r) /\ Open(s) /\ r # s => r \in joined
Tracks == Joins /\ LiveRunsTracked

\* Shutdown awaits the runs it found in the table.
AwaitsAll ==
    /\ hub = "stopping" => \A r \in Runs : Live(r) => r \in awaited \cup joined \cup late
    /\ ShutdownLeavesNoRun

\* The first run of a task reports to a parent that has heard nothing, and a later one
\* finds its provider recorded.
FirstNews ==
    \A t \in Tasks :
        /\ Executing(<<t, 1>>) => news[t] = "none"
        /\ \A n \in 2 .. MaxSpawns :
              phase[<<t, n>>] = "created" /\ Present(t) => entries[t].provider
        /\ news[t] # "running" /\ (t \in Unheard => news[t] = "none")
NewsOnDisk ==
    hub = "down" => \A t \in Tasks :
        disk[t].status # "absent" /\ news[t] # "none" => disk[t].status = news[t]

StateInv == TypeOK /\ FreshTracked /\ RunsAlone /\ CancelsLand /\ DownIsEmpty /\ Books
HubInv ==
    /\ StateInv
    /\ RunsRead /\ Singly /\ Folders /\ Bodies /\ Tracks /\ AwaitsAll
    /\ FirstNews /\ NewsOnDisk /\ ParentKnows

-----------------------------------------------------------------------------
(* What steps do *)

\* update_status with status s, as far as the invariants can tell.
Writes(t, s) ==
    /\ \A u \in Tasks : u # t => entries'[u] = entries[u]
    /\ \/ entries' = entries /\ disk' = disk /\ ~Present(t)
       \/ /\ disk' = entries' /\ Present(t)
          /\ entries'[t].status = s
          /\ entries[t].provider => entries'[t].provider

Starts(r) ==
    /\ phase[r] = "created" /\ phase'[r] = "executing" /\ r \notin cancelling
    /\ UNCHANGED <<cancelling, inflight, news, marks>>
    /\ \/ entries' = entries /\ disk' = disk
       \/ ~entries[r[1]].provider /\ Writes(r[1], "running")
Ends(r, s) ==
    /\ \/ phase[r] = "executing" /\ r \notin cancelling
       \/ phase[r] \in {"executing", "delivering"} /\ r \in cancelling
    /\ phase'[r] \in {"delivering", "closing", "finished"}
    /\ cancelling' = cancelling \ {r} /\ inflight' = inflight /\ marks' = marks
    /\ Writes(r[1], s)
    /\ \/ r[1] \notin Unheard /\ news' = [news EXCEPT ![r[1]] = s]
       \/ r[1] \in Unheard /\ news' = news
Drops(r) ==
    /\ phase[r] \in {"created", "delivering", "closing"} /\ phase'[r] = "finished"
    /\ phase[r] = "created" => r \in cancelling
    /\ cancelling' = cancelling \ {r}
    /\ UNCHANGED <<entries, disk, inflight, news, marks>>
Leaves(r) ==
    /\ phase[r] = "finished" /\ phase'[r] = "ended"
    /\ inflight' = [inflight EXCEPT ![r[1]] = NotInFlight]
    /\ joined' = joined \ {r} /\ late' = late \ {r}
    /\ UNCHANGED <<entries, disk, cancelling, news, torn, gone>>

LEMMA UpdateWrites ==
    ASSUME TypeOK, NEW t \in Tasks, NEW s, NEW e \in Entry, UpdateStatus(t, e), e.status = s,
           entries[t].provider => e.provider
    PROVE  Writes(t, s)
BY DEF TypeOK, UpdateStatus, Writes, Persist

LEMMA DeliverNews ==
    ASSUME TypeOK, NEW r \in Runs, NEW s, NEW next \in {"delivering", "closing"}, Deliver(r, s, next)
    PROVE  /\ phase'[r] \in {"delivering", "closing", "finished"}
           /\ \/ r[1] \notin Unheard /\ news' = [news EXCEPT ![r[1]] = s]
              \/ r[1] \in Unheard /\ news' = news
BY DEF TypeOK, Deliver

\* The steps of a run.
LEMMA RunMoves ==
    ASSUME TypeOK, NEW r \in Runs, RunStep(r)
    PROVE  /\ \A q \in Runs : q # r => phase'[q] = phase[q]
           /\ UNCHANGED <<hub, folders, awaited>>
           /\ \/ Starts(r) \/ Drops(r) \/ Leaves(r)
              \/ \E s \in {"waiting", "done", "failed", "cancelled"} : Ends(r, s)
<1> DEFINE t == r[1]
           Goal == /\ \A q \in Runs : q # r => phase'[q] = phase[q]
                   /\ UNCHANGED <<hub, folders, awaited>>
                   /\ \/ Starts(r) \/ Drops(r) \/ Leaves(r)
                      \/ \E s \in {"waiting", "done", "failed", "cancelled"} : Ends(r, s)
<1>0. t \in Tasks /\ entries[t] \in Entry
  BY RunPairs DEF TypeOK
<1>1. CASE FirstStep(r)
  <2>1. (entries' = entries /\ disk' = disk) \/ (~entries[t].provider /\ Writes(t, "running"))
    <3>1. [entries[t] EXCEPT !.status = "running", !.provider = TRUE] \in Entry
          /\ [entries[t] EXCEPT !.status = "running", !.provider = TRUE].status = "running"
          /\ [entries[t] EXCEPT !.status = "running", !.provider = TRUE].provider
      BY <1>0 DEF Entry, Statuses
    <3>2. QED
      BY <1>0, <1>1, <3>1, UpdateWrites DEF FirstStep
  <2>2. QED
    BY <1>1, <2>1 DEF FirstStep, Starts, TypeOK
<1>2. ASSUME CliEnds(r)
      PROVE  Goal
  <2>1. ASSUME NEW ok \in BOOLEAN, NEW session \in BOOLEAN, CliReturns(r, ok, session)
        PROVE  Goal
    <3>1. PICK s \in {"failed", "waiting", "done"} :
             /\ UpdateStatus(t, [entries[t] EXCEPT !.status = s, !.session = session])
             /\ Deliver(r, s, "delivering")
      BY <2>1 DEF CliReturns
    <3>2. LET e == [entries[t] EXCEPT !.status = s, !.session = session] IN
          e \in Entry /\ e.status = s /\ e.provider = entries[t].provider
      BY <1>0 DEF Entry, Statuses
    <3>3. Writes(t, s)
      BY <1>0, <3>1, <3>2, UpdateWrites
    <3>4. Ends(r, s)
      BY <2>1, <3>1, <3>3, DeliverNews DEF CliReturns, Ends
    <3>5. QED
      BY <2>1, <3>1, <3>4, DeliverPhase DEF CliReturns
  <2>2. ASSUME NEW s \in {"failed", "cancelled"},
               UpdateStatus(t, [entries[t] EXCEPT !.status = s])
        PROVE  Writes(t, s)
    <3>1. LET e == [entries[t] EXCEPT !.status = s] IN
          e \in Entry /\ e.status = s /\ e.provider = entries[t].provider
      BY <1>0 DEF Entry, Statuses
    <3>2. QED
      BY <1>0, <2>2, <3>1, UpdateWrites
  <2>3. CASE CliRaises(r)
    <3>1. Ends(r, "failed")
      BY <2>2, <2>3, DeliverNews DEF CliRaises, Ends
    <3>2. QED
      BY <2>3, <3>1, DeliverPhase DEF CliRaises
  <2>4. CASE RunCancelled(r)
    <3>1. Ends(r, "cancelled")
      BY <2>2, <2>4, DeliverNews DEF RunCancelled, Ends
    <3>2. QED
      BY <2>4, <3>1, DeliverPhase DEF RunCancelled
  <2>5. QED
    BY <1>2, <2>1, <2>3, <2>4 DEF CliEnds
<1>3. CASE RunDropped(r)
  BY <1>3 DEF RunDropped, Drops, TypeOK
<1>4. CASE DeliveryReturns(r)
  BY <1>4 DEF DeliveryReturns, Drops, TypeOK
<1>5. CASE DoneCallback(r)
  BY <1>5 DEF DoneCallback, Leaves, TypeOK
<1>6. QED
  BY <1>1, <1>2, <1>3, <1>4, <1>5 DEF RunStep

\* What a spawn notes of the runs.
Marked(r) ==
    /\ joined \subseteq joined' /\ late \subseteq late' /\ (hub # "up" => r \in late')
    /\ \A q \in RunsOf(r[1]) : Open(q) => q \in joined' /\ r \in joined'

\* A run comes into being.
LEMMA Spawning ==
    ASSUME TypeOK, NEW t \in Tasks, NEW n \in 1 .. MaxSpawns, Spawn(t, n)
    PROVE  /\ <<t, n>> \in Runs /\ phase'[<<t, n>>] = "created"
           /\ \A q \in Runs : q # <<t, n>> => phase'[q] = phase[q]
           /\ inflight'[t].run = n /\ news'[t] = "none"
           /\ \A u \in Tasks : u # t => inflight'[u] = inflight[u] /\ news'[u] = news[u]
           /\ UNCHANGED <<hub, cancelling, awaited, torn, gone>>
           /\ Marked(<<t, n>>)
BY RunPairs DEF TypeOK, Spawn, Mark, Marked

LEMMA Unborn == \A t \in Tasks : \A n \in 1 .. MaxSpawns : n \notin Spawned(t) <=> phase[<<t, n>>] = "unborn"
BY DEF Spawned

LEMMA ServingUp == Serving => hub # "down" /\ (Shut("request_while_stopping") => hub = "up")
BY DEF Serving, Shut

LEMMA Submits ==
    ASSUME TypeOK, NEW t \in Tasks, NEW o \in BOOLEAN, Submit(t, o)
    PROVE  /\ Serving /\ Spawn(t, 1) /\ 1 \in 1 .. MaxSpawns
           /\ \A r \in RunsOf(t) : phase[r] = "unborn"
           /\ entries'[t] = [status |-> "running", session |-> FALSE, provider |-> o]
           /\ \A u \in Tasks : u # t => entries'[u] = entries[u]
           /\ disk' = entries' /\ folders' = folders \cup {t}
<1>1. \A r \in RunsOf(t) : phase[r] = "unborn"
  <2>1. \A n \in 1 .. MaxSpawns : phase[<<t, n>>] = "unborn"
    BY DEF Submit, Spawned
  <2>2. QED
    BY <2>1 DEF RunsOf
<1>2. QED
  BY <1>1, TaskHubAssumption DEF TypeOK, Submit, Persist

LEMMA Resumes ==
    ASSUME TypeOK, NEW t \in Tasks, NEW n \in 2 .. MaxSpawns, Resume(t, n)
    PROVE  /\ Serving /\ Spawn(t, n) /\ n \in 1 .. MaxSpawns /\ phase[<<t, n>>] = "unborn"
           /\ entries[t].status \in Resumable /\ Present(t) /\ entries[t].provider
           /\ Writes(t, "running") /\ folders' = folders /\ Spawned(t) # {}
           /\ Shut("resume_while_delivering") => \A r \in RunsOf(t) : ~Open(r)
<1>1. entries[t] \in Entry
  BY DEF TypeOK
<1>2. LET e == [entries[t] EXCEPT !.status = "running"] IN
      e \in Entry /\ e.status = "running" /\ e.provider = entries[t].provider
  BY <1>1 DEF Entry, Statuses
<1>3. Writes(t, "running")
  BY <1>2, UpdateWrites DEF Resume
<1>4. entries[t].status \in Resumable /\ Present(t)
  BY DEF Resume, Resumable, Finished
<1>5. n \in 1 .. MaxSpawns /\ n \notin Spawned(t) /\ Spawned(t) # {}
  <2>1. Spawned(t) = 1 .. (n - 1)
    BY DEF Resume
  <2>2. n \in Nat /\ n > 1 /\ n \in 1 .. MaxSpawns
    BY TaskHubAssumption
  <2>3. 1 \in 1 .. (n - 1) /\ n \notin 1 .. (n - 1)
    BY <2>2
  <2>4. QED
    BY <2>1, <2>2, <2>3
<1>6. phase[<<t, n>>] = "unborn"
  BY <1>5, Unborn
<1>7. QED
  BY <1>3, <1>4, <1>5, <1>6 DEF Resume, Shut, Open

Cancels ==
    /\ UNCHANGED <<entries, disk, folders, inflight, phase, news, marks>>
    /\ cancelling \subseteq cancelling'
    /\ \A r \in cancelling' \ cancelling : r \in Runs /\ Live(r) /\ Cancellable(r)
    /\ \/ hub' = hub /\ awaited' = awaited /\ hub # "down"
       \/ hub = "up" /\ hub' = "stopping" /\ awaited' = {RunOf(t) : t \in Active}

\* A request that lets entries go, or asks the parent.
Drop(S) == S \in SUBSET FinishedTasks /\ Remove(S) /\ hub # "down"

Dies ==
    /\ Die /\ disk' = disk /\ hub # "down"
    /\ \/ RunsEnd({}) /\ folders' = folders /\ torn' = torn
       \/ \E t \in Tasks : /\ Spawned(t) = {} /\ RunsEnd({<<t, 1>>})
                             /\ folders' = folders \cup {t} /\ torn' = torn \cup {t}
       \/ \E S \in SUBSET FinishedTasks : folders' = folders \ S /\ RunsEnd({}) /\ torn' = torn

LEMMA StepCases ==
    ASSUME TypeOK, [Next]_vars
    PROVE  \/ \E t \in Tasks, o \in BOOLEAN : Submit(t, o)
           \/ \E t \in Tasks, n \in 2 .. MaxSpawns : Resume(t, n)
           \/ \E r \in Runs : RunStep(r)
           \/ \E r \in Runs : ForwardQuestion(r)
           \/ Cancels
           \/ \E S : Drop(S)
           \/ Maintenance \/ ShutdownReturns \/ Restart
           \/ \E t \in Tasks : FolderVanishes(t)
           \/ Dies
           \/ UNCHANGED vars
<1>1. ASSUME NEW S \in SUBSET Active, CancelRuns(S)
      PROVE  /\ cancelling \subseteq cancelling'
             /\ \A r \in cancelling' \ cancelling : r \in Runs /\ Live(r) /\ Cancellable(r)
  <2>1. \A t \in S : RunOf(t) \in Runs /\ Live(RunOf(t))
    BY ActiveRuns DEF Active
  <2>2. QED
    BY <1>1, <2>1 DEF CancelRuns
<1>2. ASSUME NEW t \in Tasks, Cancel(t)
      PROVE  Cancels
  BY <1>1, <1>2, ServingUp DEF Cancel, Cancels
<1>3. ASSUME NEW c \in Chats, CancelAll(c)
      PROVE  Cancels
  <2>1. ActiveIn(c) \in SUBSET Active
    BY DEF ActiveIn, Active
  <2>2. QED
    BY <1>1, <1>3, <2>1, ServingUp DEF CancelAll, Cancels
<1>4. ASSUME Shutdown
      PROVE  Cancels
  BY <1>1, <1>4 DEF Shutdown, Cancels
<1>5. ASSUME \/ \E t \in Tasks : Delete(t)
             \/ \E c \in Chats : CleanupFinished(c)
             \/ \E S \in SUBSET Tasks : CleanupOld(S)
      PROVE  \E S : Drop(S)
  <2>1. PICK S \in SUBSET FinishedTasks : Remove(S) /\ (Serving \/ hub = "up")
    <3>1. CASE \E t \in Tasks : Delete(t)
      BY <3>1 DEF Delete
    <3>2. CASE \E c \in Chats : CleanupFinished(c)
      BY <3>2 DEF CleanupFinished
    <3>3. CASE \E S \in SUBSET Tasks : CleanupOld(S)
      BY <3>3 DEF CleanupOld
    <3>4. QED
      BY <1>5, <3>1, <3>2, <3>3
  <2>2. QED
    BY <2>1, ServingUp DEF Drop
<1>6. ASSUME Exit \/ Crash \/ (\E t \in Tasks : CrashInCreate(t))
             \/ \E S \in SUBSET Tasks : CrashInRemove(S)
      PROVE  Dies
  BY <1>6, ServingUp DEF Exit, Crash, CrashInCreate, CrashInRemove, Dies
<1>7. QED
  BY <1>2, <1>3, <1>4, <1>5, <1>6 DEF Next, Requests, Lifecycle

-----------------------------------------------------------------------------
(* Runs, cancellations, file *)

\* Only a spawn opens a run.
LEMMA OpenFalls ==
    ASSUME TypeOK, [Next]_vars,
           ~ \E t \in Tasks, o \in BOOLEAN : Submit(t, o),
           ~ \E t \in Tasks, n \in 2 .. MaxSpawns : Resume(t, n),
           NEW r \in Runs
    PROVE  /\ Open(r)' => Open(r)
           /\ Live(r)' => Live(r)
           /\ Executing(r)' => Executing(r)
           /\ phase'[r] = "created" => phase[r] = "created"
           /\ phase[r] # "unborn" => phase'[r] # "unborn"
<1> USE DEF Open, Live, Executing
<1>1. CASE \E q \in Runs : RunStep(q)
  <2>1. PICK q \in Runs : RunStep(q)
    BY <1>1
  <2>2. CASE q = r
    BY <2>1, <2>2, RunMoves DEF Starts, Ends, Drops, Leaves
  <2>3. CASE q # r
    BY <2>1, <2>3, RunMoves
  <2>4. QED
    BY <2>2, <2>3
<1>2. CASE Dies
  <2>1. PICK S : RunsEnd(S)
    BY <1>2 DEF Dies
  <2>2. phase'[r] = "ended" \/ (phase'[r] = "unborn" /\ phase[r] = "unborn")
    BY <2>1 DEF RunsEnd
  <2>3. QED
    BY <2>2
<1>3. CASE phase' = phase
  BY <1>3
<1>4. QED
  BY <1>1, <1>2, <1>3, StepCases
     DEF ForwardQuestion, Cancels, Drop, Remove, Maintenance, ShutdownReturns, Restart,
         FolderVanishes, vars

\* Besides a spawn, only its own steps move a run, and the end of the process.
LEMMA RunsAloneKept ==
    ASSUME TypeOK, RunsAlone, [Next]_vars
    PROVE  RunsAlone'
<1> SUFFICES ASSUME Shut("resume_while_delivering"), NEW t \in Tasks,
                    NEW r \in RunsOf(t), NEW s \in RunsOf(t), Open(r)', Open(s)'
             PROVE  r = s
  BY DEF RunsAlone, Shut
<1>1. r \in Runs /\ s \in Runs /\ r[1] = t /\ s[1] = t
  BY RunsOfTask
<1>2. ASSUME NEW u \in Tasks, NEW n \in 1 .. MaxSpawns, Spawn(u, n),
             \A q \in RunsOf(u) : ~Open(q)
      PROVE  r = s
  <2>1. \A q \in Runs : q # <<u, n>> => phase'[q] = phase[q]
    BY <1>2, Spawning
  <2>2. CASE t = u
    BY <1>1, <1>2, <2>1, <2>2 DEF Open
  <2>3. CASE t # u
    BY <1>1, <2>1, <2>3 DEF RunsAlone, Open
  <2>4. QED
    BY <2>2, <2>3
<1>3. CASE \E u \in Tasks, o \in BOOLEAN : Submit(u, o)
  BY <1>2, <1>3, Submits DEF Open
<1>4. CASE \E u \in Tasks, n \in 2 .. MaxSpawns : Resume(u, n)
  BY <1>2, <1>4, Resumes
<1>5. QED
  BY <1>1, <1>3, <1>4, OpenFalls DEF RunsAlone

LEMMA CancelsLandKept ==
    ASSUME TypeOK, CancelsLand, [Next]_vars
    PROVE  CancelsLand'
<1> DEFINE Lands(r) == /\ Live(r)
                       /\ Shut("cancel_while_delivering") => Executing(r)
                       /\ Shut("cancel_before_start") => phase[r] # "created"
<1>0. cancelling \subseteq Runs /\ \A r \in cancelling : Lands(r)
  BY DEF TypeOK, CancelsLand
<1>1. SUFFICES ASSUME NEW r \in cancelling'
               PROVE  Lands(r)'
  BY DEF CancelsLand, Shut
<1>2. ASSUME r \in cancelling, phase'[r] = phase[r]
      PROVE  Lands(r)'
  BY <1>0, <1>2 DEF Live, Executing, Shut
<1>3. ASSUME NEW u \in Tasks, NEW n \in 1 .. MaxSpawns, Spawn(u, n), phase[<<u, n>>] = "unborn"
      PROVE  Lands(r)'
  <2>1. r \in cancelling /\ r # <<u, n>>
    BY <1>0, <1>3, Spawning DEF Live
  <2>2. QED
    BY <1>0, <1>2, <1>3, <2>1, Spawning
<1>4. CASE \E u \in Tasks, o \in BOOLEAN : Submit(u, o)
  <2>1. PICK u \in Tasks, o \in BOOLEAN : Submit(u, o)
    BY <1>4
  <2>2. phase[<<u, 1>>] = "unborn"
    BY <2>1, Submits DEF RunsOf
  <2>3. QED
    BY <1>3, <2>1, <2>2, Submits
<1>5. CASE \E u \in Tasks, n \in 2 .. MaxSpawns : Resume(u, n)
  BY <1>3, <1>5, Resumes
<1>6. CASE \E q \in Runs : RunStep(q)
  <2>1. PICK q \in Runs : RunStep(q)
    BY <1>6
  <2>2. r \in cancelling /\ r # q
    BY <1>0, <2>1, RunMoves DEF Starts, Ends, Drops, Leaves, Live
  <2>3. QED
    BY <1>0, <1>2, <2>1, <2>2, RunMoves
<1>7. CASE Cancels
  <2>1. CASE r \in cancelling
    BY <1>2, <1>7, <2>1 DEF Cancels
  <2>2. CASE r \notin cancelling
    BY <1>7, <2>2 DEF Cancels, Cancellable, Live, Executing, Shut
  <2>3. QED
    BY <2>1, <2>2
<1>8. CASE Dies
  BY <1>8 DEF Dies, Die
<1>9. CASE cancelling' = cancelling /\ phase' = phase
  BY <1>2, <1>9
<1>10. QED
  BY <1>4, <1>5, <1>6, <1>7, <1>8, <1>9, StepCases
     DEF ForwardQuestion, Drop, Remove, Maintenance, ShutdownReturns, Restart, FolderVanishes, vars

LEMMA DownIsEmptyKept ==
    ASSUME TypeOK, DownIsEmpty, [Next]_vars
    PROVE  DownIsEmpty'
<1> SUFFICES ASSUME hub' = "down"
             PROVE  (\A r \in Runs : ~Open(r)') /\ (\A t \in Tasks : entries'[t] = NoEntry)
  BY DEF DownIsEmpty
<1>1. CASE Dies
  <2>1. PICK S : RunsEnd(S) /\ Die
    BY <1>1 DEF Dies
  <2>2. QED
    BY <2>1 DEF RunsEnd, Die, Open
<1>2. CASE \E r \in Runs : RunStep(r)
  <2>1. PICK r \in Runs : RunStep(r)
    BY <1>2
  <2>2. hub = "down" /\ Open(r)
    BY <2>1, RunMoves DEF Starts, Ends, Drops, Leaves, Open
  <2>3. QED
    BY <2>2 DEF DownIsEmpty
<1>3. CASE \/ \E t \in Tasks, o \in BOOLEAN : Submit(t, o)
           \/ \E t \in Tasks, n \in 2 .. MaxSpawns : Resume(t, n)
  BY <1>3, ServingUp DEF Submit, Resume, Spawn
<1>4. CASE \E t \in Tasks : FolderVanishes(t)
  BY <1>4 DEF DownIsEmpty, FolderVanishes, Open
<1>5. CASE UNCHANGED vars
  BY <1>5 DEF DownIsEmpty, vars, Open
<1>6. CASE Maintenance
  BY <1>6 DEF Maintenance
<1>7. QED
  BY <1>1, <1>2, <1>3, <1>4, <1>5, <1>6, StepCases
     DEF ForwardQuestion, Drop, Remove, Cancels, ShutdownReturns, Restart

\* cleanup_orphans drops the entries without a folder and saves if it dropped any.
LEMMA Cleanup ==
    ASSUME NEW e \in [Tasks -> Entry], \A t \in Tasks : e[t].status = "absent" => e[t] = NoEntry,
           CleanupOrphans(e), folders \subseteq Tasks
    PROVE  /\ entries' \in [Tasks -> Entry]
           /\ folders' \subseteq folders
           /\ \A t \in Tasks : entries'[t].status # "absent" => t \in folders'
           /\ \A t \in folders' : entries'[t].status = "absent" =>
                                     e[t].status = "absent" /\ DirOf[t] # DefaultDir
           /\ \A t \in Tasks : entries'[t] = e[t] \/ (entries'[t] = NoEntry /\ t \notin folders)
           /\ disk' = entries' \/ (disk' = disk /\ \A t \in Tasks : entries'[t] = e[t])
<1> DEFINE had     == {t \in Tasks : e[t].status # "absent"}
           kept    == had \cap folders
           scanned == {DefaultDir} \cup {DirOf[t] : t \in kept}
           stray   == {t \in folders \ kept : DirOf[t] \in scanned}
<1>1. /\ entries' = [t \in Tasks |-> IF t \in kept THEN e[t] ELSE NoEntry]
      /\ folders' = folders \ stray
      /\ IF kept # had \/ stray # {} THEN disk' = entries' ELSE disk' = disk
  BY DEF CleanupOrphans, Persist
<1>2. entries' \in [Tasks -> Entry] /\ NoEntry.status = "absent"
  BY <1>1, EntryUpdates DEF NoEntry
<1>3. /\ folders' \subseteq folders
      /\ \A t \in Tasks : entries'[t].status # "absent" => t \in folders'
      /\ \A t \in folders' : entries'[t].status = "absent" =>
                                e[t].status = "absent" /\ DirOf[t] # DefaultDir
  BY <1>1, <1>2
<1>4. \A t \in Tasks : entries'[t] = e[t] \/ (entries'[t] = NoEntry /\ t \notin folders)
  BY <1>1
<1>5. kept = had => \A t \in Tasks : entries'[t] = e[t]
  BY <1>1
<1>6. QED
  BY <1>1, <1>2, <1>3, <1>4, <1>5

\* Loading changes the entries of tasks left running, and no others.
LEMMA LoadedIs ==
    ASSUME TypeOK, \A t \in Tasks : disk[t].status = "absent" => disk[t] = NoEntry
    PROVE  /\ Loaded \in [Tasks -> Entry]
           /\ \A t \in Tasks : Loaded[t].status = "absent" => Loaded[t] = NoEntry
           /\ \A t \in Tasks : IF disk[t].status = "running"
                               THEN /\ Loaded[t] = [disk[t] EXCEPT !.status = "failed"]
                                    /\ Loaded[t].status = "failed"
                               ELSE Loaded[t] = disk[t]
<1>1. Loaded \in [Tasks -> Entry]
  BY LoadedType
<1>2. \A t \in Tasks : disk[t] \in Entry
  BY DEF TypeOK
<1>3. \A t \in Tasks : IF disk[t].status = "running"
                       THEN /\ Loaded[t] = [disk[t] EXCEPT !.status = "failed"]
                            /\ Loaded[t].status = "failed"
                       ELSE Loaded[t] = disk[t]
  BY <1>2 DEF Loaded, Entry
<1>4. QED
  BY <1>1, <1>3

\* A spawned task stays spawned.
LEMMA SpawnedGrows ==
    ASSUME TypeOK, [Next]_vars, NEW t \in Tasks, Spawned(t) # {}
    PROVE  Spawned(t)' # {}
<1>1. PICK n \in 1 .. MaxSpawns : phase[<<t, n>>] # "unborn"
  BY DEF Spawned
<1>2. PICK r \in Runs : r = <<t, n>>
  BY RunPairs
<1> SUFFICES phase'[r] # "unborn"
  BY <1>2 DEF Spawned
<1>3. ASSUME NEW u \in Tasks, NEW m \in 1 .. MaxSpawns, Spawn(u, m)
      PROVE  phase'[r] # "unborn"
  <2>1. CASE r = <<u, m>>
    BY <1>3, <2>1, Spawning
  <2>2. CASE r # <<u, m>>
    BY <1>1, <1>2, <1>3, <2>2, Spawning
  <2>3. QED
    BY <2>1, <2>2
<1>4. CASE \E u \in Tasks, o \in BOOLEAN : Submit(u, o)
  BY <1>3, <1>4, Submits
<1>5. CASE \E u \in Tasks, m \in 2 .. MaxSpawns : Resume(u, m)
  BY <1>3, <1>5, Resumes
<1>6. QED
  BY <1>1, <1>2, <1>4, <1>5, OpenFalls


LEMMA BooksKept ==
    ASSUME TypeOK, TypeOK', Books, DownIsEmpty, NewsOnDisk, \A t \in Tasks : news[t] # "running",
           [Next]_vars
    PROVE  Books'
<1> DEFINE Form(e) == \A t \in Tasks : e[t].status = "absent" => e[t] = NoEntry
           Spent(e) == \A t \in Tasks : e[t].status # "absent" => Spawned(t)' # {}
           Match(d, e, n) == \A t \in Tasks :
              \/ d[t] = e[t]
              \/ /\ d[t].status = "running" /\ n[t] = "none"
                 /\ e[t] = [d[t] EXCEPT !.status = "failed"]
<1>0. /\ entries \in [Tasks -> Entry] /\ disk \in [Tasks -> Entry] /\ folders \subseteq Tasks
      /\ entries' \in [Tasks -> Entry] /\ disk' \in [Tasks -> Entry]
      /\ Form(entries) /\ Form(disk)
      /\ hub # "down" => Match(disk, entries, news)
      /\ NoEntry.status = "absent"
  BY DEF TypeOK, Books, NoEntry
<1>1. Spent(entries) /\ Spent(disk)
  BY SpawnedGrows DEF Books
<1>2. SUFFICES Form(entries') /\ Form(disk') /\ Spent(entries') /\ Spent(disk')
               /\ (hub' # "down" => Match(disk', entries', news'))
  BY DEF Books
<1>3. ASSUME Form(entries'), Spent(entries'), disk' = entries'
      PROVE  Form(disk') /\ Spent(disk') /\ Match(disk', entries', news')
  BY <1>3
<1>4. CASE \E t \in Tasks, o \in BOOLEAN : Submit(t, o)
  <2>1. PICK t \in Tasks, o \in BOOLEAN : Submit(t, o)
    BY <1>4
  <2>2. Spawned(t)' # {}
    <3>1. Spawn(t, 1) /\ 1 \in 1 .. MaxSpawns
      BY <2>1, Submits
    <3>2. phase'[<<t, 1>>] = "created"
      BY <3>1, Spawning
    <3>3. QED
      BY <3>1, <3>2 DEF Spawned
  <2>3. QED
    BY <1>0, <1>1, <1>3, <2>1, <2>2, Submits
<1>5. ASSUME NEW t \in Tasks, NEW s \in Statuses, Writes(t, s), hub # "down",
             \A u \in Tasks : u # t => news'[u] = news[u]
      PROVE  Form(entries') /\ Form(disk') /\ Spent(entries') /\ Spent(disk')
             /\ Match(disk', entries', news')
  <2>1. CASE entries' = entries /\ disk' = disk /\ ~Present(t)
    <3>1. disk[t] = entries[t]
      <4>1. [disk[t] EXCEPT !.status = "failed"].status = "failed"
        BY <1>0 DEF Entry
      <4>2. QED
        BY <1>0, <1>5, <2>1, <4>1
    <3>2. QED
      BY <1>0, <1>1, <1>5, <2>1, <3>1
  <2>2. CASE /\ disk' = entries' /\ Present(t) /\ entries'[t].status = s
    <3>1. \A u \in Tasks : u # t => entries'[u] = entries[u]
      BY <1>5 DEF Writes
    <3>2. s # "absent"
      BY DEF Statuses
    <3>3. QED
      BY <1>0, <1>1, <1>3, <2>2, <3>1, <3>2
  <2>3. QED
    BY <1>5, <2>1, <2>2 DEF Writes
<1>6. CASE \E t \in Tasks, n \in 2 .. MaxSpawns : Resume(t, n)
  <2>1. "running" \in Statuses
    BY DEF Statuses
  <2>2. PICK t \in Tasks, n \in 2 .. MaxSpawns : Resume(t, n)
    BY <1>6
  <2>3. Writes(t, "running") /\ hub # "down" /\ n \in 1 .. MaxSpawns /\ Spawn(t, n)
    BY <2>2, Resumes, ServingUp
  <2>4. \A u \in Tasks : u # t => news'[u] = news[u]
    BY <2>3, Spawning
  <2>5. QED
    BY <1>5, <2>1, <2>3, <2>4
<1>7. ASSUME entries' = entries, disk' = disk, news' = news, hub # "down"
      PROVE  Form(entries') /\ Form(disk') /\ Spent(entries') /\ Spent(disk')
             /\ Match(disk', entries', news')
  BY <1>0, <1>1, <1>7
<1>8. CASE \E r \in Runs : RunStep(r)
  <2>1. PICK r \in Runs : RunStep(r)
    BY <1>8
  <2>2. r[1] \in Tasks /\ hub # "down"
    BY <2>1, RunPairs, RunMoves DEF Starts, Ends, Drops, Leaves, DownIsEmpty, Open
  <2>3. CASE Starts(r)
    BY <1>5, <1>7, <2>2, <2>3 DEF Starts, Statuses
  <2>4. CASE Drops(r) \/ Leaves(r)
    BY <1>7, <2>2, <2>4 DEF Drops, Leaves
  <2>5. ASSUME NEW s \in {"waiting", "done", "failed", "cancelled"}, Ends(r, s)
        PROVE  /\ Form(entries') /\ Form(disk') /\ Spent(entries') /\ Spent(disk')
               /\ Match(disk', entries', news')
    <3>1. \A u \in Tasks : u # r[1] => news'[u] = news[u]
      BY <2>2, <2>5 DEF Ends, TypeOK
    <3>2. QED
      BY <1>5, <2>2, <2>5, <3>1 DEF Ends, Statuses
  <2>6. QED
    BY <2>1, <2>3, <2>4, <2>5, RunMoves
<1>9. CASE \E r \in Runs : ForwardQuestion(r)
  <2>1. PICK r \in Runs : ForwardQuestion(r)
    BY <1>9
  <2>2. entries' = entries /\ (disk' = entries' \/ disk' = disk) /\ news' = news /\ hub # "down"
    BY <2>1, RunPairs DEF ForwardQuestion, UpdateStatus, Persist, TypeOK
  <2>3. QED
    BY <1>0, <1>1, <1>3, <1>7, <2>2
<1>10. CASE Cancels
  BY <1>7, <1>10 DEF Cancels
<1>11. CASE \E S : Drop(S)
  <2>1. PICK S : Drop(S)
    BY <1>11
  <2>2. /\ entries' = [t \in Tasks |-> IF t \in S THEN NoEntry ELSE entries[t]]
        /\ disk' = entries'
    BY <2>1 DEF Drop, Remove, RemoveEntries, Persist
  <2>3. QED
    BY <1>0, <1>1, <1>3, <2>2
<1>12. CASE Maintenance
  <2>1. /\ \A t \in Tasks : entries'[t] = entries[t] \/ entries'[t] = NoEntry
        /\ disk' = entries' \/ (disk' = disk /\ \A t \in Tasks : entries'[t] = entries[t])
        /\ news' = news /\ hub # "down"
    BY <1>0, <1>12, Cleanup DEF Maintenance
  <2>2. QED
    BY <1>0, <1>1, <1>3, <2>1
<1>13. CASE ShutdownReturns \/ \E t \in Tasks : FolderVanishes(t)
  BY <1>0, <1>1, <1>13 DEF ShutdownReturns, FolderVanishes
<1>14. CASE Restart
  <2>1. hub = "down" /\ CleanupOrphans(Loaded) /\ news' = news
    BY <1>14 DEF Restart
  <2>2. /\ \A t \in Tasks : entries'[t] = Loaded[t] \/ entries'[t] = NoEntry
        /\ disk' = entries' \/ (disk' = disk /\ \A t \in Tasks : entries'[t] = Loaded[t])
    BY <1>0, <2>1, LoadedIs, Cleanup
  <2>3. \A t \in Tasks : Loaded[t].status = "absent" => Loaded[t] = NoEntry
    BY <1>0, LoadedIs
  <2>4. \A t \in Tasks : Loaded[t].status # "absent" => disk[t].status # "absent"
    BY <1>0, LoadedIs
  <2>5. \A t \in Tasks : \/ Loaded[t] = disk[t]
                         \/ /\ disk[t].status = "running" /\ news[t] = "none"
                            /\ Loaded[t] = [disk[t] EXCEPT !.status = "failed"]
    BY <1>0, <2>1, LoadedIs DEF NewsOnDisk
  <2>6. Form(entries') /\ Spent(entries')
    BY <1>0, <1>1, <2>2, <2>3, <2>4
  <2>7. CASE disk' = entries'
    BY <1>3, <2>6, <2>7
  <2>8. CASE disk' = disk /\ \A t \in Tasks : entries'[t] = Loaded[t]
    <3>1. \A t \in Tasks : \/ disk'[t] = entries'[t]
                          \/ /\ disk'[t].status = "running" /\ news'[t] = "none"
                             /\ entries'[t] = [disk'[t] EXCEPT !.status = "failed"]
      BY <2>1, <2>5, <2>8
    <3>2. QED
      BY <1>0, <1>1, <2>6, <2>8, <3>1
  <2>9. QED
    BY <2>2, <2>7, <2>8
<1>15. CASE Dies
  BY <1>0, <1>1, <1>15 DEF Dies, Die
<1>16. CASE UNCHANGED vars
  BY <1>0, <1>1, <1>16 DEF vars
<1>17. QED
  BY <1>4, <1>6, <1>8, <1>9, <1>10, <1>11, <1>12, <1>13, <1>14, <1>15, <1>16, StepCases

-----------------------------------------------------------------------------
(* What the parent knows *)

\* Steps that write no status.
Quiet ==
    \/ \E r \in Runs : ForwardQuestion(r)
    \/ Cancels
    \/ \E S : Drop(S)
    \/ Maintenance \/ ShutdownReturns
    \/ \E t \in Tasks : FolderVanishes(t)
    \/ UNCHANGED vars

LEMMA QuietSteps ==
    ASSUME TypeOK, Books, Quiet
    PROVE  /\ news' = news /\ phase' = phase /\ (hub' = "down" <=> hub = "down")
           /\ hub = "down" => disk' = disk
           /\ disk' = disk \/ disk' = entries'
           /\ \A t \in Tasks : \/ entries'[t] = entries[t]
                               \/ /\ entries'[t] = NoEntry
                                  /\ entries[t].status \in Finished \/ t \notin folders
<1> DEFINE Goal == /\ news' = news /\ phase' = phase /\ (hub' = "down" <=> hub = "down")
                   /\ hub = "down" => disk' = disk
                   /\ disk' = disk \/ disk' = entries'
                   /\ \A t \in Tasks : \/ entries'[t] = entries[t]
                                       \/ /\ entries'[t] = NoEntry
                                          /\ entries[t].status \in Finished \/ t \notin folders
<1>1. ASSUME NEW r \in Runs, ForwardQuestion(r)
      PROVE  Goal
  BY <1>1, RunPairs DEF ForwardQuestion, UpdateStatus, Persist, TypeOK
<1>2. ASSUME NEW S, Drop(S)
      PROVE  Goal
  BY <1>2 DEF Drop, Remove, RemoveEntries, Persist, FinishedTasks
<1>3. CASE Maintenance
  <2>1. entries \in [Tasks -> Entry] /\ folders \subseteq Tasks
    BY DEF TypeOK
  <2>2. QED
    BY <1>3, <2>1, Cleanup DEF Maintenance, Books
<1>4. CASE Cancels \/ ShutdownReturns \/ (\E t \in Tasks : FolderVanishes(t)) \/ UNCHANGED vars
  BY <1>4 DEF Cancels, ShutdownReturns, FolderVanishes, vars
<1>5. QED
  BY <1>1, <1>2, <1>3, <1>4 DEF Quiet

\* A run is spawned: the first one of a task, or another one of a task at rest.
Born(r) ==
    LET t == r[1] IN
    /\ hub # "down" /\ (Shut("request_while_stopping") => hub = "up")
    /\ phase[r] = "unborn" /\ phase'[r] = "created"
    /\ \A q \in Runs : q # r => phase'[q] = phase[q]
    /\ inflight'[t].run = r[2] /\ news'[t] = "none"
    /\ \A u \in Tasks : u # t => /\ inflight'[u] = inflight[u] /\ news'[u] = news[u]
                                /\ entries'[u] = entries[u]
    /\ UNCHANGED <<hub, cancelling, awaited, torn, gone>> /\ Marked(r)
    /\ entries'[t].status = "running" /\ disk' = entries'
    /\ Shut("resume_while_delivering") => \A q \in RunsOf(t) : ~Open(q)
    /\ \/ folders' = folders \cup {t} /\ r[2] = 1 /\ \A q \in RunsOf(t) : phase[q] = "unborn"
       \/ /\ folders' = folders /\ Present(t) /\ entries[t].status \in Resumable
          /\ r[2] # 1 /\ entries'[t].provider

LEMMA Births ==
    ASSUME TypeOK,
           \/ \E t \in Tasks, o \in BOOLEAN : Submit(t, o)
           \/ \E t \in Tasks, n \in 2 .. MaxSpawns : Resume(t, n)
    PROVE  \E r \in Runs : Born(r)
<1>1. ASSUME NEW t \in Tasks, NEW o \in BOOLEAN, Submit(t, o)
      PROVE  \E r \in Runs : Born(r)
  <2>1. PICK r \in Runs : r = <<t, 1>>
    BY <1>1, Submits, RunPairs
  <2>2. Serving /\ Spawn(t, 1) /\ 1 \in 1 .. MaxSpawns /\ \A q \in RunsOf(t) : phase[q] = "unborn"
    BY <1>1, Submits
  <2>3. r \in RunsOf(t)
    BY <2>1, RunsOfTask
  <2>4. /\ entries'[t].status = "running" /\ disk' = entries' /\ folders' = folders \cup {t}
        /\ \A u \in Tasks : u # t => entries'[u] = entries[u]
    <3>1. entries'[t] = [status |-> "running", session |-> FALSE, provider |-> o]
      BY <1>1, Submits
    <3>2. QED
      BY <1>1, <3>1, Submits
  <2>5. /\ inflight'[t].run = 1 /\ news'[t] = "none" /\ phase'[<<t, 1>>] = "created"
        /\ \A q \in Runs : q # <<t, 1>> => phase'[q] = phase[q]
        /\ \A u \in Tasks : u # t => inflight'[u] = inflight[u] /\ news'[u] = news[u]
        /\ UNCHANGED <<hub, cancelling, awaited, torn, gone>> /\ Marked(<<t, 1>>)
    BY <2>2, Spawning
  <2>6. Born(r)
    BY <2>1, <2>2, <2>3, <2>4, <2>5, ServingUp DEF Born, Open
  <2>7. QED
    BY <2>6
<1>2. ASSUME NEW t \in Tasks, NEW n \in 2 .. MaxSpawns, Resume(t, n)
      PROVE  \E r \in Runs : Born(r)
  <2>1. Serving /\ Spawn(t, n) /\ n \in 1 .. MaxSpawns /\ phase[<<t, n>>] = "unborn" /\ n # 1
    BY <1>2, Resumes, TaskHubAssumption
  <2>2. PICK r \in Runs : r = <<t, n>>
    BY <2>1, RunPairs
  <2>3. /\ entries'[t].status = "running" /\ disk' = entries' /\ folders' = folders
        /\ \A u \in Tasks : u # t => entries'[u] = entries[u]
        /\ Present(t) /\ entries[t].status \in Resumable /\ entries'[t].provider
    BY <1>2, Resumes DEF Writes
  <2>4. Shut("resume_while_delivering") => \A q \in RunsOf(t) : ~Open(q)
    BY <1>2, Resumes
  <2>5. /\ inflight'[t].run = n /\ news'[t] = "none" /\ phase'[<<t, n>>] = "created"
        /\ \A q \in Runs : q # <<t, n>> => phase'[q] = phase[q]
        /\ \A u \in Tasks : u # t => inflight'[u] = inflight[u] /\ news'[u] = news[u]
        /\ UNCHANGED <<hub, cancelling, awaited, torn, gone>> /\ Marked(<<t, n>>)
    BY <2>1, Spawning
  <2>6. Born(r)
    BY <2>1, <2>2, <2>3, <2>4, <2>5, ServingUp DEF Born
  <2>7. QED
    BY <2>6
<1>3. QED
  BY <1>1, <1>2

LEMMA StepKinds ==
    ASSUME TypeOK, [Next]_vars
    PROVE  \/ \E r \in Runs : Born(r)
           \/ \E r \in Runs : RunStep(r)
           \/ Quiet \/ Restart \/ Dies
BY StepCases, Births DEF Quiet

\* What a process that starts makes of the file.
LEMMA Restarts ==
    ASSUME TypeOK, Books, Restart
    PROVE  /\ hub = "down" /\ hub' = "up" /\ phase' = phase /\ news' = news
           /\ folders' \subseteq folders
           /\ \A t \in Tasks : Present(t)' => t \in folders'
           /\ \A t \in folders' : ~Present(t)' =>
                                     disk[t].status = "absent" /\ DirOf[t] # DefaultDir
           /\ \A t \in Tasks : \/ entries'[t] = Loaded[t]
                               \/ entries'[t] = NoEntry /\ t \notin folders
           /\ \A t \in Tasks : entries'[t].status # "running"
           /\ disk' = disk \/ disk' = entries'
<1>1. /\ folders \subseteq Tasks
      /\ \A t \in Tasks : disk[t].status = "absent" => disk[t] = NoEntry
  BY DEF TypeOK, Books
<1>2. \A t \in Tasks : Loaded[t].status # "running"
  BY <1>1, LoadedIs
<1>3. NoEntry.status = "absent"
  BY DEF NoEntry
<1>4. CleanupOrphans(Loaded)
  BY DEF Restart
<1>5. /\ folders' \subseteq folders
      /\ \A t \in Tasks : entries'[t].status # "absent" => t \in folders'
      /\ \A t \in folders' : entries'[t].status = "absent" =>
                                Loaded[t].status = "absent" /\ DirOf[t] # DefaultDir
      /\ \A t \in Tasks : \/ entries'[t] = Loaded[t]
                          \/ entries'[t] = NoEntry /\ t \notin folders
      /\ disk' = disk \/ disk' = entries'
  BY <1>1, <1>4, LoadedIs, Cleanup
<1>6. \A t \in Tasks : Loaded[t].status = "absent" => disk[t].status = "absent"
  BY <1>1, LoadedIs
<1>7. QED
  BY <1>1, <1>2, <1>3, <1>5, <1>6 DEF Restart

\* The end of a process leaves no run, and the file as it is.
LEMMA Dying ==
    ASSUME TypeOK, Dies
    PROVE  /\ hub # "down" /\ hub' = "down" /\ news' = news /\ disk' = disk
           /\ \A r \in Runs : ~Open(r)'
           /\ \A t \in Tasks : entries'[t] = NoEntry
BY DEF Dies, Die, RunsEnd, Open

LEMMA FirstNewsKept ==
    ASSUME TypeOK, FreshTracked, Books, DownIsEmpty, FirstNews, [Next]_vars
    PROVE  FirstNews'
<1> SUFFICES ASSUME NEW t \in Tasks
             PROVE  /\ Executing(<<t, 1>>)' => news'[t] = "none"
                    /\ \A n \in 2 .. MaxSpawns :
                          phase'[<<t, n>>] = "created" /\ Present(t)' => entries'[t].provider
                    /\ news'[t] # "running" /\ (t \in Unheard => news'[t] = "none")
  BY DEF FirstNews
<1>1. <<t, 1>> \in Runs /\ \A n \in 2 .. MaxSpawns : <<t, n>> \in Runs /\ n # 1
  BY RunPairs, TaskHubAssumption
<1>2. /\ Executing(<<t, 1>>) => news[t] = "none"
      /\ \A n \in 2 .. MaxSpawns :
            phase[<<t, n>>] = "created" /\ Present(t) => entries[t].provider
      /\ news[t] # "running" /\ (t \in Unheard => news[t] = "none")
  BY DEF FirstNews
<1>3. CASE \E r \in Runs : Born(r)
  <2>1. PICK r \in Runs : Born(r)
    BY <1>3
  <2>2. r[1] \in Tasks
    BY RunPairs
  <2>3. CASE r[1] # t
    <3>1. /\ phase'[<<t, 1>>] = phase[<<t, 1>>]
          /\ \A n \in 2 .. MaxSpawns : phase'[<<t, n>>] = phase[<<t, n>>]
          /\ news'[t] = news[t] /\ entries'[t] = entries[t]
      BY <1>1, <2>1, <2>3 DEF Born
    <3>2. QED
      BY <1>2, <3>1 DEF Executing
  <2>4. CASE r[1] = t
    <3>1. news'[t] = "none"
      BY <2>1, <2>4 DEF Born
    <3>2. CASE r[2] = 1 /\ \A q \in RunsOf(t) : phase[q] = "unborn"
      <4>1. ASSUME NEW n \in 2 .. MaxSpawns
            PROVE  phase'[<<t, n>>] = "unborn"
        <5>1. <<t, n>> \in RunsOf(t) /\ <<t, n>> \in Runs /\ <<t, n>> # r
          BY <1>1, <3>2, RunsOfTask
        <5>2. QED
          BY <2>1, <3>2, <5>1 DEF Born
      <4>2. QED
        BY <3>1, <4>1
    <3>3. CASE entries'[t].provider
      BY <3>1, <3>3
    <3>4. QED
      BY <2>1, <2>4, <3>2, <3>3 DEF Born
  <2>5. QED
    BY <2>3, <2>4
<1>5. CASE \E r \in Runs : RunStep(r)
  <2>1. PICK r \in Runs : RunStep(r)
    BY <1>5
  <2>2. /\ Executing(<<t, 1>>)' => Executing(<<t, 1>>)
        /\ \A n \in 2 .. MaxSpawns : phase'[<<t, n>>] = "created" => phase[<<t, n>>] = "created"
    <3>1. \A q \in Runs : /\ Executing(q)' => Executing(q)
                          /\ phase'[q] = "created" => phase[q] = "created"
      BY <2>1, RunMoves DEF Starts, Ends, Drops, Leaves, Executing
    <3>2. QED
      BY <1>1, <3>1
  <2>3. CASE Starts(r)
    BY <1>2, <2>2, <2>3 DEF Starts, Writes
  <2>4. CASE Drops(r) \/ Leaves(r)
    BY <1>2, <2>2, <2>4 DEF Drops, Leaves
  <2>5. ASSUME NEW s \in {"waiting", "done", "failed", "cancelled"}, Ends(r, s)
        PROVE  /\ Executing(<<t, 1>>)' => news'[t] = "none"
               /\ \A n \in 2 .. MaxSpawns :
                     phase'[<<t, n>>] = "created" /\ Present(t)' => entries'[t].provider
               /\ news'[t] # "running" /\ (t \in Unheard => news'[t] = "none")
    <3>1. \A n \in 2 .. MaxSpawns :
             phase'[<<t, n>>] = "created" /\ Present(t)' => entries'[t].provider
      BY <1>2, <2>2, <2>5 DEF Ends, Writes
    <3>2. ASSUME Executing(<<t, 1>>)', r[1] = t
          PROVE  FALSE
      <4>1. r = <<t, 1>>
        BY <2>2, <2>5, <3>2, OnlyRun DEF Ends
      <4>2. QED
        BY <2>5, <3>2, <4>1 DEF Ends, Executing
    <3>3. r[1] \in Tasks /\ (news' = [news EXCEPT ![r[1]] = s] \/ news' = news)
          /\ (r[1] \in Unheard => news' = news)
      BY <2>5, RunPairs DEF Ends
    <3>4. news'[t] # "running" /\ (t \in Unheard => news'[t] = "none")
      BY <1>2, <3>3 DEF TypeOK
    <3>5. r[1] # t => news'[t] = news[t]
      BY <3>3 DEF TypeOK
    <3>6. QED
      BY <1>2, <2>2, <3>1, <3>2, <3>4, <3>5
  <2>6. QED
    BY <2>1, <2>3, <2>4, <2>5, RunMoves
<1>6. CASE Quiet
  BY <1>2, <1>6, QuietSteps DEF Executing, NoEntry
<1>7. CASE Restart
  <2>1. \A n \in 2 .. MaxSpawns : phase'[<<t, n>>] # "created"
    BY <1>1, <1>7, Restarts DEF DownIsEmpty, Open
  <2>2. QED
    BY <1>2, <1>7, <2>1, Restarts DEF Executing
<1>8. CASE Dies
  BY <1>1, <1>2, <1>8, Dying DEF Open, Executing
<1>9. QED
  BY <1>3, <1>5, <1>6, <1>7, <1>8, StepKinds

LEMMA ParentKnowsKept ==
    ASSUME TypeOK, FreshTracked, Books, DownIsEmpty, FirstNews, NewsOnDisk, ParentKnows, [Next]_vars
    PROVE  ParentKnows' /\ NewsOnDisk'
<1>1. ASSUME hub = "down", hub' = "down", disk' = disk, news' = news
      PROVE  ParentKnows' /\ NewsOnDisk'
  BY <1>1 DEF ParentKnows, NewsOnDisk
<1>2. ASSUME hub # "down", hub' = hub,
             \A t \in Tasks : Present(t)' /\ news'[t] # "none" => entries'[t].status = news'[t]
      PROVE  ParentKnows' /\ NewsOnDisk'
  BY <1>2 DEF ParentKnows, NewsOnDisk
<1>3. CASE \E r \in Runs : Born(r)
  <2>1. PICK r \in Runs : Born(r)
    BY <1>3
  <2>2. /\ hub # "down" /\ hub' = hub
        /\ \A t \in Tasks : news'[t] = "none" \/ (entries'[t] = entries[t] /\ news'[t] = news[t])
    BY <2>1 DEF Born
  <2>3. QED
    BY <1>2, <2>2 DEF ParentKnows
<1>5. CASE \E r \in Runs : RunStep(r)
  <2>1. PICK r \in Runs : RunStep(r)
    BY <1>5
  <2>2. r[1] \in Tasks /\ r[2] \in 1 .. MaxSpawns /\ r = <<r[1], r[2]>> /\ hub' = hub /\ hub # "down"
    BY <2>1, RunPairs, RunMoves DEF Starts, Ends, Drops, Leaves, DownIsEmpty, Open
  <2>3. CASE Starts(r)
    <3>1. ASSUME Present(r[1]), ~entries[r[1]].provider
          PROVE  news[r[1]] = "none"
      <4>1. phase[<<r[1], r[2]>>] = "created"
        BY <2>2, <2>3 DEF Starts
      <4>2. r[2] = 1
        <5>1. r[2] \notin 2 .. MaxSpawns
          BY <2>2, <3>1, <4>1 DEF FirstNews
        <5>2. QED
          BY <2>2, <5>1, TaskHubAssumption
      <4>3. QED
        BY <2>2, <4>1, <4>2 DEF FirstNews, Executing
    <3>2. QED
      BY <1>2, <2>2, <2>3, <3>1 DEF Starts, Writes, ParentKnows
  <2>4. CASE Drops(r) \/ Leaves(r)
    BY <1>2, <2>2, <2>4 DEF Drops, Leaves, ParentKnows
  <2>5. ASSUME NEW s \in {"waiting", "done", "failed", "cancelled"}, Ends(r, s)
        PROVE  ParentKnows' /\ NewsOnDisk'
    <3>1. \A t \in Tasks : t # r[1] => entries'[t] = entries[t] /\ news'[t] = news[t]
      BY <2>2, <2>5 DEF Ends, Writes, TypeOK
    <3>2. Present(r[1])' => entries'[r[1]].status = s
      BY <2>5 DEF Ends, Writes
    <3>3. news'[r[1]] = s \/ news'[r[1]] = "none"
      BY <2>2, <2>5 DEF Ends, FirstNews, TypeOK
    <3>4. QED
      BY <1>2, <2>2, <3>1, <3>2, <3>3 DEF ParentKnows
  <2>6. QED
    BY <2>1, <2>3, <2>4, <2>5, RunMoves
<1>6. CASE Quiet
  <2>1. hub # "down" => hub' # "down"
    BY <1>6, QuietSteps
  <2>2. \A t \in Tasks : Present(t)' => entries'[t] = entries[t]
    BY <1>6, QuietSteps DEF NoEntry
  <2>3. QED
    BY <1>1, <1>6, <2>1, <2>2, QuietSteps DEF ParentKnows, NewsOnDisk
<1>7. CASE Restart
  <2>1. \A t \in Tasks : Present(t)' /\ news[t] # "none" => entries'[t].status = news[t]
    <3>1. ASSUME NEW t \in Tasks, Present(t)', news[t] # "none"
          PROVE  entries'[t].status = news[t]
      <4>1. entries'[t] = Loaded[t]
        BY <1>7, <3>1, Restarts DEF NoEntry
      <4>2. Loaded[t].status # "absent" /\ hub = "down" /\ news[t] # "running"
        BY <1>7, <3>1, <4>1, Restarts DEF FirstNews
      <4>3. \A u \in Tasks : disk[u].status = "absent" => disk[u] = NoEntry
        BY DEF Books
      <4>4. disk[t].status # "absent"
        BY <4>2, <4>3, LoadedIs
      <4>5. disk[t].status = news[t]
        BY <3>1, <4>2, <4>4 DEF NewsOnDisk
      <4>6. Loaded[t] = disk[t]
        BY <4>2, <4>3, <4>5, LoadedIs
      <4>7. QED
        BY <4>1, <4>5, <4>6
    <3>2. QED
      BY <3>1
  <2>2. QED
    BY <1>7, <2>1, Restarts DEF ParentKnows, NewsOnDisk
<1>8. CASE Dies
  <2>1. \A t \in Tasks : disk[t].status # "absent" /\ news[t] # "none" => disk[t].status = news[t]
    BY <1>8, Dying DEF Books, ParentKnows
  <2>2. QED
    BY <1>8, <2>1, Dying DEF ParentKnows, NewsOnDisk
<1>9. QED
  BY <1>3, <1>5, <1>6, <1>7, <1>8, StepKinds

-----------------------------------------------------------------------------
(* Runs, entries and folders *)

\* What the steps of a run leave alone.
LEMMA RunFrame ==
    ASSUME TypeOK, DownIsEmpty, NEW r \in Runs, RunStep(r)
    PROVE  /\ r[1] \in Tasks /\ r \in RunsOf(r[1])
           /\ hub # "down" /\ UNCHANGED <<hub, folders, awaited>>
           /\ \A q \in Runs : q # r => phase'[q] = phase[q]
           /\ \A q \in Runs : /\ Open(q)' => Open(q)
                              /\ Live(q)' => Live(q)
                              /\ Executing(q)' => Executing(q)
           /\ \A t \in Tasks : t # r[1] => entries'[t] = entries[t] /\ inflight'[t] = inflight[t]
           /\ \A t \in Tasks : Present(t)' <=> Present(t)
           /\ \A q \in Runs : Open(q)' => /\ q \in joined => q \in joined'
                                          /\ q \in late => q \in late'
           /\ UNCHANGED <<torn, gone>>
<1>1. r[1] \in Tasks /\ r \in RunsOf(r[1])
  BY RunPairs, RunsOfTask
<1>2. \A q \in Runs : q # r => phase'[q] = phase[q]
  BY RunMoves
<1>3. /\ Open(r) /\ (Open(r)' => Open(r)) /\ (Live(r)' => Live(r))
      /\ Executing(r)' => Executing(r)
  BY RunMoves DEF Starts, Ends, Drops, Leaves, Open, Live, Executing
<1>4. hub # "down" /\ UNCHANGED <<hub, folders, awaited>>
  BY <1>3, RunMoves DEF DownIsEmpty
<1>5. \A t \in Tasks : t # r[1] => entries'[t] = entries[t] /\ inflight'[t] = inflight[t]
  BY RunMoves DEF Starts, Ends, Drops, Leaves, Writes, TypeOK
<1>6. ASSUME NEW s \in Statuses, Writes(r[1], s)
      PROVE  Present(r[1])' <=> Present(r[1])
  BY <1>6 DEF Writes, Statuses
<1>7. Present(r[1])' <=> Present(r[1])
  <2>1. {"waiting", "done", "failed", "cancelled", "running"} \subseteq Statuses
    BY DEF Statuses
  <2>2. CASE entries' = entries
    BY <2>2
  <2>3. CASE \E s \in Statuses : Writes(r[1], s)
    BY <1>6, <2>3
  <2>4. QED
    BY <2>1, <2>2, <2>3, RunMoves DEF Starts, Ends, Drops, Leaves
<1>8. \A q \in Runs : /\ Open(q)' => Open(q)
                      /\ Live(q)' => Live(q)
                      /\ Executing(q)' => Executing(q)
  BY <1>2, <1>3 DEF Open, Live, Executing
<1>9. /\ \A q \in Runs : Open(q)' => /\ q \in joined => q \in joined'
                                     /\ q \in late => q \in late'
      /\ UNCHANGED <<torn, gone>>
  BY RunMoves DEF Starts, Ends, Drops, Leaves, Open
<1>10. QED
  BY <1>1, <1>2, <1>4, <1>5, <1>7, <1>8, <1>9

\* The run that writes an outcome is the last one of its task.
LEMMA EndsAlone ==
    ASSUME TypeOK, DownIsEmpty, RunsAlone, CancelsLand, Singly, NoLateWrite,
           NEW r \in Runs, RunStep(r), NEW s, Ends(r, s), NEW q \in RunsOf(r[1])
    PROVE  ~Executing(q)'
<1> SUFFICES ASSUME Executing(q)'
             PROVE  FALSE
  OBVIOUS
<1>1. /\ r[1] \in Tasks /\ r \in RunsOf(r[1]) /\ q \in Runs /\ q # r
      /\ Executing(q) /\ Open(q) /\ Open(r)
  BY RunFrame, RunsOfTask DEF Ends, Executing, Open
<1>2. CASE Executing(r)
  BY <1>1, <1>2 DEF Singly, OneRunAtATime
<1>3. CASE ~Executing(r)
  <2>1. r \in cancelling /\ ~Shut("cancel_while_delivering")
    BY <1>3 DEF Ends, Executing, CancelsLand
  <2>2. Shut("resume_while_delivering")
    BY <2>1 DEF NoLateWrite
  <2>3. QED
    BY <1>1, <2>2 DEF RunsAlone
<1>4. QED
  BY <1>2, <1>3

LEMMA SinglyKept ==
    ASSUME TypeOK, DownIsEmpty, Books, RunsAlone, CancelsLand, RunsRead, Singly, [Next]_vars
    PROVE  RunsRead' /\ Singly'
<1> SUFFICES ASSUME NoLateWrite
             PROVE  /\ OneRunAtATime'
                    /\ \A t \in Tasks : \A r \in RunsOf(t) :
                          Executing(r)' => entries'[t].status \in {"running", "absent"}
  BY DEF RunsRead, Singly, NoLateWrite, Shut
<1>0. /\ \A t \in Tasks : RunsOf(t) \subseteq Runs
      /\ \A t \in Tasks : \A r \in RunsOf(t) :
            Executing(r) => entries[t].status \in {"running", "absent"}
      /\ \A t \in Tasks : \A r, q \in RunsOf(t) : Executing(r) /\ Executing(q) => r = q
  BY RunsOfTask DEF RunsRead, Singly, OneRunAtATime
<1>1. CASE \E r \in Runs : Born(r)
  <2>1. PICK r \in Runs : Born(r)
    BY <1>1
  <2>2. r[1] \in Tasks /\ r \in RunsOf(r[1]) /\ \A q \in RunsOf(r[1]) : ~Executing(q)
    <3>1. entries[r[1]].status \in Resumable => entries[r[1]].status \notin {"running", "absent"}
      BY DEF Resumable, Finished
    <3>2. QED
      BY <1>0, <2>1, <3>1, RunPairs, RunsOfTask DEF Born, Executing
  <2>3. \A t \in Tasks : t # r[1] => /\ entries'[t] = entries[t]
                                     /\ \A q \in RunsOf(t) : Executing(q)' => Executing(q)
    <3>1. \A t \in Tasks : t # r[1] => r \notin RunsOf(t)
      BY RunsOfTask
    <3>2. QED
      BY <1>0, <2>1, <3>1 DEF Born, Executing
  <2>4. \A q \in RunsOf(r[1]) : Executing(q)' => q = r
    BY <1>0, <2>1, <2>2 DEF Born, Executing
  <2>5. QED
    BY <1>0, <2>1, <2>2, <2>3, <2>4 DEF Born, OneRunAtATime
<1>2. CASE \E r \in Runs : RunStep(r)
  <2>1. PICK r \in Runs : RunStep(r)
    BY <1>2
  <2>2. OneRunAtATime'
    BY <1>0, <2>1, RunFrame DEF OneRunAtATime
  <2>3. ASSUME NEW t \in Tasks, NEW q \in RunsOf(t), Executing(q)'
        PROVE  entries'[t].status \in {"running", "absent"}
    <3>1. entries[t].status \in {"running", "absent"}
      BY <1>0, <2>1, <2>3, RunFrame
    <3>2. CASE t # r[1]
      BY <2>1, <3>1, <3>2, RunFrame
    <3>3. CASE entries' = entries
      BY <3>1, <3>3
    <3>4. CASE t = r[1] /\ Writes(t, "running")
      BY <3>1, <3>4 DEF Writes
    <3>5. ~ \E s \in {"waiting", "done", "failed", "cancelled"} : t = r[1] /\ Ends(r, s)
      BY <2>1, <2>3, EndsAlone
    <3>6. QED
      BY <2>1, <3>2, <3>3, <3>4, <3>5, RunMoves DEF Starts, Drops, Leaves
  <2>4. QED
    BY <2>2, <2>3
<1>3. CASE Quiet
  BY <1>0, <1>3, QuietSteps DEF OneRunAtATime, Executing, NoEntry
<1>4. CASE Restart \/ Dies
  <2>1. \A r \in Runs : ~Open(r)'
    BY <1>4, Restarts, Dying DEF DownIsEmpty, Open
  <2>2. \A t \in Tasks : \A r \in RunsOf(t) : ~Executing(r)'
    BY <1>0, <2>1 DEF Open, Executing
  <2>3. QED
    BY <2>2 DEF OneRunAtATime
<1>5. QED
  BY <1>1, <1>2, <1>3, <1>4, StepKinds

\* Folders and entries come and go together, but for what crashes and others do.
LEMMA FoldersKept ==
    ASSUME TypeOK, TypeOK', DownIsEmpty, Books, Folders, [Next]_vars
    PROVE  Folders'
<1> DEFINE Fits(t) == /\ Present(t) => t \in folders \cup gone
                      /\ t \in folders /\ ~Present(t) => t \in torn /\ DirOf[t] # DefaultDir
<1>0. /\ hub # "down" => \A t \in Tasks : Fits(t)
      /\ hub = "down" => \A t \in folders : disk[t].status = "absent" => t \in torn
      /\ Shut("folder_vanishes") => gone = {}
      /\ folders \subseteq Tasks /\ folders' \subseteq Tasks
  BY DEF Folders, FoldersMatch, TypeOK
<1> SUFFICES /\ hub' # "down" => \A t \in Tasks : Fits(t)'
             /\ hub' = "down" => \A t \in folders' : disk'[t].status = "absent" => t \in torn'
             /\ Shut("folder_vanishes") => gone' = {}
  BY DEF Folders, FoldersMatch, Shut
<1>1. CASE \E r \in Runs : Born(r)
  <2>1. PICK r \in Runs : Born(r)
    BY <1>1
  <2>2. /\ r[1] \in Tasks /\ Present(r[1])' /\ hub # "down" /\ hub' = hub
        /\ \A t \in Tasks : t # r[1] => entries'[t] = entries[t]
        /\ UNCHANGED <<torn, gone>>
    BY <2>1, RunPairs DEF Born
  <2>3. \/ folders' = folders \cup {r[1]}
        \/ folders' = folders /\ Present(r[1])
    BY <2>1 DEF Born
  <2>4. QED
    BY <1>0, <2>2, <2>3
<1>2. CASE \E r \in Runs : RunStep(r)
  <2>1. /\ hub # "down" /\ UNCHANGED <<hub, folders, torn, gone>>
        /\ \A t \in Tasks : Present(t)' <=> Present(t)
    BY <1>2, RunFrame
  <2>2. QED
    BY <1>0, <2>1
<1>3. CASE \E r \in Runs : ForwardQuestion(r)
  <2>1. entries' = entries /\ UNCHANGED <<hub, folders, torn, gone>> /\ hub # "down"
    BY <1>3, RunPairs DEF ForwardQuestion, UpdateStatus, TypeOK
  <2>2. QED
    BY <1>0, <2>1
<1>4. CASE \E S : Drop(S)
  <2>1. PICK S : Drop(S)
    BY <1>4
  <2>2. /\ entries' = [t \in Tasks |-> IF t \in S THEN NoEntry ELSE entries[t]]
        /\ folders' = folders \ S /\ UNCHANGED <<hub, torn, gone>> /\ hub # "down"
    BY <2>1 DEF Drop, Remove, RemoveEntries
  <2>3. NoEntry.status = "absent"
    BY DEF NoEntry
  <2>4. QED
    BY <1>0, <2>2, <2>3
<1>5. CASE Maintenance
  <2>1. hub = "up" /\ UNCHANGED <<hub, torn, gone>>
    BY <1>5 DEF Maintenance
  <2>2. /\ \A t \in Tasks : Present(t)' => t \in folders'
        /\ folders' \subseteq folders
        /\ \A t \in folders' : ~Present(t)' => ~Present(t) /\ DirOf[t] # DefaultDir
    BY <1>5, Cleanup DEF Maintenance, Books, TypeOK
  <2>3. QED
    BY <1>0, <2>1, <2>2
<1>6. CASE Cancels \/ ShutdownReturns
  <2>1. /\ hub # "down" /\ hub' # "down"
        /\ UNCHANGED <<entries, folders, torn, gone>>
    BY <1>6 DEF Cancels, ShutdownReturns
  <2>2. QED
    BY <1>0, <2>1
<1>7. CASE \E u \in Tasks : FolderVanishes(u)
  <2>1. PICK u \in Tasks : FolderVanishes(u)
    BY <1>7
  <2>2. /\ ~Shut("folder_vanishes") /\ folders' = folders \ {u} /\ gone' = gone \cup {u}
        /\ UNCHANGED <<hub, entries, disk, torn>>
    BY <2>1 DEF FolderVanishes, Shut
  <2>3. QED
    BY <1>0, <2>2
<1>8. CASE Restart
  <2>1. /\ hub = "down" /\ hub' = "up" /\ UNCHANGED <<torn, gone>>
    BY <1>8 DEF Restart
  <2>2. /\ folders' \subseteq folders
        /\ \A t \in Tasks : Present(t)' => t \in folders'
        /\ \A t \in folders' : ~Present(t)' =>
                                  disk[t].status = "absent" /\ DirOf[t] # DefaultDir
    BY <1>8, Restarts
  <2>3. QED
    BY <1>0, <2>1, <2>2
<1>9. CASE Dies
  <2>1. /\ hub # "down" /\ hub' = "down" /\ disk' = disk /\ gone' = gone
        /\ \A t \in folders' : t \in folders \/ t \in torn'
        /\ torn \subseteq torn'
    BY <1>9, Dying DEF Dies, Die
  <2>2. \A t \in folders : disk[t].status = "absent" => ~Present(t)
    <3>1. \A t \in folders : disk[t] = entries[t] \/ disk[t].status = "running"
      BY <1>0, <2>1 DEF Books
    <3>2. QED
      BY <3>1
  <2>3. QED
    BY <1>0, <2>1, <2>2
<1>10. CASE UNCHANGED vars
  BY <1>0, <1>10 DEF vars
<1>11. QED
  BY <1>1, <1>2, <1>3, <1>4, <1>5, <1>6, <1>7, <1>8, <1>9, <1>10, StepKinds DEF Quiet

LEMMA BodiesKept ==
    ASSUME TypeOK, DownIsEmpty, Books, RunsAlone, CancelsLand, RunsRead, Singly, Folders, Bodies,
           [Next]_vars
    PROVE  Bodies'
<1> SUFFICES ASSUME NoLateWrite, Shut("cancel_before_start"), Shut("folder_vanishes"),
                    hub' # "down", NEW t \in Tasks
             PROVE  entries'[t].status = "running" <=> \E r \in RunsOf(t) : Executing(r)'
  BY DEF Bodies, RunningIffRun, NoLateWrite, Shut
<1>0. /\ RunsOf(t) \subseteq Runs
      /\ hub # "down" =>
            /\ Present(t) => t \in folders
            /\ entries[t].status = "running" <=> \E r \in RunsOf(t) : Executing(r)
  BY RunsOfTask DEF Bodies, RunningIffRun, Folders, FoldersMatch
<1>1. CASE \E r \in Runs : Born(r)
  <2>1. PICK r \in Runs : Born(r)
    BY <1>1
  <2>2. CASE t = r[1]
    BY <2>1, <2>2, RunsOfTask DEF Born, Executing
  <2>3. CASE t # r[1]
    <3>1. \A q \in RunsOf(t) : phase'[q] = phase[q]
      BY <1>0, <2>1, <2>3, RunsOfTask DEF Born
    <3>2. hub # "down" /\ entries'[t] = entries[t]
      BY <2>1, <2>3 DEF Born
    <3>3. QED
      BY <1>0, <3>1, <3>2 DEF Executing
  <2>4. QED
    BY <2>2, <2>3
<1>2. CASE \E r \in Runs : RunStep(r)
  <2>1. PICK r \in Runs : RunStep(r)
    BY <1>2
  <2>2. hub # "down" /\ \A q \in RunsOf(t) : q # r => phase'[q] = phase[q]
    BY <1>0, <2>1, RunFrame
  <2>3. CASE t # r[1]
    <3>1. \A q \in RunsOf(t) : phase'[q] = phase[q]
      BY <2>2, <2>3, RunsOfTask
    <3>2. QED
      BY <1>0, <2>1, <2>2, <2>3, <3>1, RunFrame DEF Executing
  <2>4. CASE t = r[1] /\ Starts(r)
    <3>1. r \in RunsOf(t) /\ Executing(r) /\ Executing(r)'
      BY <2>4, RunsOfTask DEF Starts, Executing
    <3>2. QED
      BY <1>0, <2>2, <2>4, <3>1 DEF Starts, Writes
  <2>5. CASE (Executing(r)' <=> Executing(r)) /\ entries' = entries
    BY <1>0, <2>2, <2>5 DEF Executing
  <2>6. ASSUME NEW s \in {"waiting", "done", "failed", "cancelled"}, t = r[1], Ends(r, s)
        PROVE  entries'[t].status = "running" <=> \E q \in RunsOf(t) : Executing(q)'
    <3>1. \A q \in RunsOf(t) : ~Executing(q)'
      BY <2>1, <2>6, EndsAlone
    <3>2. entries'[t].status # "running"
      BY <2>6 DEF Ends, Writes
    <3>3. QED
      BY <3>1, <3>2
  <2>7. Drops(r) \/ Leaves(r) => (Executing(r)' <=> Executing(r)) /\ entries' = entries
    BY DEF Drops, Leaves, Executing, CancelsLand
  <2>8. QED
    BY <2>1, <2>3, <2>4, <2>5, <2>6, <2>7, RunMoves
<1>3. CASE Quiet
  <2>1. /\ hub # "down" /\ phase' = phase
        /\ \/ entries'[t] = entries[t]
           \/ entries'[t] = NoEntry /\ (entries[t].status \in Finished \/ t \notin folders)
    BY <1>3, QuietSteps
  <2>2. CASE entries'[t] = entries[t]
    BY <1>0, <2>1, <2>2 DEF Executing
  <2>3. CASE entries'[t] = NoEntry /\ (entries[t].status \in Finished \/ t \notin folders)
    <3>1. entries[t].status # "running"
      BY <1>0, <2>1, <2>3 DEF Finished
    <3>2. QED
      BY <1>0, <2>1, <2>3, <3>1 DEF Executing, NoEntry
  <2>4. QED
    BY <2>1, <2>2, <2>3
<1>4. CASE Restart
  <2>1. entries'[t].status # "running" /\ \A r \in RunsOf(t) : ~Executing(r)'
    BY <1>0, <1>4, Restarts DEF DownIsEmpty, Open, Executing
  <2>2. QED
    BY <2>1
<1>5. CASE Dies
  BY <1>5, Dying
<1>6. QED
  BY <1>1, <1>2, <1>3, <1>4, <1>5, StepKinds

-----------------------------------------------------------------------------
(* The in-flight table and shutdown *)

LEMMA JoinsKept ==
    ASSUME TypeOK, DownIsEmpty, Books, Joins, [Next]_vars
    PROVE  Joins'
<1> SUFFICES ASSUME NEW t \in Tasks, NEW q \in RunsOf(t), NEW s \in RunsOf(t),
                    Open(q)', Open(s)', q # s
             PROVE  q \in joined'
  BY DEF Joins
<1>0. /\ q \in Runs /\ q[1] = t /\ s \in Runs /\ s[1] = t
      /\ Open(q) /\ Open(s) => q \in joined
  BY RunsOfTask DEF Joins
<1>1. CASE \E r \in Runs : Born(r)
  <2>1. PICK r \in Runs : Born(r)
    BY <1>1
  <2>2. /\ q # r => Open(q)
        /\ s # r => Open(s)
        /\ joined \subseteq joined'
    BY <1>0, <2>1 DEF Born, Marked, Open
  <2>3. CASE q = r
    BY <1>0, <2>1, <2>2, <2>3 DEF Born, Marked
  <2>4. CASE q # r /\ s = r
    BY <1>0, <2>1, <2>2, <2>4 DEF Born, Marked
  <2>5. CASE q # r /\ s # r
    BY <1>0, <2>2, <2>5
  <2>6. QED
    BY <2>3, <2>4, <2>5
<1>2. CASE \E r \in Runs : RunStep(r)
  BY <1>0, <1>2, RunFrame
<1>3. CASE phase' = phase /\ joined' = joined
  BY <1>0, <1>3 DEF Open
<1>4. CASE Quiet
  BY <1>3, <1>4 DEF Quiet, ForwardQuestion, Cancels, Drop, Remove, Maintenance,
                    ShutdownReturns, FolderVanishes, vars
<1>5. CASE Restart \/ Dies
  BY <1>0, <1>5, Restarts, Dying DEF DownIsEmpty, Open
<1>6. QED
  BY <1>1, <1>2, <1>4, <1>5, StepKinds

LEMMA TracksKept ==
    ASSUME TypeOK, TypeOK', DownIsEmpty, Books, Tracks, [Next]_vars
    PROVE  Tracks'
<1>j. Joins /\ Joins'
  BY JoinsKept DEF Tracks
<1> SUFFICES ASSUME hub' \in {"up", "stopping"}, NEW t \in Tasks, NEW q \in RunsOf(t), Live(q)'
             PROVE  q \in joined' \/ (inflight'[t].run # 0 /\ <<t, inflight'[t].run>> = q)
  BY <1>j DEF Tracks, LiveRunsTracked
<1>0. /\ q \in Runs /\ q[1] = t /\ q = <<t, q[2]>> /\ q[2] # 0 /\ Open(q)'
      /\ hub \in {"up", "stopping"} /\ Live(q) =>
            q \in joined \/ (inflight[t].run # 0 /\ <<t, inflight[t].run>> = q)
  <2>1. q \in Runs /\ q[1] = t
    BY RunsOfTask
  <2>2. QED
    BY <2>1, RunPairs DEF Tracks, LiveRunsTracked, Live, Open
<1>1. CASE \E r \in Runs : Born(r)
  <2>1. PICK r \in Runs : Born(r)
    BY <1>1
  <2>2. CASE q = r
    BY <1>0, <2>1, <2>2 DEF Born
  <2>3. CASE r[1] = t /\ q # r
    BY <1>0, <2>1, <2>3 DEF Born, Marked, Open
  <2>4. CASE r[1] # t
    BY <1>0, <2>1, <2>4 DEF Born, Marked, Live
  <2>5. QED
    BY <2>2, <2>3, <2>4
<1>2. CASE \E r \in Runs : RunStep(r)
  <2>1. PICK r \in Runs : RunStep(r)
    BY <1>2
  <2>2. Live(q) /\ hub' = hub /\ r[1] \in Tasks /\ (q \in joined => q \in joined')
    BY <1>0, <2>1, RunFrame
  <2>3. CASE inflight'[t] = inflight[t]
    BY <1>0, <2>2, <2>3
  <2>4. CASE r[1] = t /\ Leaves(r)
    <3>1. Open(r) /\ Open(q) /\ q # r
      BY <2>2, <2>4 DEF Leaves, Open, Live
    <3>2. r \in RunsOf(t)
      BY <2>4, RunsOfTask
    <3>3. QED
      BY <1>j, <2>2, <3>1, <3>2 DEF Joins
  <2>5. QED
    BY <2>1, <2>3, <2>4, RunFrame, RunMoves DEF Starts, Ends, Drops
<1>3. CASE /\ hub \in {"up", "stopping"} /\ phase' = phase /\ joined' = joined
           /\ inflight'[t].run = inflight[t].run
  BY <1>0, <1>3 DEF Live
<1>4. CASE \E r \in Runs : ForwardQuestion(r)
  <2>1. PICK r \in Runs : ForwardQuestion(r)
    BY <1>4
  <2>2. inflight'[t].run = inflight[t].run
    BY <2>1, RunPairs DEF ForwardQuestion, TypeOK
  <2>3. QED
    BY <1>3, <2>1, <2>2 DEF ForwardQuestion
<1>5. CASE Cancels \/ (\E S : Drop(S)) \/ Maintenance \/ ShutdownReturns
           \/ (\E u \in Tasks : FolderVanishes(u)) \/ UNCHANGED vars
  BY <1>3, <1>5 DEF Cancels, Drop, Remove, Maintenance, ShutdownReturns, FolderVanishes, vars
<1>6. CASE Restart \/ Dies
  BY <1>0, <1>6, Restarts, Dying DEF DownIsEmpty, Open
<1>7. QED
  BY <1>1, <1>2, <1>4, <1>5, <1>6, StepKinds DEF Quiet

LEMMA AwaitsAllKept ==
    ASSUME TypeOK, DownIsEmpty, Books, Tracks, AwaitsAll, [Next]_vars
    PROVE  AwaitsAll'
<1> SUFFICES ASSUME NEW r \in Runs, Live(r)'
             PROVE  /\ hub' = "stopping" => r \in awaited' \cup joined' \cup late'
                    /\ hub' = "drained" => r \in joined' \cup late'
  BY DEF AwaitsAll, ShutdownLeavesNoRun
<1>0. /\ Live(r) /\ hub = "stopping" => r \in awaited \cup joined \cup late
      /\ Live(r) /\ hub = "drained" => r \in joined \cup late
      /\ Open(r)'
  BY DEF AwaitsAll, ShutdownLeavesNoRun, Live, Open
<1>1. CASE \E q \in Runs : Born(q)
  <2>1. PICK q \in Runs : Born(q)
    BY <1>1
  <2>2. /\ hub' = hub /\ awaited' = awaited /\ joined \subseteq joined' /\ late \subseteq late'
        /\ hub # "up" => q \in late'
        /\ r # q => Live(r)
    BY <2>1 DEF Born, Marked, Live
  <2>3. QED
    BY <1>0, <2>2
<1>2. CASE \E q \in Runs : RunStep(q)
  BY <1>0, <1>2, RunFrame
<1>3. CASE hub' = hub /\ awaited' = awaited /\ phase' = phase /\ joined' = joined /\ late' = late
  BY <1>0, <1>3 DEF Live
<1>4. CASE Cancels /\ hub = "up"
  <2>1. Live(r) /\ r[1] \in Tasks /\ r \in RunsOf(r[1]) /\ joined' = joined
    BY <1>4, RunPairs, RunsOfTask DEF Cancels, Live
  <2>2. r \in joined \/ (inflight[r[1]].run # 0 /\ RunOf(r[1]) = r)
    BY <1>4, <2>1 DEF Tracks, LiveRunsTracked
  <2>3. r \in joined \/ r[1] \in Active
    BY <2>1, <2>2 DEF Active
  <2>4. QED
    BY <1>4, <2>1, <2>2, <2>3 DEF Cancels
<1>5. CASE ShutdownReturns
  BY <1>0, <1>5 DEF ShutdownReturns, Live
<1>6. CASE \/ \E q \in Runs : ForwardQuestion(q)
           \/ \E S : Drop(S)
           \/ Maintenance \/ (\E t \in Tasks : FolderVanishes(t)) \/ UNCHANGED vars
  BY <1>3, <1>6 DEF ForwardQuestion, Drop, Remove, Maintenance, FolderVanishes, vars
<1>7. CASE Cancels
  BY <1>3, <1>4, <1>7 DEF Cancels
<1>8. CASE Restart \/ Dies
  BY <1>0, <1>8, Restarts, Dying DEF DownIsEmpty
<1>9. QED
  BY <1>1, <1>2, <1>5, <1>6, <1>7, <1>8, StepKinds DEF Quiet

-----------------------------------------------------------------------------
(* The invariant *)

LEMMA HubInit ==
    ASSUME Init, TypeOK
    PROVE  HubInv
<1>1. /\ \A r \in Runs : phase[r] = "unborn"
      /\ \A t \in Tasks : <<t, 1>> \in Runs /\ RunsOf(t) \subseteq Runs
      /\ \A t \in Tasks : \A n \in 2 .. MaxSpawns : <<t, n>> \in Runs
  <2>1. 1 \in 1 .. MaxSpawns /\ \A n \in 2 .. MaxSpawns : n \in 1 .. MaxSpawns
    BY TaskHubAssumption
  <2>2. \A r \in Runs : phase[r] = "unborn"
    BY DEF Init
  <2>3. QED
    BY <2>1, <2>2, RunPairs, RunsOfTask
<1>2. /\ hub = "up" /\ cancelling = {} /\ folders = {} /\ disk = entries /\ gone = {}
      /\ \A t \in Tasks : entries[t] = NoEntry /\ disk[t] = NoEntry /\ news[t] = "none"
      /\ NoEntry.status = "absent"
  BY DEF Init, NoEntry
<1>3. FreshTracked /\ RunsAlone /\ CancelsLand /\ DownIsEmpty /\ Books
  BY <1>1, <1>2 DEF FreshTracked, RunsAlone, CancelsLand, DownIsEmpty, Books, Executing, Open
<1>4. RunsRead /\ Singly /\ Folders /\ Bodies
  BY <1>1, <1>2 DEF RunsRead, Singly, OneRunAtATime, Folders, FoldersMatch, Bodies,
                    RunningIffRun, Executing
<1>5. Tracks /\ AwaitsAll
  BY <1>1, <1>2 DEF Tracks, Joins, LiveRunsTracked, AwaitsAll, ShutdownLeavesNoRun, Live, Open
<1>6. FirstNews /\ NewsOnDisk /\ ParentKnows
  BY <1>1, <1>2 DEF FirstNews, NewsOnDisk, ParentKnows, Executing
<1>7. QED
  BY <1>3, <1>4, <1>5, <1>6 DEF HubInv, StateInv

LEMMA HubStep ==
    ASSUME HubInv, TypeOK', [Next]_vars
    PROVE  HubInv'
<1>0. TypeOK /\ FreshTracked
  BY DEF HubInv, StateInv
<1>1. FreshTracked'
  BY <1>0, StepFresh, SubmitFresh
<1>2. RunsAlone' /\ CancelsLand' /\ DownIsEmpty' /\ Books'
  BY RunsAloneKept, CancelsLandKept, DownIsEmptyKept, BooksKept DEF HubInv, StateInv, FirstNews
<1>3. RunsRead' /\ Singly' /\ Folders' /\ Bodies'
  BY SinglyKept, FoldersKept, BodiesKept DEF HubInv, StateInv
<1>4. Tracks' /\ AwaitsAll'
  BY TracksKept, AwaitsAllKept DEF HubInv, StateInv
<1>5. FirstNews' /\ NewsOnDisk' /\ ParentKnows'
  BY FirstNewsKept, ParentKnowsKept DEF HubInv, StateInv
<1>6. QED
  BY <1>1, <1>2, <1>3, <1>4, <1>5 DEF HubInv, StateInv

\* What every reachable state satisfies, whatever the environment may do.
THEOREM HubInvHolds == Spec => []HubInv
<1>1. Init /\ TypeOK => HubInv
  BY HubInit
<1>2. HubInv /\ TypeOK' /\ [Next]_vars => HubInv'
  BY HubStep
<1>3. QED
  BY <1>1, <1>2, TypeCorrect, PTL DEF Spec

\* No two runs of a task execute at once, unless tasks are both resumed and cancelled
\* while a run of theirs still delivers: then the cancelled run writes "cancelled" over
\* "running", and the task can be resumed beside its executing run.
THEOREM OneRunAtATimeHolds == NoLateWrite /\ Spec => []OneRunAtATime
<1>1. CASE NoLateWrite
  <2>1. HubInv => OneRunAtATime
    BY <1>1 DEF HubInv, Singly
  <2>2. QED
    BY <2>1, HubInvHolds, PTL
<1>2. QED
  BY <1>1, TaskHubAssumption

\* A task reads "running" exactly while a run of it has its CLI call ahead or under way,
\* as long as no run is cancelled before its first step, no folder disappears and the
\* windows of the last theorem are not both used.
THEOREM RunningIffRunHolds ==
    NoLateWrite /\ Shut("cancel_before_start") /\ Shut("folder_vanishes") /\ Spec
        => []RunningIffRun
<1>1. CASE NoLateWrite /\ Shut("cancel_before_start") /\ Shut("folder_vanishes")
  <2>1. HubInv => RunningIffRun
    BY <1>1 DEF HubInv, Bodies
  <2>2. QED
    BY <2>1, HubInvHolds, PTL
<1>2. QED
  BY <1>1

\* Whatever callers do and crashes cut short, a serving hub has a folder for every entry,
\* unless somebody else deleted it, and no folder without one but those of creations cut
\* short in the directory of a sub-agent.
THEOREM FoldersMatchHolds == Spec => []FoldersMatch
<1>1. HubInv => FoldersMatch
  BY DEF HubInv, Folders
<1>2. QED
  BY <1>1, HubInvHolds, PTL

\* Every live run is the one its task's in-flight key points at, but for those that were
\* open together with another run of their task: resuming a task whose last run still
\* delivers costs the hub these runs and no others.
THEOREM LiveRunsTrackedHolds == Spec => []LiveRunsTracked
<1>1. HubInv => LiveRunsTracked
  BY DEF HubInv, Tracks
<1>2. QED
  BY <1>1, HubInvHolds, PTL

\* shutdown() leaves behind no run but those spawned after it began and those that were
\* open together with another run of their task.
THEOREM ShutdownLeavesNoRunHolds == Spec => []ShutdownLeavesNoRun
<1>1. HubInv => ShutdownLeavesNoRun
  BY DEF HubInv, AwaitsAll
<1>2. QED
  BY <1>1, HubInvHolds, PTL

\* Whatever happens at whatever moment, what the parent heard last about a task since it
\* was last spawned is what the registry says of it.
THEOREM ParentKnowsHolds == Spec => []ParentKnows
<1>1. HubInv => ParentKnows
  BY DEF HubInv
<1>2. QED
  BY <1>1, HubInvHolds, PTL

-----------------------------------------------------------------------------
(* What no step does, and the life cycle *)

\* A task that was removed, or whose creation a crash cut short, stays removed in memory
\* and on disk, whatever late writes, requests, crashes and restarts follow.
THEOREM RemovedForGoodHolds == Spec => RemovedForGood
<1>1. HubInv /\ [Next]_vars =>
        [\A t \in Tasks :
            Spawned(t) # {} /\ entries[t] = NoEntry /\ disk[t] = NoEntry
            => entries'[t] = NoEntry /\ disk'[t] = NoEntry]_vars
  <2> SUFFICES ASSUME HubInv, [Next]_vars, NEW t \in Tasks,
                      Spawned(t) # {}, entries[t] = NoEntry, disk[t] = NoEntry
               PROVE  entries'[t] = NoEntry /\ disk'[t] = NoEntry
    OBVIOUS
  <2>0. /\ TypeOK /\ DownIsEmpty /\ Books
        /\ ~Present(t) /\ \E n \in 1 .. MaxSpawns : phase[<<t, n>>] # "unborn"
    <3>1. TypeOK /\ DownIsEmpty /\ Books
      BY DEF HubInv, StateInv
    <3>2. ~Present(t)
      BY DEF NoEntry
    <3>3. QED
      BY <3>1, <3>2 DEF Spawned
  <2> SUFFICES entries'[t] = NoEntry /\ (disk' = disk \/ disk' = entries')
    OBVIOUS
  <2>1. CASE \E r \in Runs : Born(r)
    <3>1. PICK r \in Runs : Born(r)
      BY <2>1
    <3>2. PICK q \in RunsOf(t) : phase[q] # "unborn"
      BY <2>0, RunPairs, RunsOfTask
    <3>3. r[1] # t
      BY <2>0, <3>1, <3>2 DEF Born
    <3>4. QED
      BY <3>1, <3>3 DEF Born
  <2>2. CASE \E r \in Runs : RunStep(r)
    <3>1. PICK r \in Runs : RunStep(r)
      BY <2>2
    <3>2. \A s : Writes(r[1], s) => disk' = disk \/ disk' = entries'
      BY DEF Writes
    <3>3. disk' = disk \/ disk' = entries'
      BY <3>1, <3>2, <2>0, RunMoves DEF Starts, Ends, Drops, Leaves
    <3>4. CASE t # r[1]
      BY <2>0, <3>1, <3>3, <3>4, RunFrame
    <3>5. CASE t = r[1]
      <4>1. \A s : Writes(t, s) => entries' = entries
        BY <2>0 DEF Writes
      <4>2. entries' = entries
        BY <2>0, <3>1, <3>5, <4>1, RunMoves DEF Starts, Ends, Drops, Leaves
      <4>3. QED
        BY <3>3, <4>2
    <3>6. QED
      BY <3>4, <3>5
  <2>3. CASE Quiet
    BY <2>0, <2>3, QuietSteps
  <2>4. CASE Restart
    <3>1. Loaded[t] = NoEntry
      <4>1. disk[t].status # "running"
        BY DEF NoEntry
      <4>2. QED
        BY <2>0, <4>1, LoadedIs DEF Books
    <3>2. QED
      BY <2>0, <2>4, <3>1, Restarts
  <2>5. CASE Dies
    BY <2>0, <2>5, Dying
  <2>6. QED
    BY <2>0, <2>1, <2>2, <2>3, <2>4, <2>5, StepKinds
<1>2. QED
  BY <1>1, HubInvHolds, PTL DEF Spec, RemovedForGood

\* The status a parent sees, case by case.
Sees ==
    /\ SeenStatus = [t \in Tasks |-> SeenStatus[t]]
    /\ \A t \in Tasks :
          /\ Spawned(t) = {} => SeenStatus[t] = "unborn"
          /\ Spawned(t) # {} /\ hub # "down" =>
                SeenStatus[t] = IF Present(t) THEN entries[t].status ELSE "removed"
          /\ Spawned(t) # {} /\ hub = "down" =>
                SeenStatus[t] = IF Loaded[t].status # "absent" /\ t \in folders
                                THEN Loaded[t].status ELSE "removed"

LEMMA SeenIs == Sees
BY DEF Sees, SeenStatus

LEMMA SeenNext == Sees'
BY SeenIs, PTL

\* A task stays unborn as long as its runs do.
LEMMA SameSpawned ==
    ASSUME NEW t \in Tasks, \A q \in RunsOf(t) : phase'[q] = "unborn" <=> phase[q] = "unborn"
    PROVE  Spawned(t)' = Spawned(t)
<1>1. \A n \in 1 .. MaxSpawns : phase'[<<t, n>>] = "unborn" <=> phase[<<t, n>>] = "unborn"
  BY RunPairs, RunsOfTask
<1>2. QED
  BY <1>1 DEF Spawned

\* What a parent sees while the process is up.
LEMMA SeenUp ==
    ASSUME NEW t \in Tasks, hub # "down", hub' # "down",
           Spawned(t)' = Spawned(t), entries'[t].status = entries[t].status
    PROVE  SeenStatus'[t] = SeenStatus[t]
BY SeenIs, SeenNext DEF Sees

LEMMA SeenSame ==
    ASSUME \A t \in Tasks : SeenStatus'[t] = SeenStatus[t]
    PROVE  SeenStatus' = SeenStatus
BY SeenIs, SeenNext DEF Sees

LEMMA LifecycleStep ==
    ASSUME HubInv, TypeOK', Shut("cancel_while_delivering"), Shut("folder_vanishes"), [Next]_vars
    PROVE  [Promise!Next]_SeenStatus
<1>0. /\ TypeOK /\ DownIsEmpty /\ Books
      /\ hub # "down" => \A t \in Tasks : Present(t) => t \in folders
      /\ \A t \in Tasks : \A r \in RunsOf(t) :
            Executing(r) => entries[t].status \in {"running", "absent"}
      /\ \A r \in cancelling : Executing(r)
  BY DEF HubInv, StateInv, Folders, FoldersMatch, RunsRead, CancelsLand, NoLateWrite
<1>1. ASSUME NEW r \in Runs, Born(r)
      PROVE  \E t \in Tasks : Promise!Start(t) \/ Promise!Resume(t)
  <2>1. PICK t \in Tasks : t = r[1]
    BY RunPairs
  <2>2. hub # "down" /\ hub' # "down" /\ r \in RunsOf(t)
    BY <1>1, <2>1, RunsOfTask DEF Born
  <2>3. ASSUME NEW u \in Tasks, u # t
        PROVE  SeenStatus'[u] = SeenStatus[u]
    <3>1. \A q \in RunsOf(u) : phase'[q] = phase[q]
      BY <1>1, <2>1, <2>3, RunsOfTask DEF Born
    <3>2. entries'[u] = entries[u]
      BY <1>1, <2>1, <2>3 DEF Born
    <3>3. QED
      BY <2>2, <3>1, <3>2, SameSpawned, SeenUp
  <2>4. SeenStatus'[t] = "running"
    <3>1. Spawned(t)' # {}
      BY <1>1, <2>1, RunPairs DEF Born, Spawned
    <3>2. entries'[t].status = "running"
      BY <1>1, <2>1 DEF Born
    <3>3. QED
      BY <2>2, <3>1, <3>2, SeenNext DEF Sees
  <2>5. SeenStatus' = [SeenStatus EXCEPT ![t] = "running"]
    BY <2>3, <2>4, SeenIs, SeenNext DEF Sees
  <2>6. CASE \A q \in RunsOf(t) : phase[q] = "unborn"
    <3>1. Spawned(t) = {}
      BY <2>6, RunPairs, RunsOfTask DEF Spawned
    <3>2. SeenStatus[t] = "unborn"
      BY <3>1, SeenIs DEF Sees
    <3>3. QED
      BY <2>5, <3>2 DEF Promise!Start
  <2>7. CASE Present(t) /\ entries[t].status \in Resumable
    <3>1. Spawned(t) # {}
      BY <1>0, <2>7 DEF Books
    <3>2. SeenStatus[t] = entries[t].status
      BY <2>2, <2>7, <3>1, SeenIs DEF Sees
    <3>3. QED
      BY <2>5, <2>7, <3>2 DEF Promise!Resume, Promise!Outcomes, Resumable, Finished
  <2>8. QED
    BY <1>1, <2>1, <2>6, <2>7 DEF Born
<1>2. ASSUME NEW r \in Runs, RunStep(r)
      PROVE  SeenStatus' = SeenStatus \/ \E t \in Tasks : Promise!Finish(t)
  <2>1. PICK t \in Tasks : t = r[1]
    BY RunPairs
  <2>2. /\ hub # "down" /\ hub' # "down" /\ r \in RunsOf(t)
        /\ \A q \in Runs : q # r => phase'[q] = phase[q]
        /\ \A u \in Tasks : u # t => entries'[u] = entries[u]
    BY <1>0, <1>2, <2>1, RunFrame
  <2>3. phase[r] # "unborn" /\ phase'[r] # "unborn"
    BY <1>0, <1>2, RunMoves DEF Starts, Ends, Drops, Leaves
  <2>4. \A u \in Tasks : Spawned(u)' = Spawned(u)
    <3>1. \A u \in Tasks : \A q \in RunsOf(u) : phase'[q] = "unborn" <=> phase[q] = "unborn"
      BY <2>2, <2>3, RunsOfTask
    <3>2. QED
      BY <3>1, SameSpawned
  <2>5. \A u \in Tasks : u # t => SeenStatus'[u] = SeenStatus[u]
    BY <2>2, <2>4, SeenUp
  <2>6. ASSUME entries'[t].status = entries[t].status
        PROVE  SeenStatus' = SeenStatus
    <3>1. SeenStatus'[t] = SeenStatus[t]
      BY <2>2, <2>4, <2>6, SeenUp
    <3>2. QED
      BY <2>5, <3>1, SeenSame
  <2>7. CASE Starts(r)
    <3>1. entries[t].status \in {"running", "absent"}
      BY <1>0, <2>2, <2>7 DEF Starts, Executing
    <3>2. QED
      BY <2>1, <2>6, <2>7, <3>1 DEF Starts, Writes
  <2>8. CASE Drops(r) \/ Leaves(r)
    BY <2>6, <2>8 DEF Drops, Leaves
  <2>9. ASSUME NEW s \in {"waiting", "done", "failed", "cancelled"}, Ends(r, s)
        PROVE  SeenStatus' = SeenStatus \/ Promise!Finish(t)
    <3>1. entries[t].status \in {"running", "absent"}
      BY <1>0, <2>2, <2>9 DEF Ends, Executing
    <3>2. CASE entries' = entries
      BY <2>6, <3>2
    <3>3. CASE Present(t) /\ entries'[t].status = s
      <4>1. Spawned(t) # {} /\ Spawned(t)' # {} /\ Present(t)'
        BY <1>0, <2>4, <3>3 DEF Books
      <4>2. SeenStatus[t] = "running" /\ SeenStatus'[t] = s
        BY <2>2, <3>1, <3>3, <4>1, SeenIs, SeenNext DEF Sees
      <4>3. SeenStatus' = [SeenStatus EXCEPT ![t] = s]
        BY <2>5, <4>2, SeenIs, SeenNext DEF Sees
      <4>4. QED
        BY <4>2, <4>3 DEF Promise!Finish, Promise!Outcomes
    <3>4. QED
      BY <2>1, <2>9, <3>2, <3>3 DEF Ends, Writes
  <2>10. QED
    BY <1>0, <1>2, <2>7, <2>8, <2>9, RunMoves
<1>3. ASSUME NEW S, Drop(S)
      PROVE  S \in SUBSET Tasks /\ Promise!Remove(S)
  <2>1. /\ S \in SUBSET Tasks /\ hub # "down" /\ hub' # "down" /\ phase' = phase
        /\ \A t \in S : entries[t].status \in Finished /\ entries'[t] = NoEntry
        /\ \A t \in Tasks : t \notin S => entries'[t] = entries[t]
    BY <1>3 DEF Drop, Remove, RemoveEntries, FinishedTasks
  <2>2. \A t \in Tasks : Spawned(t)' = Spawned(t)
    BY <2>1, SameSpawned
  <2>3. \A t \in Tasks : t \notin S => SeenStatus'[t] = SeenStatus[t]
    BY <2>1, <2>2, SeenUp
  <2>4. ASSUME NEW t \in S
        PROVE  SeenStatus[t] \in Finished /\ SeenStatus'[t] = "removed"
    <3>1. Present(t) /\ ~Present(t)'
      BY <2>1 DEF Finished, NoEntry
    <3>2. Spawned(t) # {} /\ Spawned(t)' # {}
      BY <1>0, <2>1, <2>2, <3>1 DEF Books
    <3>3. QED
      BY <2>1, <3>1, <3>2, SeenIs, SeenNext DEF Sees
  <2>5. SeenStatus' = [t \in Tasks |-> IF t \in S THEN "removed" ELSE SeenStatus[t]]
    BY <2>3, <2>4, SeenIs, SeenNext DEF Sees
  <2>6. QED
    BY <2>1, <2>4, <2>5 DEF Promise!Remove, Promise!Removable, Finished
<1>4. ASSUME Quiet, ~ \E S : Drop(S)
      PROVE  SeenStatus' = SeenStatus
  <2>1. CASE UNCHANGED vars
    BY <2>1 DEF vars, SeenStatus, Loaded, Spawned
  <2>2. CASE ~ UNCHANGED vars
    <3>1. hub # "down" /\ hub' # "down" /\ phase' = phase
      BY <1>0, <1>4, <2>2, QuietSteps
         DEF Quiet, ForwardQuestion, Cancels, Maintenance, ShutdownReturns, FolderVanishes, Shut
    <3>2. \A t \in Tasks : entries'[t] = entries[t]
      <4>1. CASE Maintenance
        <5>1. \A t \in Tasks : entries'[t] = entries[t] \/ (entries'[t] = NoEntry /\ t \notin folders)
          <6>1. /\ entries \in [Tasks -> Entry] /\ folders \subseteq Tasks /\ CleanupOrphans(entries)
                /\ \A t \in Tasks : entries[t].status = "absent" => entries[t] = NoEntry
            BY <1>0, <4>1 DEF Maintenance, Books, TypeOK
          <6>2. QED
            BY <6>1, Cleanup
        <5>2. QED
          BY <1>0, <3>1, <5>1 DEF Books
      <4>2. CASE \E r \in Runs : ForwardQuestion(r)
        BY <1>0, <4>2, RunPairs DEF ForwardQuestion, UpdateStatus, TypeOK
      <4>3. QED
        BY <1>4, <2>2, <4>1, <4>2 DEF Quiet, Cancels, ShutdownReturns, FolderVanishes
    <3>3. \A t \in Tasks : Spawned(t)' = Spawned(t)
      BY <3>1, SameSpawned
    <3>4. QED
      BY <3>1, <3>2, <3>3, SeenUp, SeenSame
  <2>3. QED
    BY <2>1, <2>2
<1>5. ASSUME Restart
      PROVE  SeenStatus' = SeenStatus
  <2>1. /\ hub = "down" /\ hub' = "up" /\ phase' = phase
        /\ folders' \subseteq folders /\ \A t \in Tasks : Present(t)' => t \in folders'
        /\ \A t \in Tasks : \/ entries'[t] = Loaded[t]
                            \/ entries'[t] = NoEntry /\ t \notin folders
    BY <1>0, <1>5, Restarts
  <2>2. ASSUME NEW t \in Tasks
        PROVE  SeenStatus'[t] = SeenStatus[t]
    <3>1. Spawned(t)' = Spawned(t)
      BY <2>1, SameSpawned
    <3>2. ~Present(t)' <=> (Loaded[t].status = "absent" \/ t \notin folders)
      BY <2>1 DEF NoEntry
    <3>3. Present(t)' => entries'[t].status = Loaded[t].status
      BY <2>1, <3>2
    <3>4. QED
      BY <2>1, <3>1, <3>2, <3>3, SeenIs, SeenNext DEF Sees
  <2>3. QED
    BY <2>2, SeenSame
<1>6. ASSUME Dies
      PROVE  \E S \in SUBSET Tasks : Promise!ProcessLost(S)
  <2>0. /\ hub # "down" /\ hub' = "down" /\ disk' = disk /\ Loaded' = Loaded
        /\ \A t \in Tasks : Present(t) => t \in folders
    BY <1>0, <1>6, Dying DEF Loaded
  <2>1. ASSUME NEW S \in SUBSET Tasks,
               \A t \in Tasks : t \notin S => /\ Spawned(t)' = Spawned(t)
                                              /\ t \in folders' <=> t \in folders,
               \A t \in S : /\ SeenStatus[t] \in Finished \cup {"unborn"}
                            /\ SeenStatus'[t] = "removed"
        PROVE  Promise!ProcessLost(S)
    <3>1. ASSUME NEW t \in Tasks, t \notin S
          PROVE  SeenStatus'[t] = IF SeenStatus[t] = "running" THEN "failed" ELSE SeenStatus[t]
      <4>1. CASE Spawned(t) = {}
        BY <2>1, <3>1, <4>1, SeenIs, SeenNext DEF Sees
      <4>2. CASE Spawned(t) # {} /\ t \notin folders
        BY <2>0, <2>1, <3>1, <4>2, SeenIs, SeenNext DEF Sees
      <4>5. CASE Spawned(t) # {} /\ t \in folders /\ ~Present(t)
        <5>1. SeenStatus[t] = "removed"
          BY <2>0, <4>5, SeenIs DEF Sees
        <5>2. Loaded[t].status = "absent"
          <6>1. \A u \in Tasks : disk[u].status = "absent" => disk[u] = NoEntry
            BY <1>0 DEF Books
          <6>2. disk[t] \in Entry /\ [disk[t] EXCEPT !.status = "failed"].status = "failed"
            BY <1>0 DEF TypeOK, Entry
          <6>3. disk[t] = entries[t]
            BY <1>0, <2>0, <4>5, <6>2 DEF Books
          <6>4. QED
            BY <1>0, <4>5, <6>1, <6>3, LoadedIs
        <5>3. QED
          BY <2>0, <2>1, <3>1, <4>5, <5>1, <5>2, SeenNext DEF Sees
      <4>3. CASE Spawned(t) # {} /\ t \in folders /\ Present(t)
        <5>1. SeenStatus[t] = entries[t].status
          BY <2>0, <4>3, SeenIs DEF Sees
        <5>2. /\ Loaded[t].status # "absent"
              /\ Loaded[t].status = IF entries[t].status = "running" THEN "failed"
                                    ELSE entries[t].status
          <6>1. \A u \in Tasks : disk[u].status = "absent" => disk[u] = NoEntry
            BY <1>0 DEF Books
          <6>2. Present(t) /\ disk[t] \in Entry
            BY <1>0, <2>0, <4>3 DEF TypeOK
          <6>3. CASE disk[t] = entries[t]
            BY <1>0, <6>1, <6>2, <6>3, LoadedIs
          <6>4. CASE disk[t].status = "running" /\ entries[t] = [disk[t] EXCEPT !.status = "failed"]
            <7>1. entries[t].status = "failed"
              BY <6>2, <6>4 DEF Entry
            <7>2. QED
              BY <1>0, <6>1, <6>4, <7>1, LoadedIs
          <6>5. QED
            BY <1>0, <2>0, <6>3, <6>4 DEF Books
        <5>3. SeenStatus'[t] = Loaded[t].status
          BY <2>0, <2>1, <3>1, <4>3, <5>2, SeenNext DEF Sees
        <5>4. QED
          BY <5>1, <5>2, <5>3
      <4>4. QED
        BY <4>1, <4>2, <4>3, <4>5
    <3>2. SeenStatus' = [t \in Tasks |-> IF t \in S THEN "removed"
                                         ELSE IF SeenStatus[t] = "running" THEN "failed"
                                         ELSE SeenStatus[t]]
      BY <2>1, <3>1, SeenIs, SeenNext DEF Sees
    <3>3. QED
      BY <2>1, <3>2 DEF Promise!ProcessLost, Promise!Removable, Finished
  <2>2. ASSUME NEW S, RunsEnd(S), NEW t \in Tasks, \A q \in RunsOf(t) : q \notin S
        PROVE  Spawned(t)' = Spawned(t)
    <3>1. \A q \in RunsOf(t) : phase'[q] = "unborn" <=> phase[q] = "unborn"
      BY <2>2, RunsOfTask DEF RunsEnd
    <3>2. QED
      BY <3>1, SameSpawned
  <2>3. ASSUME RunsEnd({}), NEW S \in SUBSET FinishedTasks, folders' = folders \ S
        PROVE  Promise!ProcessLost(S)
    <3>1. S \in SUBSET Tasks /\ \A t \in Tasks : Spawned(t)' = Spawned(t)
      BY <2>2, <2>3 DEF FinishedTasks
    <3>2. ASSUME NEW t \in S
          PROVE  SeenStatus[t] \in Finished \cup {"unborn"} /\ SeenStatus'[t] = "removed"
      <4>1. t \in Tasks /\ entries[t].status \in Finished /\ Present(t)
        BY <2>3 DEF FinishedTasks, Finished
      <4>2. Spawned(t) # {}
        BY <1>0, <4>1 DEF Books
      <4>3. SeenStatus[t] = entries[t].status
        BY <2>0, <4>1, <4>2, SeenIs DEF Sees
      <4>4. SeenStatus'[t] = "removed"
        BY <2>0, <2>3, <3>1, <4>1, <4>2, SeenNext DEF Sees
      <4>5. QED
        BY <4>1, <4>3, <4>4
    <3>3. QED
      BY <2>1, <2>3, <3>1, <3>2
  <2>4. ASSUME NEW u \in Tasks, Spawned(u) = {}, folders' = folders \cup {u}, RunsEnd({<<u, 1>>})
        PROVE  Promise!ProcessLost({u})
    <3>1. <<u, 1>> \in Runs /\ <<u, 1>> \in RunsOf(u)
      BY RunPairs, RunsOfTask, TaskHubAssumption
    <3>2. Spawned(u)' # {}
      <4>1. phase'[<<u, 1>>] = "ended" /\ 1 \in 1 .. MaxSpawns
        BY <2>4, <3>1, TaskHubAssumption DEF RunsEnd
      <4>2. QED
        BY <4>1 DEF Spawned
    <3>3. Loaded[u].status = "absent"
      <4>1. disk[u].status = "absent" /\ \A t \in Tasks : disk[t].status = "absent" => disk[t] = NoEntry
        BY <1>0, <2>4 DEF Books
      <4>2. QED
        BY <1>0, <4>1, LoadedIs
    <3>4. SeenStatus[u] = "unborn" /\ SeenStatus'[u] = "removed"
      BY <2>0, <2>4, <3>2, <3>3, SeenIs, SeenNext DEF Sees
    <3>5. \A t \in Tasks : t # u => Spawned(t)' = Spawned(t) /\ (t \in folders' <=> t \in folders)
      BY <2>2, <2>4, RunsOfTask
    <3>6. QED
      BY <2>1, <3>4, <3>5
  <2>5. CASE RunsEnd({}) /\ folders' = folders
    <3>1. {} \in SUBSET FinishedTasks /\ folders' = folders \ {} /\ {} \in SUBSET Tasks
      BY <2>5
    <3>2. QED
      BY <2>3, <2>5, <3>1
  <2>6. QED
    BY <1>6, <2>3, <2>4, <2>5 DEF Dies, FinishedTasks
<1>7. QED
  BY <1>0, <1>1, <1>2, <1>3, <1>4, <1>5, <1>6, StepKinds DEF Quiet, Promise!Next

\* If no run is cancelled while it delivers and nobody deletes folders, the hub
\* implements the life cycle its parent agents rely on: seen by them, every step of the
\* hub starts, ends, resumes or removes as the life cycle allows, or changes nothing, and
\* a crash at any point leaves what it allows too.
THEOREM LifecycleImplemented ==
    Shut("cancel_while_delivering") /\ Shut("folder_vanishes") /\ Spec => ImplementsLifecycle
<1>1. Init => Promise!Init
  <2> SUFFICES ASSUME Init
               PROVE  Promise!Init
    OBVIOUS
  <2>1. \A t \in Tasks : Spawned(t) = {}
    BY RunPairs DEF Init, Spawned
  <2>2. QED
    BY <2>1, SeenIs DEF Sees, Promise!Init
<1>2. CASE Shut("cancel_while_delivering") /\ Shut("folder_vanishes")
  <2>1. HubInv /\ TypeOK' /\ [Next]_vars => [Promise!Next]_SeenStatus
    BY <1>2, LifecycleStep
  <2>2. QED
    BY <1>1, <2>1, HubInvHolds, TypeCorrect, PTL DEF Spec, ImplementsLifecycle, Promise!Spec
<1>3. QED
  BY <1>2
=============================================================================
