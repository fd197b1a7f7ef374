----------------------------- MODULE Supervisor -----------------------------
(***************************************************************************)
(* The agent supervisor: multiagent/supervisor.py with AgentHealth,        *)
(* FileWatcher and the registration part of InterAgentBus.                 *)
(*                                                                         *)
(* Every agent runs in an asyncio task of its own (a run), which restarts  *)
(* it after a crash.  Beside the runs there are callers: the watcher of    *)
(* agents.json, the /agent_* commands of the main bot and the shutdown.    *)
(* A caller works off a plan of starts and stops, each with awaits inside. *)
(*                                                                         *)
(* A stack belongs to one run for good (a rebuilt stack replaces it        *)
(* wherever it is referred to), so it goes by the number of its run.       *)
(***************************************************************************)
EXTENDS Integers, FiniteSets

CONSTANTS
    Main, Subs,   \* the main agent and the names agents.json may hold
    Slots,        \* bound: numbers of the runs of an agent; one is free again
                  \* once nothing refers to it
    Configs,      \* what _config_changed tells apart
    Watcher, Commands, Shutdown, \* callers
    Concurrent,   \* FALSE: a command begins only when no caller is at work, and
                  \* the watcher only when no command is
    MaxTries,     \* _MAX_RESTART_RETRIES
    MaxEdits,     \* bound: changes of agents.json
    None

Agents  == Subs \cup {Main}
Callers == Commands \cup {Watcher, Shutdown}

ASSUME SupervisorAssumption ==
    /\ Main \notin Subs
    /\ 0 \notin Slots /\ 1 \in Slots
    /\ None \notin Configs
    /\ {Watcher, Shutdown} \cap Commands = {} /\ Watcher # Shutdown
    /\ MaxTries \in Nat /\ MaxEdits \in Nat
    /\ Concurrent \in BOOLEAN

VARIABLES
    running,   \* AgentSupervisor._running
    file,      \* agents.json: the configuration of every name in it
    seen,      \* the watcher knows the file's mtime
    edits,     \* changes of the file so far
    stacks, tasks, bus, handler,  \* the tables by agent name (0: no entry)
    health,    \* AgentHealth.status (None: no entry)
    run,       \* the supervised runs of every agent; "new": created, not begun;
               \* "closing", "building": the old stack shuts down, a new one is
               \* created; "notifying": it gives up and tells the main agent
    op         \* what every caller does

vars == <<running, file, seen, edits, stacks, tasks, bus, handler, health, run, op>>
tables == <<stacks, bus, handler>>
world  == <<running, file, seen, edits>>

\* why: what a rebuild follows.  own: its AgentHealth is the one in the table.
\* closed: its stack was shut down.
Ended == [at |-> "done", why |-> None, tries |-> 0, cancelled |-> FALSE, own |-> FALSE,
          closed |-> TRUE, config |-> None]

Item(rank, verb, a, f) ==
    [rank |-> rank, verb |-> verb, agent |-> a, config |-> IF a \in Subs THEN f[a] ELSE None]
Nothing == [rank |-> 0, verb |-> "none", agent |-> Main, config |-> None]

Live(a)    == {i \in Slots : run[a][i].at # "done"}
Named(f)   == {a \in Subs : f[a] # None}
Present    == {a \in Subs : stacks[a] # 0}
Resting(c) == op[c].at \in {"idle", "dead", "over"}
InHand(a)  == \E c \in Callers : ~Resting(c) /\ (op[c].job.agent = a
                                                 \/ \E t \in op[c].todo : t.agent = a)
Free(a)    == {i \in Slots \ {stacks[a], tasks[a], bus[a], handler[a]} :
                 /\ i \notin Live(a)
                 /\ \A c \in Callers : op[c].job.agent = a => op[c].slot # i}

Init ==
    /\ running = TRUE
    /\ file \in [Subs -> Configs \cup {None}]
    /\ seen = FALSE
    /\ edits = 0
    \* start() up to the point where the main bot is ready.
    /\ LET main == [a \in Agents |-> IF a = Main THEN 1 ELSE 0] IN
       /\ stacks = main /\ tasks = main /\ bus = main /\ handler = main
    /\ health = [a \in Agents |-> IF a = Main THEN "running" ELSE None]
    /\ run = [a \in Agents |-> [i \in Slots |->
                 IF a = Main /\ i = 1
                 THEN [Ended EXCEPT !.at = "running", !.own = TRUE, !.closed = FALSE]
                 ELSE Ended]]
    \* _sync_sub_agents comes next; the watcher's task begins after it.
    /\ op = [c \in Callers |->
                [at   |-> IF c = Watcher THEN "next" ELSE "idle",
                 todo |-> IF c = Watcher THEN {Item(1, "sync", a, file) : a \in Named(file)} ELSE {},
                 job  |-> Nothing, slot |-> 0]]

-----------------------------------------------------------------------------
(* _supervised_run *)

Becomes(a, i, r) == run' = [run EXCEPT ![a][i] = r]
Mark(a, r, status) == health' = IF r.own THEN [health EXCEPT ![a] = status] ELSE health
End(a, i, r)  == Becomes(a, i, [Ended EXCEPT !.closed = r.closed, !.config = r.config])

\* Fault: the loop does not look at _running.
LoopForever(a, i, r) ==
    /\ Becomes(a, i, [r EXCEPT !.at = "running", !.why = None])
    /\ Mark(a, r, "running")
\* The head of the loop: run the stack, or finish when the supervisor stops.
Loop(a, i, r) ==
    IF running
    THEN /\ Becomes(a, i, [r EXCEPT !.at = "running", !.why = None])
         /\ Mark(a, r, "running")
    ELSE End(a, i, r) /\ Mark(a, r, "stopped")

Begin(a, i) ==
    /\ run[a][i].at = "new"
    /\ ~run[a][i].cancelled
    /\ Loop(a, i, [run[a][i] EXCEPT !.own = TRUE])
    /\ UNCHANGED <<tables, tasks>>

In(a, i, place) == run[a][i].at = place /\ ~run[a][i].cancelled

\* The bot exits by itself, or because its stack was shut down under it.
Exit(a, i) ==
    /\ In(a, i, "running")
    /\ End(a, i, run[a][i])
    /\ Mark(a, run[a][i], "stopped")
    /\ UNCHANGED <<tables, tasks>>

\* It exits to be restarted: the main agent ends, a sub-agent is rebuilt.
ExitForRestart(a, i) ==
    /\ In(a, i, "running")
    /\ IF a = Main
       THEN End(a, i, run[a][i]) /\ Mark(a, run[a][i], "stopped")
       ELSE /\ Becomes(a, i, [run[a][i] EXCEPT !.at = "closing", !.why = "restart"])
            /\ Mark(a, run[a][i], "starting")
    /\ UNCHANGED <<tables, tasks>>

HandleCrash(a, i) ==
    LET r == [run[a][i] EXCEPT !.tries = @ + 1] IN
    /\ Mark(a, r, "crashed")
    /\ IF a = Main
       THEN End(a, i, r)
       ELSE Becomes(a, i, [r EXCEPT !.at = IF r.tries > MaxTries THEN "notifying" ELSE "sleeping",
                                    !.why = "crash"])

Crash(a, i) ==
    /\ In(a, i, "running")
    /\ HandleCrash(a, i)
    /\ UNCHANGED <<tables, tasks>>

Wake(a, i) ==
    /\ In(a, i, "sleeping")
    /\ Becomes(a, i, [run[a][i] EXCEPT !.at = "closing"])
    /\ UNCHANGED <<health, tables, tasks>>

\* The old stack has shut down; an error of it counts as a crash after an exit
\* for restart, and is suppressed after a crash.
OldStackDown(a, i) ==
    /\ In(a, i, "closing")
    /\ \/ /\ Becomes(a, i, [run[a][i] EXCEPT !.at = "building", !.closed = TRUE])
          /\ UNCHANGED health
       \/ run[a][i].why = "restart" /\ HandleCrash(a, i)
    /\ UNCHANGED <<tables, tasks>>

Register(a, i) ==
    /\ stacks' = [stacks EXCEPT ![a] = i]
    /\ bus' = [bus EXCEPT ![a] = i]
    /\ handler' = [handler EXCEPT ![a] = i]

\* _rebuild_stack returns.
Rebuilt(a, i) ==
    /\ In(a, i, "building")
    /\ Register(a, i)
    /\ Loop(a, i, [run[a][i] EXCEPT !.closed = FALSE,
                                    !.tries = IF run[a][i].why = "restart" THEN 0 ELSE @])
    /\ UNCHANGED tasks

\* It raises: one more crash, or the loop goes on with the stack that was shut down.
RebuildFails(a, i) ==
    /\ In(a, i, "building")
    /\ IF run[a][i].why = "restart" THEN HandleCrash(a, i) ELSE Loop(a, i, run[a][i])
    /\ UNCHANGED <<tables, tasks>>

\* The main agent has been told that this one is given up.
GiveUp(a, i) ==
    /\ In(a, i, "notifying")
    /\ End(a, i, run[a][i])
    /\ UNCHANGED <<health, tables, tasks>>

\* CancelledError: health is marked inside the try statement, not in the handler
\* of a crash.
Unwind(a, i) ==
    /\ run[a][i].cancelled
    /\ End(a, i, run[a][i])
    /\ IF run[a][i].at = "running" \/ run[a][i].why = "restart"
       THEN Mark(a, run[a][i], "stopped")
       ELSE UNCHANGED health
    /\ UNCHANGED <<tables, tasks>>

\* The bot's shutdown awaits tasks it cancelled with CancelledError suppressed;
\* a cancellation that arrives there is lost.
Swallow(a, i) ==
    /\ run[a][i].cancelled
    /\ run[a][i].at = "closing"
    /\ Becomes(a, i, [run[a][i] EXCEPT !.cancelled = FALSE, !.at = "building", !.closed = TRUE])
    /\ UNCHANGED <<health, tables, tasks>>

\* Steps a run takes by itself, and steps of its bot.
RunStep(a, i) ==
    /\ \/ Begin(a, i) \/ Wake(a, i) \/ OldStackDown(a, i) \/ Rebuilt(a, i)
       \/ RebuildFails(a, i) \/ GiveUp(a, i) \/ Unwind(a, i) \/ Swallow(a, i)
       \/ run[a][i].closed /\ Exit(a, i)
    /\ UNCHANGED <<world, op>>
BotStep(a, i) ==
    /\ Exit(a, i) \/ ExitForRestart(a, i) \/ Crash(a, i)
    /\ UNCHANGED <<world, op>>

-----------------------------------------------------------------------------
(* _start_sub_agent and stop_agent *)

Does(c, place, t, i) ==
    op' = [op EXCEPT ![c] = [at |-> place, todo |-> op[c].todo \ {t}, job |-> t, slot |-> i]]
Done(c) == Does(c, "next", Nothing, 0)

\* AgentStack.create returned (and the config file is written): everything is
\* registered and the run created in one step.
Created(c) ==
    LET a == op[c].job.agent IN
    /\ op[c].at = "creating"
    /\ \E i \in Free(a) :
          /\ Register(a, i)
          /\ tasks' = [tasks EXCEPT ![a] = i]
          /\ run' = [run EXCEPT ![a] = [j \in Slots |->
                        IF j = i THEN [Ended EXCEPT !.at = "new", !.closed = FALSE,
                                                    !.config = op[c].job.config]
                        ELSE [run[a][j] EXCEPT !.own = FALSE]]]
    /\ health' = [health EXCEPT ![a] = "stopped"]
    /\ Done(c)

\* create raises, which is logged; or writing the config file raises, which
\* ends the command, or the watcher's task.
NotCreated(c) ==
    /\ op[c].at = "creating"
    /\ \/ Done(c)
       \/ op' = [op EXCEPT ![c] = [at |-> IF c = Watcher THEN "dead" ELSE "idle",
                                   todo |-> {}, job |-> Nothing, slot |-> 0]]
    /\ UNCHANGED <<tables, tasks, health, run>>

\* Fault: the bus keeps the agent.
UnregisterNot(a) ==
    /\ health' = IF a = Main \/ health[a] = None THEN health
                 ELSE [health EXCEPT ![a] = "stopped"]
    /\ UNCHANGED bus
Unregister(a) ==
    /\ bus' = [bus EXCEPT ![a] = 0]
    /\ health' = IF a = Main \/ health[a] = None THEN health
                 ELSE [health EXCEPT ![a] = "stopped"]

\* stop_agent once the run has ended: the stack is popped and shut down.
PopStack(c, t) ==
    LET a == t.agent IN
    /\ stacks' = [stacks EXCEPT ![a] = 0]
    /\ IF stacks[a] # 0
       THEN Does(c, "closing", t, stacks[a]) /\ UNCHANGED <<bus, health>>
       ELSE Unregister(a) /\ Does(c, "next", t, 0)
    /\ UNCHANGED handler

\* stop_agent up to its first await.
Stop(c, t) ==
    LET a == t.agent
        i == tasks[a]
    IN  /\ tasks' = [tasks EXCEPT ![a] = 0]
        /\ IF i \in Live(a)
           THEN /\ run' = [run EXCEPT ![a][i].cancelled = TRUE]
                /\ Does(c, "cancelling", t, i)
                /\ UNCHANGED <<tables, health>>
           ELSE PopStack(c, t) /\ UNCHANGED run

\* Fault: stop_agent does not await the run it has cancelled.
RunCancelled(c) ==
    /\ op[c].at = "cancelling"
    /\ PopStack(c, op[c].job)
    /\ UNCHANGED <<tasks, run>>
\* The run it cancelled has ended.
RunEnded(c) ==
    /\ op[c].at = "cancelling"
    /\ op[c].slot \notin Live(op[c].job.agent)
    /\ PopStack(c, op[c].job)
    /\ UNCHANGED <<tasks, run>>

\* stack.shutdown() has returned.
StackDown(c) ==
    LET a == op[c].job.agent IN
    /\ op[c].at = "closing"
    /\ run' = [run EXCEPT ![a][op[c].slot].closed = TRUE]
    /\ Unregister(a)
    /\ Done(c)
    /\ UNCHANGED <<stacks, handler, tasks>>

\* Fault: a changed configuration is started beside the old one.
CheckStartsOnly(c, t) ==
    op' = [op EXCEPT ![c].todo = (@ \ {t}) \cup {[t EXCEPT !.rank = 2, !.verb = "start"]}]
\* An agent whose configuration changed is stopped and started again.
Check(c, t) ==
    op' = [op EXCEPT ![c].todo = (@ \ {t}) \cup {[t EXCEPT !.rank = 1, !.verb = "stop"],
                                                 [t EXCEPT !.rank = 2, !.verb = "start"]}]

Changed(t) == stacks[t.agent] # 0 /\ run[t.agent][stacks[t.agent]].config # t.config

\* What a caller does next, with no await before it.
Continue(c, t) ==
    \/ t.verb = "stop" /\ Stop(c, t)
    \/ /\ \/ t.verb = "start" /\ Does(c, "creating", t, 0)
          \/ t.verb = "sync" /\ Does(c, IF stacks[t.agent] = 0 THEN "creating" ELSE "next", t, 0)
          \/ t.verb = "check" /\ IF Changed(t) THEN Check(c, t) ELSE Does(c, "next", t, 0)
       /\ UNCHANGED <<tables, tasks, health, run>>

NextItem(c) ==
    /\ op[c].at = "next"
    /\ \E t \in op[c].todo :
          /\ \A u \in op[c].todo : t.rank <= u.rank
          /\ Continue(c, t)

PlanDone(c) ==
    /\ op[c].at = "next"
    /\ op[c].todo = {}
    /\ op' = [op EXCEPT ![c] = [@ EXCEPT !.at = IF c = Shutdown THEN "over" ELSE "idle",
                                         !.job = Nothing]]
    /\ UNCHANGED <<tables, tasks, health, run>>

\* Steps of a caller after an await, and those without.
CallerStep(c) ==
    /\ Created(c) \/ NotCreated(c) \/ RunEnded(c) \/ StackDown(c)
    /\ UNCHANGED world
PlanStep(c) ==
    /\ NextItem(c) \/ PlanDone(c)
    /\ UNCHANGED world

-----------------------------------------------------------------------------
(* Where plans come from *)

Plan(c, items) == op' = [op EXCEPT ![c] = [at |-> "next", todo |-> items, job |-> Nothing, slot |-> 0]]

MayBegin(c) ==
    /\ running
    /\ op[c].at = "idle"
    /\ Concurrent \/ \A d \in Callers \ {Watcher} : Resting(d)

\* /agent_start, /agent_stop and /agent_restart, which the main bot answers.
Command(c, a) ==
    /\ MayBegin(c)
    /\ Concurrent \/ Resting(Watcher)
    /\ \E i \in Live(Main) : In(Main, i, "running")
    /\ \/ stacks[a] = 0 /\ file[a] # None /\ Plan(c, {Item(2, "start", a, file)})
       \/ stacks[a] # 0 /\ Plan(c, {Item(1, "stop", a, file)})
       \/ stacks[a] # 0 /\ file[a] # None
          /\ Plan(c, {Item(1, "stop", a, file), Item(2, "start", a, file)})
    /\ UNCHANGED <<world, tables, tasks, health, run>>

\* agents.json is written.
Edit ==
    /\ running
    /\ edits < MaxEdits
    /\ edits' = edits + 1
    /\ file' \in [Subs -> Configs \cup {None}] \ {file}
    /\ seen' = FALSE
    /\ UNCHANGED <<running, tables, tasks, health, run, op>>

\* _on_agents_changed: new names are started, missing ones stopped, the others
\* compared.  Nobody else takes _agents_lock.
Poll ==
    /\ MayBegin(Watcher)
    /\ ~seen
    /\ seen' = TRUE
    /\ Plan(Watcher, {Item(1, "start", a, file) : a \in Named(file) \ Present}
                     \cup {Item(2, "stop", a, file) : a \in Present \ Named(file)}
                     \cup {Item(3, "check", a, file) : a \in Named(file) \cap Present})
    /\ UNCHANGED <<running, file, edits, tables, tasks, health, run>>

\* The watcher's task is cancelled and awaited.  The suppress(CancelledError) of
\* stop_agent keeps it alive where it awaits a run: the run is cancelled instead.
\* Where it awaits a shutdown the bot may swallow the cancellation.
CancelWatcher(rest) ==
    LET w == op[Watcher]
        dead == [at |-> "dead", todo |-> {}, job |-> Nothing, slot |-> 0]
    IN  CASE w.at = "cancelling" ->
               /\ run' = [run EXCEPT ![w.job.agent][w.slot].cancelled =
                                        @ \/ w.slot \in Live(w.job.agent)]
               /\ op' = [rest EXCEPT ![Watcher] = w]
          [] w.at = "closing" ->
               /\ op' \in {[rest EXCEPT ![Watcher] = dead], rest}
               /\ UNCHANGED run
          [] OTHER ->
               /\ op' = [rest EXCEPT ![Watcher] = dead]
               /\ UNCHANGED run

\* stop_all, called when start() returns or is cancelled.
BeginShutdown ==
    /\ running
    /\ running' = FALSE
    /\ CancelWatcher([op EXCEPT ![Shutdown].at = "waiting"])
    /\ UNCHANGED <<file, seen, edits, tables, tasks, health>>

\* The watcher has ended: the sub-agents registered by now are stopped, then main.
ShutdownGoesOn ==
    /\ op[Shutdown].at = "waiting"
    /\ Resting(Watcher)
    /\ Plan(Shutdown, {Item(1, "stop", a, file) : a \in Present} \cup {Item(2, "stop", Main, file)})
    /\ UNCHANGED <<running, file, seen, edits, tables, tasks, health, run>>

-----------------------------------------------------------------------------
\* Between two items of a plan nothing else runs.
Between == \E c \in Callers : op[c].at = "next"

Next ==
    \/ \E c \in Callers : PlanStep(c)
    \/ /\ ~Between
       /\ \/ \E a \in Agents, i \in Slots : RunStep(a, i) \/ BotStep(a, i)
          \/ \E c \in Callers : CallerStep(c)
          \/ \E c \in Commands, a \in Subs : Command(c, a)
          \/ Edit \/ Poll \/ BeginShutdown \/ ShutdownGoesOn

Spec == Init /\ [][Next]_vars

\* A run and a caller go on as long as what they await comes back; a bot need not
\* exit or crash.
Fairness ==
    /\ WF_vars(~Between /\ ShutdownGoesOn)
    /\ \A c \in Callers : WF_vars(PlanStep(c)) /\ WF_vars(~Between /\ CallerStep(c))
    /\ \A a \in Agents, i \in Slots : WF_vars(~Between /\ RunStep(a, i))

FairSpec == Spec /\ Fairness

-----------------------------------------------------------------------------
(* Properties *)

\* "Each agent runs as a supervised asyncio task": an agent never has two runs
\* that are alive, which would poll with one token, and the one it has is the one
\* a stop cancels or has cancelled.
OneRun ==
    \A a \in Agents : \A i \in Live(a) :
        /\ Live(a) = {i}
        /\ i = tasks[a] \/ \E c \in Callers :
                              /\ op[c].at \in {"cancelling", "closing"}
                              /\ op[c].job.agent = a /\ op[c].slot = i

\* Where no caller is at work on an agent, the stack a message is sent to, the
\* stack a stop shuts down and the stack the run drives are the same.
TablesAgree ==
    running => \A a \in Agents : ~InHand(a) =>
        /\ stacks[a] = bus[a]
        /\ \A i \in Live(a) : i = stacks[a] /\ i = handler[a]

\* Until the supervisor stops, a stack that was taken out of the table comes back
\* only when somebody starts the agent: the rebuild of a run that was being
\* stopped never does it.
NoResurrection ==
    [][\A a \in Agents : running /\ stacks[a] = 0 /\ stacks'[a] # 0 =>
          \E c \in Callers : op[c].at = "creating" /\ op[c].job.agent = a]_vars

\* stop_all ends, whatever it meets, and leaves no bot running for good: neither
\* a swallowed cancellation nor a start that was under way keeps one alive.
ShutdownEnds ==
    ~running ~> [](op[Shutdown].at = "over" /\ \A a \in Agents : Live(a) = {})
=============================================================================
