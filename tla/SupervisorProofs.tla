-------------------------- MODULE SupervisorProofs --------------------------
(***************************************************************************)
(* Proof that, with one caller at work at a time besides the shutdown, an  *)
(* agent never has two live runs, that the tables agree where nobody is at *)
(* work on an agent, and that a stopped agent stays out of them.           *)
(*                                                                         *)
(* OneRun is not inductive: a second run is created where a plan says so,  *)
(* so the plans have to be right.  Whoever is about to start an agent has  *)
(* stopped it before or has found it stopped, and nobody has started it    *)
(* since (Clear); that nobody has follows from who may be at work (Solo,   *)
(* ShutdownLast) and from what a plan holds (Orderly).                     *)
(***************************************************************************)
EXTENDS Supervisor, TLAPS

LivePlaces == {"new", "running", "closing", "building", "sleeping", "notifying"}
RunPlaces  == LivePlaces \cup {"done"}
RunRecords ==
    [at : RunPlaces, why : {"restart", "crash", None}, tries : Nat, cancelled : BOOLEAN,
     own : BOOLEAN, closed : BOOLEAN, config : Configs \cup {None}]
\* Nobody cancels a run that has ended.
Supervised == {r \in RunRecords : r.cancelled => r.at # "done"}

CallerPlaces ==
    {"idle", "next", "creating", "cancelling", "closing", "waiting", "over", "dead"}
Items ==
    [rank : 1 .. 3, verb : {"start", "stop", "sync", "check"}, agent : Agents,
     config : Configs \cup {None}]
Jobs  == Items \cup {Nothing}
Callings == [at : CallerPlaces, todo : SUBSET Items, job : Jobs, slot : Slots \cup {0}]

Tables == [Agents -> Slots \cup {0}]
Typed ==
    /\ running \in BOOLEAN
    /\ file \in [Subs -> Configs \cup {None}]
    /\ stacks \in Tables /\ tasks \in Tables /\ bus \in Tables /\ handler \in Tables
    /\ run \in [Agents -> [Slots -> Supervised]]
    /\ op \in [Callers -> Callings]

-----------------------------------------------------------------------------
(* What plans look like *)

At(c, places) == op[c].at \in places
Works(c, a)   == op[c].job.agent = a

\* One item for an agent, or a stop and a start after it.
Before(t, u) == t.verb = "stop" /\ u.verb = "start" /\ t.rank < u.rank
Orderly ==
    \A c \in Callers : \A t, u \in op[c].todo :
        t.agent = u.agent => t = u \/ Before(t, u) \/ Before(u, t)

\* What is left to do for the agent at work is to start it once it is stopped.
JobFirst ==
    \A c \in Callers :
        /\ At(c, {"creating", "cancelling", "closing"}) =>
              \A t \in op[c].todo : Works(c, t.agent) => t.verb = "start" /\ op[c].at # "creating"
        /\ At(c, {"cancelling", "closing"}) => op[c].slot \in Slots /\ op[c].job \in Items
        /\ Resting(c) => op[c].todo = {}

\* Besides the shutdown one caller is at work, and one at all is between two awaits.
Solo ==
    /\ \A c, d \in Callers \ {Shutdown} : Resting(c) \/ Resting(d) \/ c = d
    /\ \A c, d \in Callers : op[c].at = "next" /\ op[d].at = "next" => c = d

\* The shutdown stops agents only; by then no other caller has a stop ahead.  A
\* command is about one agent.
ShutdownLast ==
    /\ running => op[Shutdown].at = "idle"
    /\ op[Shutdown].at # "creating" /\ \A t \in op[Shutdown].todo : t.verb = "stop"
    /\ ~At(Shutdown, {"idle", "waiting"}) => Resting(Watcher)
    /\ \A c \in Commands : \A t \in op[c].todo :
          /\ t.verb = "start" \/ (t.verb = "stop" /\ running /\ op[c].at = "next")
          /\ \A u \in op[c].todo : u.agent = t.agent

PlanInv == Orderly /\ JobFirst /\ Solo /\ ShutdownLast

-----------------------------------------------------------------------------
(* How plans, runs and tables fit together *)

\* The last item for an agent, and nobody is stopping it: a start finds no live run.
Alone(c, t)   == \A u \in op[c].todo : u.agent = t.agent => u = t
MayCreate(t)  == t.verb \in {"start", "sync"}
ClearFor(c) ==
    /\ op[c].at = "cancelling" => Live(op[c].job.agent) \subseteq {op[c].slot}
    /\ At(c, {"creating", "closing"}) => Live(op[c].job.agent) = {}
    /\ \A t \in op[c].todo :
          MayCreate(t) /\ Alone(c, t) /\ ~(op[c].at = "cancelling" /\ Works(c, t.agent))
          => Live(t.agent) = {}
Clear == \A c \in Callers \ {Shutdown} : ClearFor(c)

Stopping(c, a, i) == op[c].at = "cancelling" /\ Works(c, a) /\ op[c].slot = i
Tracked ==
    \A a \in Agents : \A i \in Live(a) :
        /\ \A j \in Live(a) : j = i
        /\ i = tasks[a] \/ \E c \in Callers : Stopping(c, a, i)

Shutting(c, a) == op[c].at = "closing" /\ Works(c, a)
TablesTrue ==
    running => \A a \in Agents :
        /\ \A i \in Live(a) : stacks[a] = i /\ bus[a] = i /\ handler[a] = i
        /\ stacks[a] = bus[a] \/ \E c \in Callers : Shutting(c, a)
        /\ \A c \in Callers : Shutting(c, a) => stacks[a] = 0

RunInv == Clear /\ Tracked /\ TablesTrue

Inv == Typed /\ PlanInv /\ RunInv

-----------------------------------------------------------------------------
(* Steps of runs *)

\* An agent's live runs are slots, and there is no slot 0.
LEMMA LiveSlots == \A a : Live(a) \subseteq Slots /\ 0 \notin Live(a)
BY SupervisorAssumption DEF Live

LEMMA OpTypes ==
    ASSUME Typed, NEW c \in Callers
    PROVE  /\ op[c] \in Callings /\ op[c].at \in CallerPlaces
           /\ op[c].todo \subseteq Items /\ op[c].job \in Jobs /\ op[c].job.agent \in Agents
           /\ \A t \in op[c].todo : t \in Items /\ t.agent \in Agents
BY DEF Typed, Callings, Items, Jobs, Nothing, Agents

\* A step that creates no run, moves no caller and may register a live run again.
LEMMA RunsKeep ==
    ASSUME Inv, Typed', op' = op, running' = running, tasks' = tasks,
           \A a \in Agents : Live(a)' \subseteq Live(a),
           UNCHANGED tables \/ \E a \in Agents : \E i \in Live(a) : Register(a, i)
    PROVE  Inv'
<1> USE DEF Inv
<1>1. PlanInv'
  BY DEF PlanInv, Orderly, JobFirst, Solo, ShutdownLast, At, Works, Resting
<1>2. Clear'
  <2>1. \A a \in Agents : Live(a) = {} => Live(a)' = {}
    OBVIOUS
  <2>2. QED
    BY <2>1, OpTypes DEF RunInv, Clear, ClearFor, MayCreate, Alone, At, Works
<1>3. Tracked'
  BY DEF RunInv, Tracked, Stopping, Works
<1>4. TablesTrue'
  <2> SUFFICES ASSUME running
               PROVE  \A a \in Agents :
                         /\ \A i \in Live(a)' : stacks'[a] = i /\ bus'[a] = i /\ handler'[a] = i
                         /\ stacks'[a] = bus'[a] \/ \E c \in Callers : Shutting(c, a)
                         /\ \A c \in Callers : Shutting(c, a) => stacks'[a] = 0
    BY DEF TablesTrue, Shutting, Works
  <2>1. UNCHANGED tables
    <3>1. ASSUME NEW a \in Agents, NEW i \in Live(a), Register(a, i)
          PROVE  UNCHANGED tables
      <4>1. stacks[a] = i /\ bus[a] = i /\ handler[a] = i
        BY <3>1 DEF RunInv, TablesTrue
      <4>2. QED
        BY <3>1, <4>1 DEF Register, Typed, Tables, tables
    <3>2. QED
      BY <3>1
  <2>2. QED
    BY <2>1 DEF RunInv, TablesTrue, tables
<1>5. QED
  BY <1>1, <1>2, <1>3, <1>4 DEF RunInv

\* One run of an agent becomes r.
LEMMA BecomesKeeps ==
    ASSUME Typed, NEW a \in Agents, NEW i \in Live(a), NEW r \in Supervised, Becomes(a, i, r)
    PROVE  /\ run' \in [Agents -> [Slots -> Supervised]]
           /\ \A b \in Agents : Live(b)' \subseteq Live(b)
<1>1. run' = [run EXCEPT ![a][i] = r] /\ i \in Slots
  BY LiveSlots DEF Becomes
<1>2. run' \in [Agents -> [Slots -> Supervised]]
  BY <1>1 DEF Typed
<1>3. \A b \in Agents : \A j \in Slots : run'[b][j] = run[b][j] \/ (b = a /\ j = i)
  BY <1>1 DEF Typed
<1>4. QED
  BY <1>2, <1>3 DEF Live

\* The record of a run after a field or two have been set.
LEMMA Records ==
    ASSUME NEW r \in Supervised, NEW p \in LivePlaces, NEW w \in {"restart", "crash", None},
           NEW b \in BOOLEAN, NEW n \in Nat
    PROVE  /\ [r EXCEPT !.at = p, !.why = w] \in Supervised
           /\ [r EXCEPT !.at = p] \in Supervised
           /\ [r EXCEPT !.at = p, !.closed = b] \in Supervised
           /\ [r EXCEPT !.cancelled = b, !.at = p, !.closed = TRUE] \in Supervised
           /\ [r EXCEPT !.own = b] \in Supervised
           /\ [r EXCEPT !.tries = @ + 1] \in Supervised
           /\ (b => r.at # "done") => [r EXCEPT !.cancelled = b] \in Supervised
           /\ [r EXCEPT !.closed = b] \in Supervised
           /\ [r EXCEPT !.closed = b, !.tries = n] \in Supervised
           /\ [Ended EXCEPT !.closed = r.closed, !.config = r.config] \in Supervised
           /\ Ended \in Supervised
<1> USE DEF Supervised, RunRecords, LivePlaces, RunPlaces
<1>1. [r EXCEPT !.at = p, !.why = w] \in Supervised
  OBVIOUS
<1>2. [r EXCEPT !.at = p] \in Supervised
  OBVIOUS
<1>3. [r EXCEPT !.at = p, !.closed = b] \in Supervised
  OBVIOUS
<1>4. [r EXCEPT !.cancelled = b, !.at = p, !.closed = TRUE] \in Supervised
  OBVIOUS
<1>5. [r EXCEPT !.own = b] \in Supervised
  OBVIOUS
<1>6. [r EXCEPT !.tries = @ + 1] \in Supervised
  OBVIOUS
<1>7. (b => r.at # "done") => [r EXCEPT !.cancelled = b] \in Supervised
  OBVIOUS
<1>8. [r EXCEPT !.closed = b] \in Supervised
  OBVIOUS
<1>9. [r EXCEPT !.closed = b, !.tries = n] \in Supervised
  OBVIOUS
<1>10. [Ended EXCEPT !.closed = r.closed, !.config = r.config] \in Supervised /\ Ended \in Supervised
  BY DEF Ended
<1>11. QED
  BY <1>1, <1>2, <1>3, <1>4, <1>5, <1>6, <1>7, <1>8, <1>9, <1>10

\* Whatever the head of the loop, the handler of a crash or an end make of a run, it is
\* a run.
Turns(a, i) == \E r \in Supervised : Becomes(a, i, r)

LEMMA Outcomes ==
    ASSUME NEW a \in Agents, NEW i \in Slots, NEW r \in Supervised
    PROVE  /\ Loop(a, i, r) => Turns(a, i)
           /\ HandleCrash(a, i) /\ run[a][i] \in Supervised => Turns(a, i)
           /\ End(a, i, r) => Turns(a, i)
<1>1. End(a, i, r) => Turns(a, i)
  BY Records DEF End, Turns, Becomes, LivePlaces
<1>2. Loop(a, i, r) => Turns(a, i)
  <2>1. [r EXCEPT !.at = "running", !.why = None] \in Supervised
    BY Records DEF LivePlaces
  <2>2. QED
    BY <1>1, <2>1 DEF Loop, Turns
<1>3. ASSUME HandleCrash(a, i), run[a][i] \in Supervised
      PROVE  Turns(a, i)
  <2> DEFINE q == [run[a][i] EXCEPT !.tries = @ + 1]
  <2>1. q \in Supervised
    BY <1>3, Records DEF LivePlaces
  <2> HIDE DEF q
  <2>2. CASE End(a, i, q)
    BY <2>1, <2>2, Records DEF End, Turns, LivePlaces
  <2>3. CASE \E p \in {"notifying", "sleeping"} :
               Becomes(a, i, [q EXCEPT !.at = p, !.why = "crash"])
    BY <2>1, <2>3, Records DEF Turns, LivePlaces
  <2>4. QED
    BY <1>3, <2>2, <2>3 DEF HandleCrash, q
<1>4. QED
  BY <1>1, <1>2, <1>3

\* A step of a run, or of its bot, is about that run, which is alive, and touches the
\* tables only to register it.
LEMMA RunStepTurns ==
    ASSUME Typed, NEW a \in Agents, NEW i \in Slots, RunStep(a, i) \/ BotStep(a, i)
    PROVE  /\ i \in Live(a) /\ Turns(a, i)
           /\ tasks' = tasks /\ UNCHANGED world /\ op' = op
           /\ UNCHANGED tables \/ Register(a, i)
<1> DEFINE r == run[a][i]
<1>1. r \in Supervised
  BY DEF Typed
<1> USE DEF In, LivePlaces
<1>2. UNCHANGED world /\ op' = op
  BY DEF RunStep, BotStep
<1>3. CASE Begin(a, i)
  <2>1. [r EXCEPT !.own = TRUE] \in Supervised
    BY <1>1, Records
  <2>2. QED
    BY <1>2, <1>3, <2>1, Outcomes DEF Begin, Live
<1>4. CASE Exit(a, i)
  BY <1>1, <1>2, <1>4, Outcomes DEF Exit, Live
<1>5. CASE ExitForRestart(a, i)
  <2>1. [r EXCEPT !.at = "closing", !.why = "restart"] \in Supervised
    BY <1>1, Records
  <2>2. QED
    BY <1>1, <1>2, <1>5, <2>1, Outcomes DEF ExitForRestart, Live, Turns
<1>6. CASE Crash(a, i)
  BY <1>1, <1>2, <1>6, Outcomes DEF Crash, Live
<1>7. CASE Wake(a, i)
  <2>1. [r EXCEPT !.at = "closing"] \in Supervised
    BY <1>1, Records
  <2>2. QED
    BY <1>2, <1>7, <2>1 DEF Wake, Live, Turns
<1>8. CASE OldStackDown(a, i)
  <2>1. [r EXCEPT !.at = "building", !.closed = TRUE] \in Supervised
    BY <1>1, Records
  <2>2. QED
    BY <1>1, <1>2, <1>8, <2>1, Outcomes DEF OldStackDown, Live, Turns
<1>9. CASE Rebuilt(a, i)
  <2>1. PICK n \in Nat : Loop(a, i, [r EXCEPT !.closed = FALSE, !.tries = n])
    BY <1>1, <1>9 DEF Rebuilt, Supervised, RunRecords
  <2>2. [r EXCEPT !.closed = FALSE, !.tries = n] \in Supervised
    BY <1>1, Records
  <2>3. QED
    BY <1>2, <1>9, <2>1, <2>2, Outcomes DEF Rebuilt, Live
<1>10. CASE RebuildFails(a, i)
  BY <1>1, <1>2, <1>10, Outcomes DEF RebuildFails, Live
<1>11. CASE GiveUp(a, i)
  BY <1>1, <1>2, <1>11, Outcomes DEF GiveUp, Live
<1>12. CASE Unwind(a, i)
  BY <1>1, <1>2, <1>12, Outcomes DEF Unwind, Live, Supervised
<1>13. CASE Swallow(a, i)
  <2>1. [r EXCEPT !.cancelled = FALSE, !.at = "building", !.closed = TRUE] \in Supervised
    BY <1>1, Records
  <2>2. QED
    BY <1>2, <1>13, <2>1 DEF Swallow, Live, Turns
<1>14. QED
  BY <1>3, <1>4, <1>5, <1>6, <1>7, <1>8, <1>9, <1>10, <1>11, <1>12, <1>13 DEF RunStep, BotStep

-----------------------------------------------------------------------------
(* Steps of callers: the plans *)

Busy(c) == At(c, {"next", "creating", "cancelling", "closing"})

\* Whoever but the shutdown is at work is the only one, and without the shutdown so is
\* anybody.
LEMMA OthersRest ==
    ASSUME PlanInv, NEW c \in Callers, Busy(c)
    PROVE  /\ c # Shutdown => \A d \in Callers \ {c, Shutdown} : Resting(d) /\ op[d].todo = {}
           /\ running => c # Shutdown /\ \A d \in Callers \ {c} : Resting(d) /\ op[d].todo = {}
<1>1. ~Resting(c)
  BY DEF Busy, At, Resting
<1>2. running => op[Shutdown].at = "idle" /\ Shutdown \in Callers
  BY DEF PlanInv, ShutdownLast, Callers
<1>3. \A d \in Callers : Resting(d) => op[d].todo = {}
  BY DEF PlanInv, JobFirst
<1>4. QED
  BY <1>1, <1>2, <1>3 DEF PlanInv, Solo, Resting, Busy, At

\* What caller c may do next, so that the plans stay right.
Fits(c, o) ==
    /\ \A t, u \in o.todo : t.agent = u.agent => t = u \/ Before(t, u) \/ Before(u, t)
    /\ o.at \in {"creating", "cancelling", "closing"} =>
          \A t \in o.todo : o.job.agent = t.agent => t.verb = "start" /\ o.at # "creating"
    /\ o.at \in {"cancelling", "closing"} => o.slot \in Slots /\ o.job \in Items
    /\ o.at \in {"idle", "dead", "over"} => o.todo = {}
    /\ o.at = "next" => \A d \in Callers \ {c} : op[d].at # "next"
    /\ c = Shutdown => o.at # "creating" /\ \A t \in o.todo : t.verb = "stop"
    /\ c \in Commands => \A t \in o.todo :
          /\ t.verb = "start" \/ (t.verb = "stop" /\ running /\ o.at = "next")
          /\ \A u \in o.todo : u.agent = t.agent

LEMMA PlanMoves ==
    ASSUME Typed, PlanInv, NEW c \in Callers, NEW o \in Callings, op' = [op EXCEPT ![c] = o],
           running' = running, Fits(c, o),
           c # Shutdown => \A d \in Callers \ {c, Shutdown} : Resting(d),
           c = Shutdown => ~running /\ Resting(Watcher),
           c = Watcher => At(Shutdown, {"idle", "waiting"})
    PROVE  PlanInv'
<1>1. op' \in [Callers -> Callings] /\ op'[c] = o /\ \A d \in Callers \ {c} : op'[d] = op[d]
  BY DEF Typed
<1>2. Orderly'
  BY <1>1 DEF PlanInv, Orderly, Fits, Before
<1>3. JobFirst'
  BY <1>1 DEF PlanInv, JobFirst, Fits, At, Works, Resting
<1>4. Solo'
  BY <1>1 DEF PlanInv, Solo, Fits, Resting
<1>5. ShutdownLast'
  <2> USE DEF ShutdownLast, Fits, At, Resting
  <2>1. Shutdown \in Callers /\ Watcher \in Callers /\ Commands \subseteq Callers
    BY DEF Callers
  <2>2. Watcher # Shutdown /\ Watcher \notin Commands /\ Shutdown \notin Commands
    BY SupervisorAssumption
  <2>3. CASE c = Shutdown
    BY <1>1, <2>1, <2>2, <2>3 DEF PlanInv
  <2>4. CASE c = Watcher
    BY <1>1, <2>1, <2>2, <2>4 DEF PlanInv
  <2>5. CASE c \in Commands
    BY <1>1, <2>1, <2>2, <2>5 DEF PlanInv
  <2>6. QED
    BY <2>3, <2>4, <2>5 DEF Callers
<1>6. QED
  BY <1>2, <1>3, <1>4, <1>5 DEF PlanInv

\* A caller at work goes on with part of its plan.
LEMMA PlanGoesOn ==
    ASSUME Typed, PlanInv, NEW c \in Callers, Busy(c), NEW o \in Callings,
           op' = [op EXCEPT ![c] = o], running' = running, Fits(c, o)
    PROVE  PlanInv'
<1>1. c = Shutdown => ~running /\ Resting(Watcher)
  BY DEF Busy, At, PlanInv, ShutdownLast
<1>2. c = Watcher => At(Shutdown, {"idle", "waiting"})
  BY DEF Busy, At, PlanInv, ShutdownLast, Resting
<1>3. QED
  BY <1>1, <1>2, PlanMoves, OthersRest

\* So it is when the caller has done one item, or gives up.
LEMMA ItemDone ==
    ASSUME Typed, PlanInv, NEW c \in Callers, Busy(c), NEW o \in Callings,
           op' = [op EXCEPT ![c] = o], running' = running,
           op[c].at # "next", ~Between,
           \/ o.at = "next" /\ o.todo \subseteq op[c].todo
           \/ o.at \in {"idle", "dead"} /\ o.todo = {}
    PROVE  PlanInv'
<1>1. Fits(c, o)
  <2>1. o.todo \subseteq op[c].todo
    OBVIOUS
  <2>2. \A d \in Callers : op[d].at # "next"
    BY DEF Between
  <2>3. c = Shutdown => o.at # "creating" /\ \A t \in o.todo : t.verb = "stop"
    BY <2>1 DEF PlanInv, ShutdownLast
  <2>4. c \in Commands => \A t \in o.todo :
           /\ t.verb = "start" \/ (t.verb = "stop" /\ running /\ o.at = "next")
           /\ \A u \in o.todo : u.agent = t.agent
    BY <2>1 DEF PlanInv, ShutdownLast
  <2>5. \A t, u \in o.todo : t.agent = u.agent => t = u \/ Before(t, u) \/ Before(u, t)
    BY <2>1 DEF PlanInv, Orderly
  <2>6. QED
    BY <2>2, <2>3, <2>4, <2>5 DEF Fits
<1>2. QED
  BY <1>1, PlanGoesOn

-----------------------------------------------------------------------------
(* Steps of callers: runs and tables *)

LEMMA ClearMoves ==
    ASSUME PlanInv, RunInv, NEW c \in Callers, Busy(c),
           \A d \in Callers \ {c} : op'[d] = op[d],
           c = Shutdown => \A a \in Agents : Live(a)' = Live(a),
           Typed,
           c # Shutdown => ClearFor(c)'
    PROVE  Clear'
<1> SUFFICES ASSUME NEW d \in Callers \ {Shutdown}, d # c
             PROVE  ClearFor(d)'
  BY DEF Clear
<1>1. op'[d] = op[d] /\ ClearFor(d)
  BY DEF RunInv, Clear
<1>2. CASE c = Shutdown
  BY <1>1, <1>2, OpTypes DEF ClearFor, MayCreate, Alone, At, Works
<1>3. CASE c # Shutdown
  <2>1. Resting(d) /\ op[d].todo = {}
    BY <1>3, OthersRest
  <2>2. QED
    BY <1>1, <2>1 DEF ClearFor, Resting, At
<1>4. QED
  BY <1>2, <1>3

LEMMA DoesMoves ==
    ASSUME Typed, NEW c \in Callers, NEW place \in CallerPlaces, NEW t \in Jobs,
           NEW i \in Slots \cup {0}, Does(c, place, t, i)
    PROVE  LET o == [at |-> place, todo |-> op[c].todo \ {t}, job |-> t, slot |-> i] IN
           /\ o \in Callings /\ op' = [op EXCEPT ![c] = o]
           /\ op' \in [Callers -> Callings] /\ op'[c] = o
           /\ \A d \in Callers \ {c} : op'[d] = op[d]
<1> DEFINE o == [at |-> place, todo |-> op[c].todo \ {t}, job |-> t, slot |-> i]
<1>1. o \in Callings
  BY OpTypes DEF Callings
<1>2. QED
  BY <1>1 DEF Does, Typed

LEMMA NoJob == Nothing \in Jobs /\ Nothing \notin Items
BY DEF Jobs, Nothing, Items

\* Between two awaits nobody starts or cancels anything: while the supervisor runs
\* nobody but the caller at work can be taking a stack down.
LEMMA NobodyShuts ==
    ASSUME PlanInv, NEW c \in Callers, Busy(c), running
    PROVE  \A a \in Agents, d \in Callers : Shutting(d, a) => d = c
BY OthersRest DEF Shutting, Resting

\* The stack is popped once the run has ended.
LEMMA Popped ==
    ASSUME Inv, NEW c \in Callers, Busy(c), NEW t \in Items, PopStack(c, t),
           running' = running, file' = file, run' = run,
           \/ tasks' = tasks
           \/ tasks' = [tasks EXCEPT ![t.agent] = 0] /\ tasks[t.agent] \notin Live(t.agent),
           c # Shutdown => Live(t.agent) = {},
           \/ op[c].at = "next"
           \/ op[c].at = "cancelling" /\ op[c].job = t /\ op[c].slot \notin Live(t.agent),
           \A d \in Callers \ {c} : op[d].at # "next",
           \A u \in op[c].todo \ {t} : u.agent = t.agent => u.verb = "start",
           c \in Commands => \A u \in op[c].todo \ {t} : u.verb = "start"
    PROVE  Inv'
<1> USE DEF Inv
<1> DEFINE a == t.agent
<1>1. a \in Agents /\ t \in Jobs
  BY DEF Items, Jobs
<1>2. PICK place \in {"closing", "next"}, i \in Slots \cup {0} :
         /\ Does(c, place, t, i)
         /\ place = "closing" => i \in Slots /\ bus' = bus
         /\ place = "next" => stacks[a] = 0 /\ bus' = [bus EXCEPT ![a] = 0]
  <2>1. stacks[a] \in Slots \cup {0}
    BY <1>1 DEF Typed, Tables
  <2>2. CASE stacks[a] # 0
    BY <2>1, <2>2 DEF PopStack
  <2>3. CASE stacks[a] = 0
    BY <2>3 DEF PopStack, Unregister
  <2>4. QED
    BY <2>2, <2>3
<1> DEFINE o == [at |-> place, todo |-> op[c].todo \ {t}, job |-> t, slot |-> i]
<1>3. place \in CallerPlaces
  BY DEF CallerPlaces
<1>4. /\ o \in Callings /\ op' = [op EXCEPT ![c] = o]
      /\ op' \in [Callers -> Callings] /\ op'[c] = o
      /\ \A d \in Callers \ {c} : op'[d] = op[d]
  BY <1>1, <1>2, <1>3, DoesMoves
<1>5. stacks' = [stacks EXCEPT ![a] = 0] /\ handler' = handler
  BY DEF PopStack
<1>6. Typed'
  BY <1>1, <1>2, <1>4, <1>5 DEF Typed, Tables
<1>7. PlanInv'
  <2>1. Fits(c, o)
    BY <1>2 DEF Fits, PlanInv, Orderly, ShutdownLast
  <2>2. QED
    BY <1>4, <2>1, PlanGoesOn
<1>8. \A b : Live(b)' = Live(b)
  BY DEF Live
<1>9. Clear'
  <2>1. ASSUME c # Shutdown
        PROVE  ClearFor(c)'
    <3>1. Live(a) = {}
      BY <2>1
    <3>2. ASSUME NEW u \in o.todo, MayCreate(u), Alone(c, u)'
          PROVE  Live(u.agent) = {}
      <4>1. CASE u.agent = a
        BY <3>1, <4>1
      <4>2. CASE u.agent # a
        <5>1. Alone(c, u)
          BY <1>4, <3>2, <4>2 DEF Alone
        <5>2. ~(op[c].at = "cancelling" /\ Works(c, u.agent))
          BY <4>2 DEF Works
        <5>3. QED
          BY <2>1, <3>2, <5>1, <5>2 DEF RunInv, Clear, ClearFor
      <4>3. QED
        BY <4>1, <4>2
    <3>3. QED
      BY <1>4, <1>8, <3>1, <3>2 DEF ClearFor, At, MayCreate
  <2>2. QED
    BY <1>4, <1>8, <2>1, ClearMoves
<1>10. Tracked'
  <2> SUFFICES ASSUME NEW b \in Agents, NEW j \in Live(b)
               PROVE  (\A k \in Live(b) : k = j) /\ (j = tasks'[b] \/ \E d \in Callers : Stopping(d, b, j)')
    BY <1>8 DEF Tracked
  <2>1. j \in Slots
    BY LiveSlots
  <2>2. \A k \in Live(b) : k = j
    BY DEF RunInv, Tracked
  <2>3. ASSUME NEW d \in Callers, Stopping(d, b, j)
        PROVE  Stopping(d, b, j)'
    BY <1>4, <2>3 DEF Stopping, Works
  <2>4. j = tasks[b] => j = tasks'[b]
    BY <1>1 DEF Typed, Tables
  <2>5. QED
    BY <2>2, <2>3, <2>4 DEF RunInv, Tracked
<1>11. TablesTrue'
  <2> SUFFICES ASSUME running, NEW b \in Agents
               PROVE  /\ \A j \in Live(b) : stacks'[b] = j /\ bus'[b] = j /\ handler'[b] = j
                      /\ stacks'[b] = bus'[b] \/ \E d \in Callers : Shutting(d, b)'
                      /\ \A d \in Callers : Shutting(d, b)' => stacks'[b] = 0
    BY <1>8 DEF TablesTrue
  <2>1. c # Shutdown /\ Live(a) = {}
    BY OthersRest
  <2>2. \A d \in Callers : ~Shutting(d, b)
    BY NobodyShuts DEF Shutting
  <2>3. \A d \in Callers : Shutting(d, b)' => d = c /\ b = a /\ place = "closing"
    BY <1>4, <2>2 DEF Shutting, Works
  <2>4. place = "closing" => Shutting(c, a)'
    BY <1>4 DEF Shutting, Works
  <2>5. CASE b = a
    BY <1>1, <1>2, <1>5, <2>1, <2>4, <2>5 DEF Typed, Tables
  <2>6. CASE b # a
    <3>1. stacks'[b] = stacks[b] /\ bus'[b] = bus[b] /\ handler'[b] = handler[b]
      BY <1>1, <1>2, <1>5, <2>6 DEF Typed, Tables
    <3>2. QED
      BY <2>2, <2>3, <2>6, <3>1 DEF RunInv, TablesTrue
  <2>7. QED
    BY <2>5, <2>6
<1>12. QED
  BY <1>6, <1>7, <1>9, <1>10, <1>11 DEF RunInv

LEMMA EndedRun == ASSUME NEW b \in BOOLEAN, NEW f \in Configs \cup {None}
                  PROVE  /\ [Ended EXCEPT !.at = "new", !.closed = b, !.config = f] \in Supervised
                         /\ [Ended EXCEPT !.at = "running", !.own = TRUE, !.closed = b] \in Supervised
                         /\ Ended \in Supervised
BY DEF Ended, Supervised, RunRecords, RunPlaces, LivePlaces

LEMMA Flagged == ASSUME NEW r \in Supervised
                 PROVE  /\ [r EXCEPT !.own = FALSE] \in Supervised
                        /\ [r EXCEPT !.closed = TRUE] \in Supervised
                        /\ r.at # "done" => [r EXCEPT !.cancelled = TRUE] \in Supervised
BY DEF Supervised, RunRecords

\* _start_sub_agent once the stack is there.
LEMMA CreatedKeeps ==
    ASSUME Inv, NEW c \in Callers, Created(c), ~Between, UNCHANGED world
    PROVE  Inv'
<1> USE DEF Inv, world
<1>0. PICK a \in Agents : a = op[c].job.agent
  BY OpTypes
<1> DEFINE o == [at |-> "next", todo |-> op[c].todo \ {Nothing}, job |-> Nothing, slot |-> 0]
<1>1. a = op[c].job.agent /\ Busy(c) /\ op[c].at = "creating" /\ op[c].todo \subseteq Items
  BY <1>0, OpTypes DEF Created, Busy, At
<1>2. c # Shutdown
  BY <1>1 DEF PlanInv, ShutdownLast
<1>3. PICK i \in Free(a) :
         /\ Register(a, i)
         /\ tasks' = [tasks EXCEPT ![a] = i]
         /\ run' = [run EXCEPT ![a] = [j \in Slots |->
                       IF j = i THEN [Ended EXCEPT !.at = "new", !.closed = FALSE,
                                                   !.config = op[c].job.config]
                       ELSE [run[a][j] EXCEPT !.own = FALSE]]]
  BY <1>0, ZenonT(30) DEF Created
<1>4. i \in Slots /\ op[c].job.config \in Configs \cup {None}
  <2>1. op[c].job \in Jobs
    BY OpTypes
  <2>2. op[c].job.config \in Configs \cup {None}
    BY <2>1 DEF Jobs, Items, Nothing
  <2>3. QED
    BY <1>3, <2>2 DEF Free
<1>5. /\ o \in Callings /\ op' = [op EXCEPT ![c] = o] /\ op' \in [Callers -> Callings]
      /\ op'[c] = o /\ \A d \in Callers \ {c} : op'[d] = op[d]
  BY NoJob, DoesMoves DEF Created, Done, CallerPlaces
<1>6. Typed'
  <2>1. [Ended EXCEPT !.at = "new", !.closed = FALSE, !.config = op[c].job.config] \in Supervised
    BY <1>4, EndedRun
  <2>2. \A j \in Slots : [run[a][j] EXCEPT !.own = FALSE] \in Supervised
    BY <1>1, Flagged DEF Typed
  <2>3. run' \in [Agents -> [Slots -> Supervised]]
    BY <1>1, <1>3, <2>1, <2>2 DEF Typed
  <2>4. QED
    BY <1>1, <1>3, <1>4, <1>5, <2>3 DEF Typed, Tables, Register
<1>7. PlanInv'
  BY <1>1, <1>5, ItemDone
<1>8. Live(a) = {}
  BY <1>1, <1>2 DEF RunInv, Clear, ClearFor, At
<1>9. Live(a)' = {i} /\ \A b \in Agents \ {a} : Live(b)' = Live(b)
  <2>1. \A j \in Slots \ {i} : run'[a][j].at = run[a][j].at
    BY <1>1, <1>3 DEF Typed, Supervised, RunRecords
  <2>2. run'[a][i].at = "new"
    BY <1>1, <1>3, <1>4 DEF Typed, Ended
  <2>3. Live(a)' = {i}
    BY <1>4, <1>8, <2>1, <2>2 DEF Live
  <2>4. \A b \in Agents \ {a} : run'[b] = run[b]
    BY <1>1, <1>3 DEF Typed
  <2>5. QED
    BY <2>3, <2>4 DEF Live
<1>10. Clear'
  <2>1. ASSUME NEW u \in o.todo, MayCreate(u), Alone(c, u)'
        PROVE  Live(u.agent)' = {}
    <3>1. u.agent # a /\ u.agent \in Agents
      BY <1>1, OpTypes DEF PlanInv, JobFirst, At, Works
    <3>2. Alone(c, u)
      BY <1>1, <1>5, <2>1, NoJob DEF Alone
    <3>3. Live(u.agent) = {}
      BY <1>1, <1>2, <2>1, <3>2 DEF RunInv, Clear, ClearFor
    <3>4. QED
      BY <1>9, <3>1, <3>3
  <2>2. ClearFor(c)'
    BY <1>5, <2>1 DEF ClearFor, At, MayCreate
  <2>3. QED
    BY <1>1, <1>2, <1>5, <2>2, ClearMoves
<1>11. Tracked'
  <2> SUFFICES ASSUME NEW b \in Agents, NEW j \in Live(b)'
               PROVE  (\A k \in Live(b)' : k = j) /\ (j = tasks'[b] \/ \E d \in Callers : Stopping(d, b, j)')
    BY DEF Tracked
  <2>1. CASE b = a
    BY <1>1, <1>3, <1>9, <2>1 DEF Typed, Tables
  <2>2. CASE b # a
    <3>1. j \in Live(b) /\ Live(b)' = Live(b) /\ tasks'[b] = tasks[b]
      BY <1>1, <1>3, <1>9, <2>2 DEF Typed, Tables
    <3>2. \A d \in Callers : Stopping(d, b, j) => Stopping(d, b, j)'
      BY <1>1, <1>5 DEF Stopping, Works
    <3>3. QED
      BY <3>1, <3>2 DEF RunInv, Tracked
  <2>3. QED
    BY <2>1, <2>2
<1>12. TablesTrue'
  <2> SUFFICES ASSUME running, NEW b \in Agents
               PROVE  /\ \A j \in Live(b)' : stacks'[b] = j /\ bus'[b] = j /\ handler'[b] = j
                      /\ stacks'[b] = bus'[b] \/ \E d \in Callers : Shutting(d, b)'
                      /\ \A d \in Callers : Shutting(d, b)' => stacks'[b] = 0
    BY DEF TablesTrue
  <2>1. \A d \in Callers : ~Shutting(d, b)' /\ ~Shutting(d, b)
    BY <1>1, <1>5, NobodyShuts DEF Shutting, Works
  <2>2. CASE b = a
    BY <1>1, <1>3, <1>9, <2>1, <2>2 DEF Typed, Tables, Register
  <2>3. CASE b # a
    <3>1. stacks'[b] = stacks[b] /\ bus'[b] = bus[b] /\ handler'[b] = handler[b]
      BY <1>1, <1>3, <2>3 DEF Typed, Tables, Register
    <3>2. QED
      BY <1>9, <2>1, <2>3, <3>1 DEF RunInv, TablesTrue
  <2>4. QED
    BY <2>2, <2>3
<1>13. QED
  BY <1>6, <1>7, <1>10, <1>11, <1>12 DEF RunInv

\* A step that moves a caller which stops nobody, and nothing else.
LEMMA StillKeeps ==
    ASSUME Inv, NEW c \in Callers, NEW o \in Callings, op' = [op EXCEPT ![c] = o],
           UNCHANGED <<tables, tasks, run>>, file' \in [Subs -> Configs \cup {None}],
           running' = running, PlanInv',
           op[c].at \notin {"cancelling", "closing"}, o.at \notin {"cancelling", "closing"},
           Clear'
    PROVE  Inv'
<1> USE DEF Inv, tables
<1>1. op' \in [Callers -> Callings] /\ op'[c] = o /\ \A d \in Callers \ {c} : op'[d] = op[d]
  BY DEF Typed
<1>2. Typed'
  BY <1>1 DEF Typed
<1>3. \A b : Live(b)' = Live(b)
  BY DEF Live
<1>4. Tracked'
  BY <1>1, <1>3 DEF RunInv, Tracked, Stopping, Works
<1>5. \A b \in Agents : \A d \in Callers : Shutting(d, b)' <=> Shutting(d, b)
  BY <1>1 DEF Shutting, Works
<1>6. TablesTrue'
  BY <1>3, <1>5 DEF RunInv, TablesTrue
<1>7. QED
  BY <1>2, <1>4, <1>6 DEF RunInv

\* _start_sub_agent without success.
LEMMA NotCreatedKeeps ==
    ASSUME Inv, NEW c \in Callers, NotCreated(c), ~Between, UNCHANGED world
    PROVE  Inv'
<1> USE DEF Inv, world
<1>1. Busy(c) /\ op[c].at = "creating" /\ op[c].todo \subseteq Items /\ Nothing \in Jobs
  BY OpTypes, NoJob DEF NotCreated, Busy, At
<1>2. c # Shutdown
  BY <1>1 DEF PlanInv, ShutdownLast
<1>3. PICK o \in Callings :
         /\ op' = [op EXCEPT ![c] = o]
         /\ \/ o.at = "next" /\ o.todo = op[c].todo
            \/ o.at \in {"idle", "dead"} /\ o.todo = {}
  <2>1. CASE Done(c)
    <3> DEFINE o == [at |-> "next", todo |-> op[c].todo \ {Nothing}, job |-> Nothing, slot |-> 0]
    <3>1. o \in Callings /\ op' = [op EXCEPT ![c] = o]
      BY <2>1, DoesMoves, NoJob DEF Done, CallerPlaces
    <3>2. o.at = "next" /\ o.todo = op[c].todo
      BY <1>1, NoJob
    <3>3. QED
      BY <3>1, <3>2
  <2>2. CASE ~Done(c)
    <3> DEFINE o == [at |-> IF c = Watcher THEN "dead" ELSE "idle",
                     todo |-> {}, job |-> Nothing, slot |-> 0]
    <3>1. o \in Callings /\ op' = [op EXCEPT ![c] = o]
      BY <1>1, <2>2 DEF NotCreated, Callings, CallerPlaces
    <3>2. o.at \in {"idle", "dead"} /\ o.todo = {}
      OBVIOUS
    <3>3. QED
      BY <3>1, <3>2
  <2>3. QED
    BY <2>1, <2>2
<1>4. op'[c] = o /\ \A d \in Callers \ {c} : op'[d] = op[d]
  BY <1>3 DEF Typed
<1>5. PlanInv'
  BY <1>1, <1>3, ItemDone
<1>6. Clear'
  <2>1. \A b : Live(b)' = Live(b)
    BY DEF NotCreated, Live
  <2>2. ClearFor(c)
    BY <1>2 DEF RunInv, Clear
  <2>3. ClearFor(c)'
    BY <1>1, <1>3, <1>4, <2>1, <2>2 DEF ClearFor, At, MayCreate, Alone
  <2>4. QED
    BY <1>1, <1>2, <1>4, <2>3, ClearMoves
<1>7. QED
  BY <1>1, <1>3, <1>5, <1>6, StillKeeps DEF NotCreated, Typed

\* stop_agent once the run has ended.
LEMMA RunEndedKeeps ==
    ASSUME Inv, NEW c \in Callers, RunEnded(c), ~Between, UNCHANGED world
    PROVE  Inv'
<1> USE DEF Inv, world
<1>1. PICK t \in Items : t = op[c].job
  BY DEF RunEnded, PlanInv, JobFirst, At
<1>2. Busy(c) /\ op[c].at = "cancelling" /\ op[c].slot \in Slots
  BY DEF RunEnded, Busy, At, PlanInv, JobFirst
<1>3. op[c].slot \notin Live(t.agent) /\ PopStack(c, t)
  BY <1>1 DEF RunEnded
<1>4. \A u \in op[c].todo \ {t} : u.agent = t.agent => u.verb = "start"
  BY <1>1, <1>2 DEF PlanInv, JobFirst, At, Works
<1>5. c \in Commands => \A u \in op[c].todo \ {t} : u.verb = "start"
  BY <1>2 DEF PlanInv, ShutdownLast
<1>6. c # Shutdown => Live(t.agent) = {}
  BY <1>1, <1>2, <1>3 DEF RunInv, Clear, ClearFor
<1>7. \A d \in Callers \ {c} : op[d].at # "next"
  BY DEF Between
<1>8. QED
  BY <1>1, <1>2, <1>3, <1>4, <1>5, <1>6, <1>7, Popped DEF RunEnded

\* stop_agent once the stack is down.
LEMMA StackDownKeeps ==
    ASSUME Inv, NEW c \in Callers, StackDown(c), ~Between, UNCHANGED world
    PROVE  Inv'
<1> USE DEF Inv, world
<1>0. PICK a \in Agents : a = op[c].job.agent
  BY OpTypes
<1>1. PICK i \in Slots : i = op[c].slot
  BY DEF StackDown, PlanInv, JobFirst, At
<1>2. Busy(c) /\ op[c].at = "closing" /\ op[c].todo \subseteq Items
  BY OpTypes DEF StackDown, Busy, At
<1> DEFINE o == [at |-> "next", todo |-> op[c].todo \ {Nothing}, job |-> Nothing, slot |-> 0]
<1>3. /\ o \in Callings /\ op' = [op EXCEPT ![c] = o] /\ op' \in [Callers -> Callings]
      /\ op'[c] = o /\ \A d \in Callers \ {c} : op'[d] = op[d]
  BY NoJob, DoesMoves DEF StackDown, Done, CallerPlaces
<1>4. /\ run' = [run EXCEPT ![a][i].closed = TRUE] /\ bus' = [bus EXCEPT ![a] = 0]
      /\ UNCHANGED <<stacks, handler, tasks>>
  <2>1. run' = [run EXCEPT ![a][i].closed = TRUE]
    BY <1>0, <1>1, ZenonT(60) DEF StackDown
  <2>2. QED
    BY <1>0, <2>1 DEF StackDown, Unregister
<1>5. Typed' /\ \A b \in Agents : Live(b)' = Live(b)
  <2>1. [run[a][i] EXCEPT !.closed = TRUE] \in Supervised
    BY Flagged DEF Typed
  <2>2. run' \in [Agents -> [Slots -> Supervised]]
    BY <1>4, <2>1 DEF Typed
  <2>3. \A b \in Agents : \A j \in Slots : run'[b][j].at = run[b][j].at
    BY <1>4 DEF Typed, Supervised, RunRecords
  <2>4. \A b \in Agents : Live(b)' = Live(b)
    BY <2>3 DEF Live
  <2>5. QED
    BY <1>3, <1>4, <2>2, <2>4 DEF Typed, Tables
<1>6. PlanInv'
  BY <1>2, <1>3, ItemDone
<1>7. Clear'
  <2>1. ASSUME c # Shutdown
        PROVE  ClearFor(c)'
    <3>1. ClearFor(c)
      BY <2>1 DEF RunInv, Clear
    <3>2. o.todo = op[c].todo
      BY <1>2, NoJob
    <3>3. \A u \in o.todo : u.agent \in Agents
      BY <3>2, OpTypes
    <3>4. ASSUME NEW u \in o.todo, MayCreate(u), Alone(c, u)'
          PROVE  Live(u.agent)' = {}
      BY <1>2, <1>3, <1>5, <3>1, <3>2, <3>3, <3>4 DEF ClearFor, Alone
    <3>5. QED
      BY <1>3, <3>4 DEF ClearFor, At, MayCreate
  <2>2. QED
    BY <1>2, <1>3, <1>5, <2>1, ClearMoves
<1>8. Tracked'
  <2>1. \A b \in Agents, j \in Slots, d \in Callers : Stopping(d, b, j) => Stopping(d, b, j)'
    BY <1>2, <1>3 DEF Stopping, Works
  <2>2. QED
    BY <1>4, <1>5, <2>1, LiveSlots DEF RunInv, Tracked
<1>9. TablesTrue'
  <2> SUFFICES ASSUME running, NEW b \in Agents
               PROVE  /\ \A j \in Live(b) : stacks'[b] = j /\ bus'[b] = j /\ handler'[b] = j
                      /\ stacks'[b] = bus'[b] \/ \E d \in Callers : Shutting(d, b)'
                      /\ \A d \in Callers : Shutting(d, b)' => stacks'[b] = 0
    BY <1>5 DEF TablesTrue
  <2>1. c # Shutdown
    BY <1>2, OthersRest
  <2>2. Live(a) = {} /\ stacks[a] = 0
    BY <1>0, <1>2, <2>1 DEF RunInv, Clear, ClearFor, At, TablesTrue, Shutting, Works
  <2>3. \A d \in Callers : ~Shutting(d, b)'
    BY <1>2, <1>3, NobodyShuts DEF Shutting, Works
  <2>4. CASE b = a
    BY <1>4, <2>2, <2>3, <2>4 DEF Typed, Tables
  <2>5. CASE b # a
    <3>1. stacks'[b] = stacks[b] /\ bus'[b] = bus[b] /\ handler'[b] = handler[b]
      BY <1>4, <2>5 DEF Typed, Tables
    <3>2. \A d \in Callers : ~Shutting(d, b)
      BY <1>0, <1>2, <2>5, NobodyShuts DEF Shutting, Works
    <3>3. QED
      BY <2>3, <3>1, <3>2 DEF RunInv, TablesTrue
  <2>6. QED
    BY <2>4, <2>5
<1>10. QED
  BY <1>5, <1>6, <1>7, <1>8, <1>9 DEF RunInv

\* The item a caller takes up next, and what it leaves to do.
First(c, t) == t \in op[c].todo /\ \A u \in op[c].todo : t.rank <= u.rank

LEMMA FirstLeaves ==
    ASSUME Typed, PlanInv, NEW c \in Callers, NEW t, First(c, t), op[c].at = "next"
    PROVE  /\ t \in Items /\ t \in Jobs /\ t.agent \in Agents /\ Busy(c)
           /\ t.verb = "stop" => \A u \in op[c].todo \ {t} : u.agent = t.agent => u.verb = "start"
           /\ t.verb # "stop" => \A u \in op[c].todo \ {t} : u.agent # t.agent
           /\ c \in Commands => \A u \in op[c].todo \ {t} : u.verb = "start"
           /\ \A d \in Callers \ {c} : op[d].at # "next"
<1>1. t \in Items /\ \A u \in op[c].todo : u \in Items /\ u.rank \in 1 .. 3
  BY OpTypes DEF First, Items
<1>2. \A u \in op[c].todo \ {t} : u.agent = t.agent => Before(t, u)
  BY <1>1 DEF First, PlanInv, Orderly, Before
<1>3. t.verb = "stop" => \A u \in op[c].todo \ {t} : u.agent = t.agent => u.verb = "start"
  BY <1>2 DEF Before
<1>4. t.verb # "stop" => \A u \in op[c].todo \ {t} : u.agent # t.agent
  BY <1>2 DEF Before
<1>5. c \in Commands => \A u \in op[c].todo \ {t} : u.verb = "start"
  BY <1>2 DEF Before, First, PlanInv, ShutdownLast
<1>6. \A d \in Callers \ {c} : op[d].at # "next"
  BY DEF PlanInv, Solo
<1>7. QED
  BY <1>1, <1>3, <1>4, <1>5, <1>6 DEF Jobs, Items, Busy, At

\* An agent that a caller but the shutdown is about to stop has no run nobody knows of.
LEMMA StopFinds ==
    ASSUME Inv, NEW c \in Callers, c # Shutdown, op[c].at = "next",
           NEW t \in op[c].todo, t.verb = "stop"
    PROVE  Live(t.agent) \subseteq {tasks[t.agent]}
<1> USE DEF Inv
<1>1. t.agent \in Agents /\ Busy(c) /\ Shutdown \in Callers
  BY OpTypes DEF Busy, At, Callers
<1>2. \A d \in Callers \ {Shutdown} : op[d].at # "cancelling"
  BY <1>1, OthersRest DEF Resting
<1>3. op[Shutdown].at # "cancelling"
  <2>1. CASE c = Watcher
    BY <2>1 DEF PlanInv, ShutdownLast, At, Resting
  <2>2. CASE c \in Commands
    BY <2>2 DEF PlanInv, ShutdownLast
  <2>3. QED
    BY <2>1, <2>2 DEF Callers
<1>4. QED
  BY <1>1, <1>2, <1>3 DEF RunInv, Tracked, Stopping

\* stop_agent up to its first await.
LEMMA StopKeeps ==
    ASSUME Inv, NEW c \in Callers, NEW t, op[c].at = "next", First(c, t), t.verb = "stop",
           Stop(c, t), UNCHANGED world
    PROVE  Inv'
<1> USE DEF Inv, world
<1> DEFINE a == t.agent
<1>1. t \in Items /\ t \in Jobs /\ a \in Agents /\ Busy(c) /\ t \in op[c].todo
  BY FirstLeaves DEF First
<1>0. PICK i \in Slots \cup {0} : i = tasks[a]
  BY <1>1 DEF Typed, Tables
<1> DEFINE o == [at |-> "cancelling", todo |-> op[c].todo \ {t}, job |-> t, slot |-> i]
<1>2. c # Shutdown => Live(a) \subseteq {i}
  BY <1>0, <1>1, StopFinds
<1>3. tasks' = [tasks EXCEPT ![a] = 0]
  BY DEF Stop
<1>4. CASE i \notin Live(a)
  <2>1. PopStack(c, t) /\ run' = run
    BY <1>0, <1>4 DEF Stop
  <2>2. c # Shutdown => Live(a) = {}
    BY <1>2, <1>4
  <2>3. QED
    BY <1>0, <1>1, <1>3, <1>4, <2>1, <2>2, Popped, FirstLeaves
<1>5. CASE i \in Live(a)
  <2>1. run' = [run EXCEPT ![a][i].cancelled = TRUE]
    BY <1>0, <1>5, ZenonT(30) DEF Stop
  <2>2. Does(c, "cancelling", t, i) /\ UNCHANGED tables
    BY <1>0, <1>5 DEF Stop
  <2>3. i \in Slots
    BY <1>5, LiveSlots
  <2>4. /\ o \in Callings /\ op' = [op EXCEPT ![c] = o] /\ op' \in [Callers -> Callings]
        /\ op'[c] = o /\ \A d \in Callers \ {c} : op'[d] = op[d]
    BY <1>1, <2>2, <2>3, DoesMoves DEF CallerPlaces
  <2>5. Typed' /\ \A b \in Agents : Live(b)' = Live(b)
    <3>1. [run[a][i] EXCEPT !.cancelled = TRUE] \in Supervised
      BY <1>1, <1>5, <2>3, Flagged DEF Typed, Live
    <3>2. run' \in [Agents -> [Slots -> Supervised]]
      BY <1>1, <2>1, <2>3, <3>1 DEF Typed
    <3>3. \A b \in Agents : \A j \in Slots : run'[b][j].at = run[b][j].at
      BY <1>1, <2>1, <2>3 DEF Typed, Supervised, RunRecords
    <3>4. \A b \in Agents : Live(b)' = Live(b)
      BY <3>3 DEF Live
    <3>5. QED
      BY <1>1, <1>3, <2>2, <2>4, <3>2, <3>4 DEF Typed, Tables, tables
  <2>6. PlanInv'
    <3>1. Fits(c, o)
      BY <1>1, <2>3, FirstLeaves DEF Fits, PlanInv, Orderly, ShutdownLast
    <3>2. QED
      BY <1>1, <2>4, <3>1, PlanGoesOn
  <2>7. Clear'
    <3>1. ASSUME c # Shutdown
          PROVE  ClearFor(c)'
      <4>1. ASSUME NEW u \in o.todo, MayCreate(u), Alone(c, u)', u.agent # a
            PROVE  Live(u.agent)' = {}
        <5>1. u \in op[c].todo /\ Alone(c, u)
          BY <2>4, <4>1 DEF Alone
        <5>2. Live(u.agent) = {} /\ u.agent \in Agents
          BY <3>1, <4>1, <5>1, OpTypes DEF RunInv, Clear, ClearFor
        <5>3. QED
          BY <2>5, <5>2
      <4>2. Live(a)' \subseteq {i}
        BY <1>1, <1>2, <2>5, <3>1
      <4>3. QED
        BY <2>4, <4>1, <4>2 DEF ClearFor, At, MayCreate, Works
    <3>2. QED
      BY <1>1, <2>4, <2>5, <3>1, ClearMoves
  <2>8. Tracked'
    <3>1. \A b \in Agents, j \in Slots, d \in Callers : Stopping(d, b, j) => Stopping(d, b, j)'
      BY <2>4 DEF Stopping, Works
    <3>2. Stopping(c, a, i)'
      BY <2>4 DEF Stopping, Works
    <3>3. \A b \in Agents \ {a} : tasks'[b] = tasks[b]
      BY <1>3 DEF Typed, Tables
    <3>4. QED
      BY <1>0, <1>1, <2>5, <3>1, <3>2, <3>3, LiveSlots DEF RunInv, Tracked
  <2>9. TablesTrue'
    <3>1. \A b \in Agents : \A d \in Callers : Shutting(d, b)' <=> Shutting(d, b)
      BY <2>4 DEF Shutting, Works
    <3>2. QED
      BY <2>2, <2>5, <3>1 DEF RunInv, TablesTrue, tables
  <2>10. QED
    BY <2>5, <2>6, <2>7, <2>8, <2>9 DEF RunInv
<1>6. QED
  BY <1>4, <1>5

\* A caller looks at an agent, and may go on to start it.
LEMMA LooksKeeps ==
    ASSUME Inv, NEW c \in Callers, NEW t, NEW place \in {"creating", "next"},
           op[c].at = "next", First(c, t), t.verb # "stop", Does(c, place, t, 0),
           place = "creating" => MayCreate(t),
           UNCHANGED <<world, tables, tasks, run>>
    PROVE  Inv'
<1> USE DEF Inv, world
<1> DEFINE o == [at |-> place, todo |-> op[c].todo \ {t}, job |-> t, slot |-> 0]
<1>1. /\ t \in Items /\ t \in Jobs /\ t.agent \in Agents /\ Busy(c) /\ t \in op[c].todo
      /\ \A u \in o.todo : u.agent # t.agent
  BY FirstLeaves DEF First
<1>2. /\ o \in Callings /\ op' = [op EXCEPT ![c] = o] /\ op' \in [Callers -> Callings]
      /\ op'[c] = o /\ \A d \in Callers \ {c} : op'[d] = op[d]
  BY <1>1, DoesMoves DEF CallerPlaces
<1>3. c # Shutdown
  BY <1>1 DEF PlanInv, ShutdownLast
<1>4. PlanInv'
  <2>1. Fits(c, o)
    BY <1>1, <1>3, FirstLeaves DEF Fits, PlanInv, Orderly, ShutdownLast
  <2>2. QED
    BY <1>1, <1>2, <2>1, PlanGoesOn
<1>5. \A b : Live(b)' = Live(b)
  BY DEF Live
<1>6. ClearFor(c)
  BY <1>3 DEF RunInv, Clear
<1>7. ClearFor(c)'
  <2>1. ASSUME NEW u \in o.todo, MayCreate(u), Alone(c, u)'
        PROVE  Live(u.agent) = {}
    <3>1. u \in op[c].todo /\ Alone(c, u)
      BY <1>1, <1>2, <2>1 DEF Alone
    <3>2. QED
      BY <1>6, <2>1, <3>1 DEF ClearFor
  <2>2. place = "creating" => Live(t.agent) = {}
    BY <1>1, <1>6 DEF ClearFor, Alone
  <2>3. QED
    BY <1>2, <1>5, <2>1, <2>2 DEF ClearFor, At, MayCreate
<1>8. Clear'
  BY <1>1, <1>2, <1>3, <1>7, ClearMoves
<1>9. QED
  BY <1>2, <1>4, <1>8, StillKeeps DEF Typed

\* An agent whose configuration changed will be stopped and started.
LEMMA CheckKeeps ==
    ASSUME Inv, NEW c \in Callers, NEW t, op[c].at = "next", First(c, t), t.verb = "check",
           Check(c, t), UNCHANGED <<world, tables, tasks, run>>
    PROVE  Inv'
<1> USE DEF Inv, world
<1> DEFINE halt  == [t EXCEPT !.rank = 1, !.verb = "stop"]
           again == [t EXCEPT !.rank = 2, !.verb = "start"]
           o == [op[c] EXCEPT !.todo = (@ \ {t}) \cup {halt, again}]
<1>1. /\ t \in Items /\ t.agent \in Agents /\ Busy(c) /\ t \in op[c].todo
      /\ \A u \in op[c].todo \ {t} : u.agent # t.agent
  BY FirstLeaves DEF First
<1>2. /\ halt \in Items /\ halt.agent = t.agent /\ halt.verb = "stop" /\ halt.rank = 1
      /\ again \in Items /\ again.agent = t.agent /\ again.verb = "start" /\ again.rank = 2
  <2>1. \A k \in 1 .. 3, v \in {"start", "stop"} :
           LET u == [t EXCEPT !.rank = k, !.verb = v] IN
           u \in Items /\ u.agent = t.agent /\ u.verb = v /\ u.rank = k
    BY <1>1 DEF Items
  <2>2. QED
    BY <2>1
<1> HIDE DEF halt, again
<1>3. op[c] \in Callings /\ op[c].todo \subseteq Items
  BY OpTypes
<1>4. /\ o \in Callings /\ o.at = "next" /\ o.job = op[c].job
      /\ o.todo = (op[c].todo \ {t}) \cup {halt, again}
  BY <1>2, <1>3 DEF Callings
<1>5. op' = [op EXCEPT ![c] = o] /\ op'[c] = o /\ \A d \in Callers \ {c} : op'[d] = op[d]
  <2>1. op' = [op EXCEPT ![c].todo = (@ \ {t}) \cup {halt, again}]
    BY ZenonT(30) DEF Check, halt, again
  <2>2. QED
    BY <2>1, <1>3 DEF Typed
<1> HIDE DEF o
<1>6. c # Shutdown /\ c \notin Commands
  BY <1>1 DEF PlanInv, ShutdownLast
<1>7. PlanInv'
  <2>1. Before(halt, again)
    BY <1>2 DEF Before
  <2>2. \A u, v \in o.todo : u.agent = v.agent => u = v \/ Before(u, v) \/ Before(v, u)
    BY <1>1, <1>2, <1>4, <2>1 DEF PlanInv, Orderly
  <2>3. Fits(c, o)
    BY <1>4, <1>6, <2>2, FirstLeaves DEF Fits
  <2>4. QED
    BY <1>1, <1>4, <1>5, <2>3, PlanGoesOn
<1>8. \A b : Live(b)' = Live(b)
  BY DEF Live
<1>9. ClearFor(c)'
  <2>1. ASSUME NEW u \in o.todo, MayCreate(u), Alone(c, u)'
        PROVE  Live(u.agent) = {}
    <3>1. u.agent # t.agent
      BY <1>2, <1>4, <1>5, <2>1 DEF Alone, MayCreate
    <3>2. u \in op[c].todo /\ Alone(c, u)
      BY <1>2, <1>4, <1>5, <2>1, <3>1 DEF Alone
    <3>3. QED
      BY <1>6, <2>1, <3>2 DEF RunInv, Clear, ClearFor
  <2>2. QED
    BY <1>4, <1>5, <1>8, <2>1 DEF ClearFor, At, MayCreate
<1>10. Clear'
  BY <1>1, <1>5, <1>6, <1>9, ClearMoves
<1>11. QED
  BY <1>4, <1>5, <1>7, <1>10, StillKeeps DEF Typed

\* A caller takes up what it has to do next, or has done it all.
LEMMA PlanStepKeeps ==
    ASSUME Inv, NEW c \in Callers, PlanStep(c)
    PROVE  Inv'
<1>1. ASSUME NextItem(c), UNCHANGED world
      PROVE  Inv'
  <2>1. PICK t \in op[c].todo : First(c, t) /\ Continue(c, t) /\ op[c].at = "next"
    BY <1>1 DEF NextItem, First
  <2>2. CASE t.verb = "stop"
    BY <1>1, <2>1, <2>2, StopKeeps DEF Continue
  <2>3. CASE t.verb # "stop"
    <3>1. UNCHANGED <<tables, tasks, run>>
      BY <2>1, <2>3 DEF Continue
    <3>2. CASE t.verb = "check" /\ Check(c, t)
      BY <1>1, <2>1, <3>1, <3>2, CheckKeeps
    <3>3. CASE \E place \in {"creating", "next"} :
                  Does(c, place, t, 0) /\ (place = "creating" => MayCreate(t))
      BY <1>1, <2>1, <2>3, <3>1, <3>3, LooksKeeps
    <3>4. QED
      BY <2>1, <2>3, <3>2, <3>3 DEF Continue, MayCreate
  <2>4. QED
    BY <2>2, <2>3
<1>2. ASSUME PlanDone(c), UNCHANGED world
      PROVE  Inv'
  <2> USE DEF Inv, world
  <2> DEFINE o == [op[c] EXCEPT !.at = IF c = Shutdown THEN "over" ELSE "idle", !.job = Nothing]
  <2>1. op[c] \in Callings /\ Busy(c) /\ op[c].at = "next" /\ op[c].todo = {}
    BY <1>2, OpTypes DEF PlanDone, Busy, At
  <2>2. o \in Callings /\ o.at \in {"idle", "over"} /\ o.todo = {}
    BY <2>1, NoJob DEF Callings, CallerPlaces
  <2>3. op' = [op EXCEPT ![c] = o] /\ op'[c] = o /\ \A d \in Callers \ {c} : op'[d] = op[d]
    BY <1>2 DEF PlanDone, Typed
  <2> HIDE DEF o
  <2>4. PlanInv'
    <3>1. Fits(c, o)
      BY <2>2 DEF Fits
    <3>2. QED
      BY <1>2, <2>1, <2>2, <2>3, <3>1, PlanGoesOn
  <2>5. Clear'
    <3>1. ClearFor(c)'
      BY <2>2, <2>3 DEF ClearFor, At
    <3>2. \A b : Live(b)' = Live(b)
      BY <1>2 DEF PlanDone, Live
    <3>3. QED
      BY <2>1, <2>3, <3>1, <3>2, ClearMoves
  <2>6. QED
    BY <1>2, <2>1, <2>2, <2>3, <2>4, <2>5, StillKeeps DEF PlanDone, Typed
<1>3. QED
  BY <1>1, <1>2 DEF PlanStep

-----------------------------------------------------------------------------
(* Where plans come from *)

\* Of an agent without a stack there is no live run, while the supervisor runs.
LEMMA AbsentRests ==
    ASSUME Inv, running, NEW a \in Agents, stacks[a] = 0
    PROVE  Live(a) = {}
BY LiveSlots DEF Inv, RunInv, TablesTrue

LEMMA ItemIs ==
    ASSUME Typed, NEW a \in Agents, NEW rank \in 1 .. 3, NEW verb \in {"start", "stop", "sync", "check"}
    PROVE  LET t == Item(rank, verb, a, file) IN
           t \in Items /\ t.rank = rank /\ t.verb = verb /\ t.agent = a
BY DEF Typed, Item, Items

\* A caller takes up a plan when nobody else is at work.
LEMMA PlanBegins ==
    ASSUME Inv, NEW c \in Callers \ {Shutdown}, \A d \in Callers : Resting(d),
           NEW items \in SUBSET Items, Plan(c, items),
           running' = running, file' = file, UNCHANGED <<tables, tasks, run>>,
           \A t, u \in items : t.agent = u.agent => t = u \/ Before(t, u) \/ Before(u, t),
           c \in Commands => \A t \in items : /\ t.verb = "start" \/ (t.verb = "stop" /\ running)
                                              /\ \A u \in items : u.agent = t.agent,
           \A t \in items : MayCreate(t) /\ (\A u \in items : u.agent = t.agent => u = t)
                            => Live(t.agent) = {},
           running
    PROVE  Inv'
<1> USE DEF Inv
<1> DEFINE o == [at |-> "next", todo |-> items, job |-> Nothing, slot |-> 0]
<1>1. o \in Callings /\ op' = [op EXCEPT ![c] = o]
  BY NoJob DEF Plan, Callings, CallerPlaces
<1>2. op'[c] = o /\ \A d \in Callers \ {c} : op'[d] = op[d]
  BY <1>1 DEF Typed
<1>3. PlanInv'
  <2>1. Fits(c, o)
    BY DEF Fits, Resting
  <2>2. At(Shutdown, {"idle", "waiting"})
    BY DEF PlanInv, ShutdownLast, At
  <2>3. QED
    BY <1>1, <2>1, <2>2, PlanMoves
<1>4. Clear'
  <2>1. \A b : Live(b)' = Live(b)
    BY DEF Live
  <2>2. ASSUME NEW d \in Callers, d # c
        PROVE  ClearFor(d)'
    <3>1. Resting(d) /\ op[d].todo = {} /\ op'[d] = op[d]
      BY <1>2, <2>2 DEF PlanInv, JobFirst
    <3>2. QED
      BY <3>1 DEF ClearFor, Resting, At
  <2>3. ClearFor(c)'
    BY <1>2, <2>1 DEF ClearFor, At, MayCreate, Alone
  <2>4. QED
    BY <2>2, <2>3 DEF Clear
<1>5. op[c].at \notin {"cancelling", "closing"}
  BY DEF Resting
<1>6. QED
  BY <1>1, <1>3, <1>4, <1>5, StillKeeps DEF Typed

\* With one caller at a time, whoever begins finds nobody at work.
LEMMA NobodyAtWork ==
    ASSUME ~Concurrent, Inv, NEW c \in Callers, MayBegin(c), c = Watcher \/ Resting(Watcher)
    PROVE  running /\ \A d \in Callers : Resting(d)
BY DEF MayBegin, Resting

\* A command starts an agent that has no stack, or stops it first.
LEMMA CommandKeeps ==
    ASSUME ~Concurrent, Inv, NEW c \in Commands, NEW a \in Subs, Command(c, a)
    PROVE  Inv'
<1> DEFINE halt == Item(1, "stop", a, file)
           go   == Item(2, "start", a, file)
<1>1. c \in Callers \ {Shutdown} /\ a \in Agents
  BY SupervisorAssumption DEF Callers, Agents
<1>2. running /\ \A d \in Callers : Resting(d)
  BY <1>1, NobodyAtWork DEF Command
<1>3. /\ halt \in Items /\ halt.verb = "stop" /\ halt.agent = a /\ halt.rank = 1
      /\ go \in Items /\ go.verb = "start" /\ go.agent = a /\ go.rank = 2
  BY <1>1, ItemIs DEF Inv
<1> HIDE DEF halt, go
<1>4. PICK items \in {{go}, {halt}, {halt, go}} : Plan(c, items) /\ (items = {go} => stacks[a] = 0)
  BY <1>3 DEF Command, halt, go
<1>5. items \in SUBSET Items
  BY <1>3
<1>6. \A t, u \in items : t.agent = u.agent => t = u \/ Before(t, u) \/ Before(u, t)
  BY <1>3 DEF Before
<1>7. \A t \in items : MayCreate(t) /\ (\A u \in items : u.agent = t.agent => u = t)
                       => Live(t.agent) = {}
  <2>1. CASE items = {go}
    BY <1>1, <1>2, <1>3, <1>4, <2>1, AbsentRests
  <2>2. CASE items # {go}
    BY <1>3, <1>4, <2>2 DEF MayCreate
  <2>3. QED
    BY <2>1, <2>2
<1>8. running' = running /\ file' = file /\ UNCHANGED <<tables, tasks, run>>
  BY DEF Command, world
<1>9. \A t \in items : t.agent = a /\ (t.verb = "start" \/ t.verb = "stop")
  BY <1>3
<1>10. QED
  BY <1>1, <1>2, <1>4, <1>5, <1>6, <1>7, <1>8, <1>9, PlanBegins

\* The watcher starts the agents without a stack, and stops or compares the others.
LEMMA PollKeeps ==
    ASSUME ~Concurrent, Inv, Poll
    PROVE  Inv'
<1> DEFINE new  == {Item(1, "start", a, file) : a \in Named(file) \ Present}
           gone == {Item(2, "stop", a, file) : a \in Present \ Named(file)}
           both == {Item(3, "check", a, file) : a \in Named(file) \cap Present}
           items == new \cup gone \cup both
<1>1. Watcher \in Callers \ {Shutdown} /\ Subs \subseteq Agents /\ Watcher \notin Commands
  BY SupervisorAssumption DEF Callers, Agents
<1>2. running /\ \A d \in Callers : Resting(d)
  BY <1>1, NobodyAtWork DEF Poll
<1>3. /\ \A t \in new : t \in Items /\ t.verb = "start" /\ t.agent \in Named(file) \ Present
      /\ \A t \in new : \A u \in new : t.agent = u.agent => t = u
  BY <1>1, ItemIs DEF Inv, Named
<1>4. /\ \A t \in gone : t \in Items /\ t.verb = "stop" /\ t.agent \in Present \ Named(file)
      /\ \A t \in gone : \A u \in gone : t.agent = u.agent => t = u
  BY <1>1, ItemIs DEF Inv, Present
<1>5. /\ \A t \in both : t \in Items /\ t.verb = "check" /\ t.agent \in Named(file) \cap Present
      /\ \A t \in both : \A u \in both : t.agent = u.agent => t = u
  BY <1>1, ItemIs DEF Inv, Named
<1>6. Plan(Watcher, items)
  BY DEF Poll
<1> HIDE DEF new, gone, both
<1>7. items \in SUBSET Items
  BY <1>3, <1>4, <1>5
<1>8. \A t, u \in items : t.agent = u.agent => t = u
  BY <1>3, <1>4, <1>5
<1>9. \A t \in items : MayCreate(t) => Live(t.agent) = {}
  <2>1. \A t \in new : t.agent \in Agents /\ stacks[t.agent] = 0
    BY <1>1, <1>3 DEF Named, Present
  <2>2. \A t \in items : MayCreate(t) => t \in new
    BY <1>4, <1>5 DEF MayCreate
  <2>3. QED
    BY <1>2, <2>1, <2>2, AbsentRests
<1>10. running' = running /\ file' = file /\ UNCHANGED <<tables, tasks, run>>
  BY DEF Poll
<1>11. QED
  BY <1>1, <1>2, <1>6, <1>7, <1>8, <1>9, <1>10, PlanBegins

\* Nothing that matters here depends on what agents.json holds.
LEMMA EditKeeps == ASSUME Inv, Edit
                   PROVE  Inv'
<1> USE DEF Inv, Edit, tables
<1>1. Typed'
  BY DEF Typed
<1>2. PlanInv'
  BY DEF PlanInv, Orderly, JobFirst, Solo, ShutdownLast, At, Works, Resting
<1>3. \A b : Live(b)' = Live(b)
  BY DEF Live
<1>4. Clear'
  BY <1>3 DEF RunInv, Clear, ClearFor, At, Works, MayCreate, Alone
<1>5. Tracked' /\ TablesTrue'
  BY <1>3 DEF RunInv, Tracked, TablesTrue, Stopping, Shutting, Works
<1>6. QED
  BY <1>1, <1>2, <1>4, <1>5 DEF RunInv

\* The watcher's task is cancelled: it dies, or goes on as if nothing had happened.
LEMMA WatcherCancelled ==
    ASSUME Inv, NEW rest \in [Callers -> Callings], CancelWatcher(rest), rest[Watcher] = op[Watcher]
    PROVE  /\ run' \in [Agents -> [Slots -> Supervised]]
           /\ \A a \in Agents : Live(a)' = Live(a)
           /\ \/ op' = rest
              \/ /\ op[Watcher].at # "cancelling"
                 /\ op' = [rest EXCEPT ![Watcher] =
                              [at |-> "dead", todo |-> {}, job |-> Nothing, slot |-> 0]]
<1> USE DEF Inv
<1> DEFINE w == op[Watcher]
<1>1. Watcher \in Callers
  BY DEF Callers
<1>2. CASE w.at = "cancelling"
  <2>0. PICK a \in Agents, i \in Slots : a = w.job.agent /\ i = w.slot
    BY <1>1, <1>2, OpTypes DEF PlanInv, JobFirst, At
  <2>1. run' = [run EXCEPT ![a][i].cancelled = @ \/ i \in Live(a)]
    BY <1>2, <2>0, ZenonT(30) DEF CancelWatcher
  <2>2. [run[a][i] EXCEPT !.cancelled = @ \/ i \in Live(a)] \in Supervised
    <3>1. run[a][i] \in Supervised
      BY DEF Typed
    <3>2. run[a][i].cancelled \/ i \in Live(a) => run[a][i].at # "done"
      BY <3>1 DEF Supervised, Live
    <3>3. (run[a][i].cancelled \/ i \in Live(a)) \in BOOLEAN
      BY <3>1 DEF Supervised, RunRecords
    <3>4. QED
      BY <3>1, <3>2, <3>3 DEF Supervised, RunRecords
  <2>3. run' \in [Agents -> [Slots -> Supervised]]
    BY <2>1, <2>2 DEF Typed
  <2>4. \A b \in Agents : \A j \in Slots : run'[b][j].at = run[b][j].at
    BY <2>1 DEF Typed, Supervised, RunRecords
  <2>5. op' = [rest EXCEPT ![Watcher] = op[Watcher]]
    BY <1>2 DEF CancelWatcher
  <2>6. QED
    BY <1>1, <2>3, <2>4, <2>5 DEF Live
<1>3. CASE w.at # "cancelling"
  <2>1. run' = run /\ (op' = rest \/ op' = [rest EXCEPT ![Watcher] =
                              [at |-> "dead", todo |-> {}, job |-> Nothing, slot |-> 0]])
    BY <1>3 DEF CancelWatcher
  <2>2. QED
    BY <1>3, <2>1 DEF Live, Typed
<1>4. QED
  BY <1>2, <1>3

\* stop_all up to its first await.
LEMMA BeginShutdownKeeps ==
    ASSUME Inv, BeginShutdown, ~Between
    PROVE  Inv'
<1> USE DEF Inv
<1> DEFINE rest == [op EXCEPT ![Shutdown].at = "waiting"]
           dead == [at |-> "dead", todo |-> {}, job |-> Nothing, slot |-> 0]
<1>1. Shutdown \in Callers /\ Watcher \in Callers /\ Watcher # Shutdown /\ Commands \subseteq Callers
      /\ Shutdown \notin Commands /\ Watcher \notin Commands
  BY SupervisorAssumption DEF Callers
<1>2. op[Shutdown].at = "idle" /\ op[Shutdown].todo = {}
  BY <1>1 DEF BeginShutdown, PlanInv, ShutdownLast, JobFirst, Resting
<1>3. /\ rest \in [Callers -> Callings]
      /\ \A c \in Callers \ {Shutdown} : rest[c] = op[c]
      /\ rest[Shutdown].at = "waiting" /\ rest[Shutdown].todo = {}
  <2>1. [op[Shutdown] EXCEPT !.at = "waiting"] \in Callings
    BY <1>1 DEF Typed, Callings, CallerPlaces
  <2>2. [op[Shutdown] EXCEPT !.at = "waiting"].todo = op[Shutdown].todo
        /\ [op[Shutdown] EXCEPT !.at = "waiting"].at = "waiting"
    BY <1>1 DEF Typed, Callings
  <2>3. QED
    BY <1>1, <1>2, <2>1, <2>2 DEF Typed
<1>4. CancelWatcher(rest) /\ UNCHANGED <<file, tables, tasks>> /\ running' = FALSE
  BY DEF BeginShutdown
<1> HIDE DEF rest
<1>5. /\ run' \in [Agents -> [Slots -> Supervised]]
      /\ \A a \in Agents : Live(a)' = Live(a)
      /\ op' = rest \/ (op[Watcher].at # "cancelling" /\ op' = [rest EXCEPT ![Watcher] = dead])
  BY <1>1, <1>3, <1>4, WatcherCancelled
<1>6. /\ op' \in [Callers -> Callings]
      /\ \A c \in Callers \ {Shutdown, Watcher} : op'[c] = op[c]
      /\ op'[Shutdown].at = "waiting" /\ op'[Shutdown].todo = {}
      /\ op'[Watcher] = op[Watcher] \/ (op[Watcher].at # "cancelling" /\ op'[Watcher] = dead)
  <2>1. dead \in Callings
    BY NoJob DEF Callings, CallerPlaces
  <2>2. QED
    BY <1>1, <1>3, <1>5, <2>1
<1>7. Typed'
  BY <1>4, <1>5, <1>6 DEF Typed, tables
<1>8. \A c \in Callers : /\ op'[c].at # "next"
                         /\ op'[c] = op[c] \/ (op'[c].at \in {"waiting", "dead"} /\ op'[c].todo = {})
  BY <1>1, <1>6 DEF Between
<1>9. PlanInv'
  <2>1. Orderly'
    BY <1>8 DEF PlanInv, Orderly
  <2>2. JobFirst'
    BY <1>8 DEF PlanInv, JobFirst, At, Works, Resting
  <2>3. Solo'
    <3>1. \A c \in Callers \ {Shutdown} : Resting(c) => Resting(c)'
      BY <1>1, <1>6 DEF Resting
    <3>2. QED
      BY <1>8, <3>1 DEF PlanInv, Solo
  <2>4. ShutdownLast'
    <3>1. \A c \in Commands : \A t \in op[c].todo :
             t.verb = "start" /\ \A u \in op[c].todo : u.agent = t.agent
      BY <1>1 DEF PlanInv, ShutdownLast, Between
    <3>2. QED
      BY <1>1, <1>4, <1>6, <3>1 DEF ShutdownLast, At
  <2>5. QED
    BY <2>1, <2>2, <2>3, <2>4 DEF PlanInv
<1>10. Clear'
  <2> SUFFICES ASSUME NEW c \in Callers \ {Shutdown}
               PROVE  ClearFor(c)'
    BY DEF Clear
  <2>1. CASE op'[c] = op[c]
    <3>1. ClearFor(c)
      BY DEF RunInv, Clear
    <3>2. QED
      BY <1>5, <2>1, <3>1, OpTypes DEF ClearFor, At, Works, MayCreate, Alone
  <2>2. CASE op'[c] # op[c]
    BY <1>8, <2>2 DEF ClearFor, At
  <2>3. QED
    BY <2>1, <2>2
<1>11. Tracked'
  <2>1. \A c \in Callers, a \in Agents, i \in Slots : Stopping(c, a, i) => Stopping(c, a, i)'
    BY <1>1, <1>2, <1>6 DEF Stopping, Works
  <2>2. QED
    BY <1>4, <1>5, <2>1, LiveSlots DEF RunInv, Tracked
<1>12. TablesTrue'
  BY <1>4 DEF TablesTrue
<1>13. QED
  BY <1>7, <1>9, <1>10, <1>11, <1>12 DEF RunInv

\* stop_all once the watcher has ended.
LEMMA ShutdownGoesOnKeeps ==
    ASSUME Inv, ShutdownGoesOn, ~Between
    PROVE  Inv'
<1> USE DEF Inv
<1> DEFINE items == {Item(1, "stop", a, file) : a \in Present} \cup {Item(2, "stop", Main, file)}
           o == [at |-> "next", todo |-> items, job |-> Nothing, slot |-> 0]
<1>1. Shutdown \in Callers /\ Present \subseteq Agents /\ Main \in Agents /\ Main \notin Present
  BY SupervisorAssumption DEF Callers, Agents, Present
<1>2. /\ \A t \in items : t \in Items /\ t.verb = "stop"
      /\ \A t \in items : \A u \in items : t.agent = u.agent => t = u
  BY <1>1, ItemIs
<1>3. op' = [op EXCEPT ![Shutdown] = o]
  BY DEF ShutdownGoesOn, Plan
<1> HIDE DEF items
<1>4. o \in Callings
  BY <1>2, NoJob DEF Callings, CallerPlaces
<1>5. /\ op[Shutdown].at = "waiting" /\ ~running /\ Resting(Watcher)
      /\ UNCHANGED <<running, file, tables, tasks, run>>
  BY DEF ShutdownGoesOn, PlanInv, ShutdownLast
<1>6. \A c \in Callers \ {Shutdown} : op'[c] = op[c]
  BY <1>1, <1>3 DEF Typed
<1>7. PlanInv'
  <2>1. Fits(Shutdown, o)
    BY <1>2, SupervisorAssumption DEF Fits, Between
  <2>2. QED
    BY <1>1, <1>3, <1>4, <1>5, <2>1, PlanMoves, SupervisorAssumption
<1>8. Clear'
  <2>1. \A b : Live(b)' = Live(b)
    BY <1>5 DEF Live
  <2>2. QED
    BY <1>6, <2>1, OpTypes DEF RunInv, Clear, ClearFor, At, Works, MayCreate, Alone
<1>9. QED
  BY <1>1, <1>3, <1>4, <1>5, <1>7, <1>8, StillKeeps DEF Typed

-----------------------------------------------------------------------------
(* The theorems *)

LEMMA InitHolds == Init => Inv
<1> SUFFICES ASSUME Init
             PROVE  Inv
  OBVIOUS
<1>1. /\ Watcher \in Callers /\ Shutdown \in Callers /\ Watcher # Shutdown /\ Watcher \notin Commands
      /\ Subs \subseteq Agents /\ Main \in Agents /\ Main \notin Subs /\ 1 \in Slots
  BY SupervisorAssumption DEF Callers, Agents
<1> DEFINE plan == {Item(1, "sync", a, file) : a \in Named(file)}
           main == [a \in Agents |-> IF a = Main THEN 1 ELSE 0]
<1>2. file \in [Subs -> Configs \cup {None}] /\ running = TRUE
  BY DEF Init
<1>3. /\ \A t \in plan : t \in Items /\ t.verb = "sync" /\ t.agent \in Subs
      /\ \A t \in plan : \A u \in plan : t.agent = u.agent => t = u
  BY <1>1, <1>2 DEF Items, Item, Named
<1>4. op = [c \in Callers |-> [at |-> IF c = Watcher THEN "next" ELSE "idle",
                               todo |-> IF c = Watcher THEN plan ELSE {},
                               job |-> Nothing, slot |-> 0]]
  BY DEF Init
<1> HIDE DEF plan
<1>5. op \in [Callers -> Callings]
  BY <1>3, <1>4, NoJob DEF Callings, CallerPlaces
<1>6. stacks = main /\ tasks = main /\ bus = main /\ handler = main
  BY DEF Init
<1>7. run = [a \in Agents |-> [i \in Slots |->
                IF a = Main /\ i = 1
                THEN [Ended EXCEPT !.at = "running", !.own = TRUE, !.closed = FALSE]
                ELSE Ended]]
  BY DEF Init
<1>8. run \in [Agents -> [Slots -> Supervised]]
  <2>1. [Ended EXCEPT !.at = "running", !.own = TRUE, !.closed = FALSE] \in Supervised /\ Ended \in Supervised
    BY EndedRun
  <2>2. QED
    BY <1>7, <2>1
<1>9. Typed
  BY <1>1, <1>2, <1>5, <1>6, <1>8 DEF Typed, Tables
<1>10. \A a \in Agents : \A i \in Live(a) : a = Main /\ i = 1
  BY <1>7 DEF Live, Ended
<1>11. /\ op[Watcher].at = "next" /\ op[Watcher].todo = plan
       /\ \A c \in Callers \ {Watcher} : op[c].at = "idle" /\ op[c].todo = {}
  BY <1>1, <1>4
<1>12. PlanInv
  <2>1. Orderly
    BY <1>3, <1>11 DEF Orderly
  <2>2. JobFirst
    BY <1>11 DEF JobFirst, At, Resting
  <2>3. Solo
    BY <1>11 DEF Solo, Resting
  <2>4. ShutdownLast
    BY <1>1, <1>11, SupervisorAssumption DEF ShutdownLast, At, Callers
  <2>5. QED
    BY <2>1, <2>2, <2>3, <2>4 DEF PlanInv
<1>13. RunInv
  <2>1. Clear
    <3>1. \A t \in plan : Live(t.agent) = {}
      BY <1>1, <1>3, <1>10
    <3>2. QED
      BY <1>11, <3>1 DEF Clear, ClearFor, At
  <2>2. Tracked
    BY <1>1, <1>6, <1>10 DEF Tracked
  <2>3. TablesTrue
    BY <1>1, <1>6, <1>10, <1>11 DEF TablesTrue, Shutting
  <2>4. QED
    BY <2>1, <2>2, <2>3 DEF RunInv
<1>14. QED
  BY <1>9, <1>12, <1>13 DEF Inv

\* A step of a run.
LEMMA RunStepKeeps ==
    ASSUME Inv, NEW a \in Agents, NEW i \in Slots, RunStep(a, i) \/ BotStep(a, i)
    PROVE  Inv'
<1>1. /\ i \in Live(a) /\ Turns(a, i) /\ tasks' = tasks /\ UNCHANGED world /\ op' = op
      /\ UNCHANGED tables \/ Register(a, i)
  BY RunStepTurns DEF Inv
<1>2. PICK r \in Supervised : Becomes(a, i, r)
  BY <1>1 DEF Turns
<1>3. run' \in [Agents -> [Slots -> Supervised]] /\ \A b \in Agents : Live(b)' \subseteq Live(b)
  BY <1>1, <1>2, BecomesKeeps DEF Inv
<1>4. Typed'
  BY <1>1, <1>3 DEF Inv, Typed, Tables, tables, world, Register
<1>5. QED
  BY <1>1, <1>3, <1>4, RunsKeep DEF world

LEMMA NextKeeps == ASSUME ~Concurrent, Inv, [Next]_vars
                   PROVE  Inv'
<1>1. CASE \E c \in Callers : PlanStep(c)
  BY <1>1, PlanStepKeeps
<1>2. CASE \E a \in Agents, i \in Slots : RunStep(a, i) \/ BotStep(a, i)
  BY <1>2, RunStepKeeps
<1>3. CASE ~Between /\ \E c \in Callers : CallerStep(c)
  BY <1>3, CreatedKeeps, NotCreatedKeeps, RunEndedKeeps, StackDownKeeps DEF CallerStep
<1>4. CASE \E c \in Commands, a \in Subs : Command(c, a)
  BY <1>4, CommandKeeps
<1>5. CASE Edit \/ Poll \/ (~Between /\ (BeginShutdown \/ ShutdownGoesOn))
  BY <1>5, EditKeeps, PollKeeps, BeginShutdownKeeps, ShutdownGoesOnKeeps
<1>6. CASE UNCHANGED vars
  BY <1>6 DEF vars, Inv, Typed, PlanInv, Orderly, JobFirst, Solo, ShutdownLast, RunInv, Clear, ClearFor,
              Tracked, TablesTrue, At, Works, Resting, Alone, MayCreate, Stopping, Shutting, Live
<1>7. QED
  BY <1>1, <1>2, <1>3, <1>4, <1>5, <1>6 DEF Next

\* The invariant the theorems rest on.
THEOREM SupervisorInv == ~Concurrent /\ Spec => []Inv
<1>1. CASE ~Concurrent
  <2>1. Inv /\ [Next]_vars => Inv'
    BY <1>1, NextKeeps
  <2>2. QED
    BY <2>1, InitHolds, PTL DEF Spec
<1>2. CASE Concurrent
  BY <1>2
<1>3. QED
  BY <1>1, <1>2, SupervisorAssumption

\* With one caller at work at a time besides the shutdown, no agent ever has two live
\* runs, and the one it has is the one a stop cancels or has cancelled.
THEOREM OneRunHolds == ~Concurrent /\ Spec => []OneRun
<1>1. Inv => OneRun
  <2> SUFFICES ASSUME Inv, NEW a \in Agents, NEW i \in Live(a)
               PROVE  /\ Live(a) = {i}
                      /\ i = tasks[a] \/ \E c \in Callers :
                                            /\ op[c].at \in {"cancelling", "closing"}
                                            /\ op[c].job.agent = a /\ op[c].slot = i
    BY DEF OneRun
  <2>1. \A j \in Live(a) : j = i
    BY DEF Inv, RunInv, Tracked
  <2>2. i = tasks[a] \/ \E c \in Callers : Stopping(c, a, i)
    BY DEF Inv, RunInv, Tracked
  <2>3. QED
    BY <2>1, <2>2 DEF Stopping, Works
<1>2. QED
  BY <1>1, SupervisorInv, PTL

\* Then the tables also agree on every agent nobody is at work on.
THEOREM TablesAgreeHolds == ~Concurrent /\ Spec => []TablesAgree
<1>1. Inv => TablesAgree
  BY DEF Inv, RunInv, TablesTrue, TablesAgree, InHand, Shutting, Works, Resting
<1>2. QED
  BY <1>1, SupervisorInv, PTL

\* What a step does to the table of stacks.
LEMMA StacksStep ==
    ASSUME Inv, Next
    PROVE  \/ UNCHANGED stacks
           \/ \E a : stacks' = [stacks EXCEPT ![a] = 0]
           \/ \E a \in Agents : \E i \in Live(a) : Register(a, i)
           \/ \E c \in Callers : \E i \in Slots :
                 op[c].at = "creating" /\ Register(op[c].job.agent, i)
<1>1. ASSUME NEW c \in Callers, PlanStep(c)
      PROVE  UNCHANGED stacks \/ \E a : stacks' = [stacks EXCEPT ![a] = 0]
  <2>1. CASE NextItem(c)
    <3>1. PICK t \in op[c].todo : Continue(c, t)
      BY <2>1 DEF NextItem
    <3>2. UNCHANGED tables \/ PopStack(c, t)
      BY <3>1, Zenon DEF Continue, Stop
    <3>3. QED
      BY <3>2 DEF PopStack, tables
  <2>2. CASE PlanDone(c)
    BY <2>2 DEF PlanDone, tables
  <2>3. QED
    BY <1>1, <2>1, <2>2 DEF PlanStep
<1>2. ASSUME NEW a \in Agents, NEW i \in Slots, RunStep(a, i) \/ BotStep(a, i)
      PROVE  UNCHANGED stacks \/ (i \in Live(a) /\ Register(a, i))
  BY <1>2, RunStepTurns DEF Inv, tables
<1>3. ASSUME NEW c \in Callers, CallerStep(c)
      PROVE  \/ UNCHANGED stacks
             \/ \E a : stacks' = [stacks EXCEPT ![a] = 0]
             \/ op[c].at = "creating" /\ \E i \in Slots : Register(op[c].job.agent, i)
  <2>1. CASE Created(c)
    BY <2>1, Zenon DEF Created, Free
  <2>2. CASE NotCreated(c)
    BY <2>2 DEF NotCreated, tables
  <2>3. CASE RunEnded(c)
    BY <2>3 DEF RunEnded, PopStack
  <2>4. CASE StackDown(c)
    BY <2>4 DEF StackDown
  <2>5. QED
    BY <1>3, <2>1, <2>2, <2>3, <2>4 DEF CallerStep
<1>4. CASE \/ \E c \in Commands, a \in Subs : Command(c, a)
           \/ Edit \/ Poll \/ BeginShutdown \/ ShutdownGoesOn
  BY <1>4 DEF Command, Edit, Poll, BeginShutdown, ShutdownGoesOn, tables
<1>5. QED
  BY <1>1, <1>2, <1>3, <1>4 DEF Next

\* Until the supervisor stops, only somebody who starts an agent brings a stack of it back.
THEOREM NoResurrectionHolds == ~Concurrent /\ Spec => NoResurrection
<1> DEFINE OnlyByStart ==
       \A a \in Agents : running /\ stacks[a] = 0 /\ stacks'[a] # 0 =>
          \E c \in Callers : op[c].at = "creating" /\ op[c].job.agent = a
<1>1. ASSUME Inv, [Next]_vars
      PROVE  OnlyByStart
  <2> SUFFICES ASSUME NEW a \in Agents, running, stacks[a] = 0, stacks'[a] # 0
               PROVE  \E c \in Callers : op[c].at = "creating" /\ op[c].job.agent = a
    OBVIOUS
  <2>1. stacks \in Tables
    BY <1>1 DEF Inv, Typed
  <2>2. Next /\ stacks' # stacks
    BY <1>1 DEF vars
  <2>3. ASSUME NEW b, stacks' = [stacks EXCEPT ![b] = 0]
        PROVE  FALSE
    BY <2>1, <2>3 DEF Tables
  <2>4. ASSUME NEW b \in Agents, NEW i \in Live(b), Register(b, i)
        PROVE  FALSE
    <3>1. stacks[b] = i /\ i # 0
      BY <1>1, <2>4, LiveSlots DEF Inv, RunInv, TablesTrue
    <3>2. QED
      BY <2>1, <2>4, <3>1 DEF Tables, Register
  <2>5. ASSUME NEW c \in Callers, NEW i \in Slots, op[c].at = "creating",
               Register(op[c].job.agent, i)
        PROVE  op[c].job.agent = a
    BY <2>1, <2>5 DEF Tables, Register
  <2>6. QED
    BY <1>1, <2>2, <2>3, <2>4, <2>5, StacksStep
<1>2. ~Concurrent /\ Spec => [][OnlyByStart]_vars
  BY <1>1, SupervisorInv, PTL DEF Spec
<1>3. QED
  BY <1>2 DEF NoResurrection
=============================================================================
