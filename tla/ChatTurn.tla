------------------------------ MODULE ChatTurn ------------------------------
(***************************************************************************)
(* The turns of one chat: orchestrator/flows.py and injection.py on top of *)
(* CLIService, ProcessRegistry and InflightTracker.                        *)
(*                                                                         *)
(* A turn is a user's message, or a prompt the message bus injects.  Turns *)
(* of one topic have a lock; the registry of processes, its two flags and  *)
(* the in-flight record belong to the whole chat, and /stop, the interrupt *)
(* words and the quick commands take no lock.                              *)
(***************************************************************************)
EXTENDS Naturals, FiniteSets

CONSTANTS
    Messages,     \* turns of the user
    Injections,   \* turns of the message bus
    Streamed,     \* messages answered by normal_streaming, the others by normal
    TopicOf,      \* the topic of a turn
    Stops,        \* the /stop commands the user may send
    MaxEvents,    \* bound: /stop, interrupt words, quick commands, crashes, exceptions
    Private,      \* the chat is a private one (chat_id > 0), not a group
    None

Turns == Messages \cup Injections

ASSUME ChatTurnAssumption ==
    /\ Messages \cap Injections = {} /\ Streamed \subseteq Messages
    /\ DOMAIN TopicOf = Turns
    /\ Stops \cap Turns = {} /\ None \notin Turns
    /\ MaxEvents \in Nat /\ Private \in BOOLEAN

VARIABLES
    up,          \* FALSE between a crash and the next start
    aborted, interrupted,  \* ProcessRegistry's flags of the chat
    registry,    \* the turns whose process it lists
    at,          \* where every turn is
    calls,       \* how often a turn prepared a CLI call: twice if it recovered
    streaming,   \* the turns whose call streams
    proc,        \* the process of a turn's CLI call, then what it came back with
    kills,       \* kill_all under way: by turn or /stop, the processes it waits for
    inflight,    \* the turn in inflight_turns.json
    answer,      \* what the user got for a message: nothing, an answer, the error
                 \* of its CLI call, or an internal error (a warning) instead of one
    announced,   \* turns whose interruption the next start announced
    \* What has happened, which no guard reads:
    mark,        \* what the flags owe a message: "stopped" if a /stop or an interrupt
                 \* met it under way, "cleared" if others took the flags down again
                 \* after that, "struck" if a flag was up for another turn's sake
    unrecorded,  \* messages whose in-flight record another message overwrote or removed
    events, sent, crash  \* events so far, for their bound; the /stop commands among
                 \* them, and the crash: "once", or "late" if its restart was too late

vars == <<up, aborted, interrupted, registry, at, calls, streaming, proc,
          kills, inflight, answer, announced, mark, unrecorded, events, sent, crash>>
flags   == <<aborted, interrupted>>
record  == <<inflight, unrecorded>>
used    == <<events, sent, crash>>
ghosts  == <<announced, mark, used>>
process == <<registry, proc>>

Killers == Turns \cup Stops
Busy(u) == at[u] \notin {"idle", "over", "lost"}
\* Its CLI call is ahead, under way or not judged yet.
Unjudged(u) == at[u] \in {"preparing", "launching", "running", "recovering"}
Waiting     == {u \in Messages : Unjudged(u)}
Killing(k)  == kills[k].on
Quiet       == [on |-> FALSE, of |-> {}]

Init ==
    /\ up = TRUE
    /\ aborted = FALSE /\ interrupted = FALSE
    /\ registry = {}
    /\ at = [u \in Turns |-> "idle"] /\ calls = [u \in Turns |-> 0]
    /\ streaming = Streamed
    /\ proc = [u \in Turns |-> "none"]
    /\ kills = [k \in Killers |-> Quiet]
    /\ inflight = None
    /\ answer = [u \in Turns |-> "none"]
    /\ announced = {} /\ unrecorded = {}
    /\ mark = [u \in Turns |-> "none"]
    /\ events = 0 /\ sent = {} /\ crash = "none"

\* A flag goes up to stop us, and is up for all others under way, too.
Stopped(us) == [u \in Turns |-> IF u \in us THEN "stopped"
                                ELSE IF u \in Waiting /\ mark[u] = "none" THEN "struck"
                                ELSE mark[u]]
\* A flag is taken down, and the other one may be up.
Wiped(other) == [u \in Turns |-> IF ~other /\ u \in Waiting /\ mark[u] = "stopped" THEN "cleared"
                                 ELSE mark[u]]

-----------------------------------------------------------------------------
(* ProcessRegistry *)

\* The processes that kill_all(chat) finds alive among the entries it takes.
Victims == {u \in registry : proc[u] = "alive"}

\* kill_all up to its await: the flag is set, the entries are taken out of the
\* registry and their processes get SIGTERM.
KillAll(k) ==
    /\ aborted' = TRUE
    /\ registry' = {}
    /\ proc' = [u \in Turns |-> IF u \in Victims THEN "term" ELSE proc[u]]
    /\ kills' = [kills EXCEPT ![k] = [on |-> Victims # {}, of |-> Victims]]

\* The grace period is over: what still lives gets SIGKILL.
Grace(k) ==
    LET left == {u \in kills[k].of : proc[u] = "term"} IN
    /\ Killing(k) /\ left # {}
    /\ proc' = [u \in Turns |-> IF u \in left THEN "killed" ELSE proc[u]]
    /\ UNCHANGED <<up, flags, registry, at, calls, streaming, kills, record, answer, ghosts>>

\* The process of a turn's CLI call exits: by itself, by a signal or by its
\* timeout.  kill_stale and the system may kill it, too.
ProcessExits(u) ==
    LET own    == IF u \in streaming THEN {"ok", "error", "timeout", "recoverable", "nothing"}
                                     ELSE {"ok", "error", "timeout", "recoverable"}
        ending == [alive |-> own, term |-> {"ok", "error"}, killed |-> {"recoverable"}]
    IN
    /\ at[u] = "running" /\ proc[u] \in DOMAIN ending
    /\ \E how \in ending[proc[u]] : proc' = [proc EXCEPT ![u] = how]
    /\ kills' = [k \in Killers |-> [kills[k] EXCEPT !.of = @ \ {u}]]
    /\ UNCHANGED <<up, flags, registry, at, calls, streaming, record, answer, ghosts>>

-----------------------------------------------------------------------------
(* A turn: the flows for messages, _inject_prompt for injected prompts. *)

\* Fault: the abort flag of an earlier turn stays.
BeginFlagged(u) ==
    /\ up /\ at[u] = "idle"
    /\ \A v \in Turns : TopicOf[v] = TopicOf[u] => ~Busy(v)
    /\ at' = [at EXCEPT ![u] = "preparing"]
    /\ UNCHANGED <<up, flags, process, calls, streaming, kills, record, answer, ghosts>>

\* The turn gets the lock of its session.  A message clears the abort flag of the
\* chat, then looks up its session, its memory and its context.  It does not clear an
\* interrupt that nobody has noticed yet.
Begin(u) ==
    /\ up /\ at[u] = "idle"
    /\ \A v \in Turns : TopicOf[v] = TopicOf[u] => ~Busy(v)
    /\ at' = [at EXCEPT ![u] = "preparing"]
    /\ aborted' = (aborted /\ u \notin Messages)
    /\ mark' = IF u \notin Messages THEN mark
               ELSE [Wiped(interrupted) EXCEPT ![u] = IF interrupted THEN "struck" ELSE @]
    /\ UNCHANGED <<up, interrupted, process, calls, streaming, kills, record, answer,
                   announced, used>>

\* The request is ready: the in-flight record is written before the first call.  The
\* chat has one record.
Launch(u) ==
    LET recorded == u \in Messages /\ calls[u] = 0 IN
    /\ at[u] = "preparing"
    /\ at' = [at EXCEPT ![u] = "launching"]
    /\ calls' = [calls EXCEPT ![u] = @ + 1]
    /\ inflight' = IF recorded THEN u ELSE inflight
    /\ unrecorded' = IF recorded THEN unrecorded \cup ({inflight} \ {None}) ELSE unrecorded
    /\ UNCHANGED <<up, flags, process, streaming, kills, answer, ghosts>>

\* The subprocess has started and is registered.
Spawned(u) ==
    /\ at[u] = "launching"
    /\ at' = [at EXCEPT ![u] = "running"]
    /\ proc' = [proc EXCEPT ![u] = "alive"]
    /\ registry' = registry \cup {u}
    /\ UNCHANGED <<up, flags, calls, streaming, kills, record, answer, ghosts>>

\* A subprocess that cannot be started leaves a stream without a result.
StreamFails(u) ==
    /\ at[u] = "launching" /\ u \in streaming
    /\ at' = [at EXCEPT ![u] = "running"]
    /\ proc' = [proc EXCEPT ![u] = "nothing"]
    /\ UNCHANGED <<up, flags, registry, calls, streaming, kills, record, answer, ghosts>>

\* Fault: the record of a turn that ends is not removed.
FinishRecorded(u, a) ==
    /\ at' = [at EXCEPT ![u] = "over"]
    /\ answer' = [answer EXCEPT ![u] = a]
    /\ UNCHANGED record

\* The turn is over and the user has an answer; the finally clause of the call removes
\* the in-flight record of the chat, whoever wrote it.
Finish(u, a) ==
    LET recorded == u \in Messages /\ calls[u] > 0 IN
    /\ at' = [at EXCEPT ![u] = "over"]
    /\ answer' = [answer EXCEPT ![u] = a]
    /\ inflight' = IF recorded THEN None ELSE inflight
    /\ unrecorded' = IF recorded THEN unrecorded \cup ({inflight} \ {None, u}) ELSE unrecorded

Flagged == aborted \/ interrupted

\* was_aborted or was_interrupted: the turn ends without a word.
EndSilently(u) ==
    /\ interrupted' = FALSE
    /\ mark' = Wiped(aborted)
    /\ Finish(u, "none")
    /\ registry' = registry \ {u}
    /\ proc' = [proc EXCEPT ![u] = "none"]
    /\ kills' = [k \in Killers |-> [kills[k] EXCEPT !.of = @ \ {u}]]
    /\ UNCHANGED <<up, aborted, calls, streaming, announced, used>>

\* A stream that sees the flag at its next event is dropped with its process.
StreamBreaks(u) ==
    /\ at[u] = "running" /\ u \in streaming /\ aborted
    /\ proc[u] \in {"alive", "term", "killed"}
    /\ EndSilently(u)

\* The CLI call has returned and its process is unregistered.
Returned(u) == at[u] = "running" /\ proc[u] \notin {"alive", "term", "killed"}
Leave(u) ==
    /\ registry' = registry \ {u}
    /\ proc' = [proc EXCEPT ![u] = "none"]

\* An exception in the preparation, the launch, the call or what is done with its
\* result, and a missing key of Gemini before the first call: the user is told, whatever
\* the flags say, and the flags stay.
Raise(u) ==
    /\ events < MaxEvents
    /\ events' = events + 1
    /\ \/ at[u] \in {"preparing", "launching", "saving"}
       \/ at[u] = "failing" /\ ~Killing(u)
       \/ Returned(u) /\ proc[u] # "nothing"
    /\ Finish(u, "internal")
    /\ Leave(u)
    /\ UNCHANGED <<up, flags, calls, streaming, kills, announced, mark, sent, crash>>

\* A stream without a result is repeated without streaming, unless aborted.
FallBack(u) ==
    /\ Returned(u) /\ proc[u] = "nothing" /\ ~aborted
    /\ at' = [at EXCEPT ![u] = "launching"]
    /\ streaming' = streaming \ {u}
    /\ Leave(u)
    /\ UNCHANGED <<up, flags, calls, kills, record, answer, ghosts>>

\* Fault: every SIGKILL is recovered from, not only the first one.
RecoverAgain(u) ==
    /\ Returned(u) /\ u \in Messages
    /\ proc[u] = "recoverable" /\ ~Flagged
    /\ at' = [at EXCEPT ![u] = "preparing"]
    /\ calls' = [calls EXCEPT ![u] = 0]
    /\ Leave(u)
    /\ UNCHANGED <<up, flags, streaming, kills, record, answer, ghosts>>

\* _recover_session: the first call ended by SIGKILL or by a session the CLI does
\* not know, and nobody aborted it: all processes of the chat are killed and the
\* message is executed once more.
Recover(u) ==
    LET others == Victims \ {u} IN
    /\ Returned(u) /\ u \in Messages
    /\ proc[u] = "recoverable" /\ calls[u] = 1 /\ ~Flagged
    /\ registry' = {}
    /\ proc' = [v \in Turns |-> IF v = u THEN "none" ELSE IF v \in others THEN "term" ELSE proc[v]]
    /\ kills' = [kills EXCEPT ![u] = [on |-> others # {}, of |-> others]]
    /\ aborted' = (others # {})
    /\ mark' = IF others = {} THEN mark ELSE [Stopped({}) EXCEPT ![u] = mark[u]]
    /\ at' = [at EXCEPT ![u] = IF others = {} THEN "preparing" ELSE "recovering"]
    /\ UNCHANGED <<up, interrupted, calls, streaming, record, answer,
                   announced, used>>

\* The flow finds a flag of the chat set.
Ignore(u) ==
    /\ Returned(u) /\ u \in Messages
    /\ Flagged /\ (proc[u] = "nothing" => aborted)
    /\ EndSilently(u)

\* _handle_timeout and _reset_on_error: all processes of the chat are killed before
\* the user is told.
Fail(u) ==
    LET others == Victims \ {u} IN
    /\ Returned(u) /\ u \in Messages
    /\ ~Flagged /\ proc[u] \in {"error", "timeout"}
    /\ registry' = {}
    /\ proc' = [v \in Turns |-> IF v = u THEN "none" ELSE IF v \in others THEN "term" ELSE proc[v]]
    /\ kills' = [kills EXCEPT ![u] = [on |-> others # {}, of |-> others]]
    /\ aborted' = TRUE
    /\ mark' = [Stopped({}) EXCEPT ![u] = mark[u]]
    /\ IF others = {} /\ proc[u] = "error"
       THEN Finish(u, "error")
       ELSE at' = [at EXCEPT ![u] = "failing"] /\ UNCHANGED <<answer, record>>
    /\ UNCHANGED <<up, interrupted, calls, streaming, announced, used>>

\* A second SIGKILL is told at once.
KilledTwice(u) ==
    /\ Returned(u) /\ u \in Messages
    /\ ~Flagged /\ proc[u] = "recoverable" /\ calls[u] = 2
    /\ Finish(u, "error")
    /\ Leave(u)
    /\ UNCHANGED <<up, flags, calls, streaming, kills, ghosts>>

\* The response is recorded in the session before it is delivered; an injected
\* prompt looks at no flag and at no error.
Succeed(u) ==
    /\ Returned(u)
    /\ u \in Injections \/ (~Flagged /\ proc[u] = "ok")
    /\ at' = [at EXCEPT ![u] = "saving"]
    /\ Leave(u)
    /\ UNCHANGED <<up, flags, calls, streaming, kills, record, answer, ghosts>>

Saved(u) ==
    /\ at[u] = "saving"
    /\ Finish(u, "text")
    /\ UNCHANGED <<up, flags, process, calls, streaming, kills, ghosts>>

\* What a turn waits for in kill_all has exited.  Recovery clears the abort flag,
\* also when a /stop has set it since.
KillReturns(u) ==
    /\ Killing(u) /\ kills[u].of = {}
    /\ kills' = [kills EXCEPT ![u] = Quiet]
    /\ IF at[u] = "recovering"
       THEN /\ aborted' = FALSE
            /\ mark' = Wiped(interrupted)
            /\ at' = [at EXCEPT ![u] = "preparing"]
            /\ UNCHANGED <<answer, record>>
       ELSE Finish(u, "error") /\ UNCHANGED <<aborted, mark>>
    /\ UNCHANGED <<up, interrupted, process, calls, streaming, announced, used>>

\* A timeout found nothing else to kill; it waits for the session file only.
TimeoutSaved(u) ==
    /\ at[u] = "failing" /\ ~Killing(u)
    /\ Finish(u, "error")
    /\ UNCHANGED <<up, flags, process, calls, streaming, kills, ghosts>>

TurnStep(u) ==
    \/ Launch(u) \/ Spawned(u) \/ StreamFails(u) \/ ProcessExits(u)
    \/ FallBack(u) \/ Recover(u) \/ Ignore(u) \/ Fail(u) \/ KilledTwice(u) \/ Succeed(u)
    \/ Saved(u) \/ KillReturns(u) \/ TimeoutSaved(u) \/ Raise(u)

-----------------------------------------------------------------------------
(* The user, without a lock, and the life of the process. *)

\* /stop: Orchestrator.abort.
Stop(s) ==
    /\ up /\ s \notin sent /\ events < MaxEvents
    /\ events' = events + 1 /\ sent' = sent \cup {s}
    /\ KillAll(s)
    /\ mark' = Stopped(Waiting)
    /\ UNCHANGED <<up, interrupted, at, calls, streaming, record, answer, announced, crash>>

StopReturns(s) ==
    /\ Killing(s) /\ kills[s].of = {}
    /\ kills' = [kills EXCEPT ![s] = Quiet]
    /\ UNCHANGED <<up, flags, process, at, calls, streaming, record, answer, ghosts>>

\* interrupt_all: the flag is set whenever the chat has entries, for whoever looks at
\* it next.
Interrupt ==
    /\ up /\ events < MaxEvents
    /\ registry # {}
    /\ events' = events + 1
    /\ interrupted' = TRUE
    /\ mark' = Stopped(registry \cap Messages)
    /\ UNCHANGED <<up, aborted, process, at, calls, streaming, kills, record, answer,
                   announced, sent, crash>>

\* A quick command goes through handle_message, which clears the flag.
Command ==
    /\ up /\ events < MaxEvents
    /\ events' = events + 1
    /\ aborted' = FALSE
    /\ mark' = Wiped(interrupted)
    /\ UNCHANGED <<up, interrupted, process, at, calls, streaming, kills, record, answer,
                   announced, sent, crash>>

Crash ==
    /\ up /\ crash = "none" /\ events < MaxEvents
    /\ up' = FALSE
    /\ events' = events + 1 /\ crash' = "once"
    /\ aborted' = FALSE /\ interrupted' = FALSE /\ registry' = {}
    /\ at' = [u \in Turns |-> IF Busy(u) THEN "lost" ELSE at[u]]
    /\ proc' = [u \in Turns |-> "none"]
    /\ kills' = [k \in Killers |-> Quiet]
    /\ UNCHANGED <<calls, streaming, record, answer, announced, mark, sent>>

\* _handle_recovery announces the recorded turn and clears the record.  A record of a
\* group is skipped, and so is one that is older than twice the timeout of a turn.
Restart ==
    /\ ~up
    /\ up' = TRUE
    /\ \E late \in BOOLEAN :
          /\ crash' = IF late THEN "late" ELSE crash
          /\ announced' = announced \cup (IF Private /\ ~late THEN {inflight} \ {None} ELSE {})
    /\ inflight' = None
    /\ UNCHANGED <<flags, process, at, calls, streaming, kills, answer, unrecorded, mark, events, sent>>

Next ==
    \/ \E u \in Turns : Begin(u) \/ StreamBreaks(u) \/ TurnStep(u)
    \/ \E k \in Killers : Grace(k)
    \/ \E s \in Stops : Stop(s) \/ StopReturns(s)
    \/ Interrupt \/ Command \/ Crash \/ Restart

Spec == Init /\ [][Next]_vars

\* What a turn awaits comes back, a CLI process by its timeout at the latest, and
\* kill_all goes on after its grace period; the user is free.
Fairness ==
    /\ \A u \in Turns : WF_vars(TurnStep(u))
    /\ \A k \in Killers : WF_vars(Grace(k))

FairSpec == Spec /\ Fairness

-----------------------------------------------------------------------------
(* Properties *)

\* "/stop should suppress ALL output": a message that a /stop or an interrupt met
\* before its CLI call was judged gets no answer, an internal error at most.
StopSuppresses ==
    \A u \in Messages : at[u] = "over" /\ mark[u] \in {"stopped", "cleared"} =>
                           answer[u] \in {"none", "internal"}

\* A stopped message is answered only when others have taken the flags down under it: a
\* quick command, a message of another topic, a recovery, a message that was silenced
\* first.  And a message is silenced only when it was stopped, or when a flag went up, or
\* had stayed up, for another turn while it was under way; the flags that earlier turns
\* and kills leave behind silence nobody.
SilenceExplained ==
    \A u \in Messages : at[u] = "over" =>
        /\ mark[u] = "stopped" => answer[u] \in {"none", "internal"}
        /\ answer[u] = "none" => mark[u] # "none"

\* The message that a crash cut off after its CLI call was prepared is announced by the
\* next start, if that is in time and the chat is private, unless another message took
\* its place in the record; and no turn that ended is announced.
CrashAnnounced ==
    /\ up /\ Private /\ crash # "late" =>
          \A u \in Messages : at[u] = "lost" /\ calls[u] > 0 => u \in announced \cup unrecorded
    /\ \A u \in announced : at[u] = "lost"

\* A turn that has begun ends: it is answered, silenced or lost in a crash, for
\* all kills, recoveries and fallbacks in between.
TurnsEnd == \A u \in Turns : Busy(u) ~> ~Busy(u)
=============================================================================
