---------------------------- MODULE NamedSessions ----------------------------
(***************************************************************************)
(* The named sessions of a chat: session/named.py (the registry and its    *)
(* file), background/observer.py (calls in the background), the foreground *)
(* follow-ups of flows.py, the messages of a peer agent of injection.py,   *)
(* and their recovery at startup.                                          *)
(*                                                                         *)
(* A call reads its session, executes the CLI, and writes the session      *)
(* after it.  The registry has no lock: that one call at a time works in a *)
(* session rests on its status, which several parties write and not all    *)
(* of them read.                                                           *)
(***************************************************************************)
EXTENDS Naturals, FiniteSets

CONSTANTS
    Calls,        \* CLI calls under way, reused when over
    Names,        \* session names, generated or of a peer
    Peer,         \* the session ia-<sender> of a peer agent
    Prompts,
    MaxTasks,     \* MAX_TASKS_PER_CHAT
    MaxSessions,  \* MAX_SESSIONS_PER_CHAT
    None

ASSUME NamedSessionsAssumption ==
    /\ IsFiniteSet(Calls) /\ IsFiniteSet(Names)
    /\ Peer \in Names
    /\ None \notin Prompts
    /\ MaxTasks \in Nat /\ MaxSessions \in Nat

VARIABLES
    up,         \* "down", "starting" (recovery), "up"
    session,    \* NamedSessionRegistry._sessions
    file,       \* named_sessions.json
    recovered,  \* the recovery actions still to be taken
    at,         \* where each call is
    job,        \* what it is about
    stop,       \* an abort under way: "chat" (/stop), "agents" (/stop_all), "exit"
    loose       \* history, read by no guard: sessions in which a call works that
                \* was started, or may be joined, past their status; until none works

vars == <<up, session, file, recovered, at, job, stop, loose>>

\* "queued": the task of a background call has not run; "cli": the CLI works;
\* "back": its result is on the way to the registry; "again": that of a call
\* cancelled while it was "sending"; "lost": it ended and left "running" behind.
Phases == {"idle", "queued", "cli", "back", "sending", "again", "lost"}

\* A NamedSession: its status, whether it has a session_id, its last_prompt.
NoSession == [status |-> "none", sid |-> FALSE, prompt |-> None]
Active(n) == session[n].status \in {"running", "idle"}

NoJob == [kind |-> "bg", name |-> Peer, prompt |-> None, resumed |-> FALSE,
          current |-> FALSE, cancel |-> "no"]

AtWork(n)  == {c \in Calls : job[c].name = n /\ at[c] \in {"queued", "cli", "back"}}
Background == {c \in Calls : job[c].kind = "bg" /\ at[c] \notin {"idle", "lost"}}
Free(c) == at[c] = "idle" \/ (at[c] = "lost" /\ session[job[c].name].status # "running")

\* The step takes no heed of the work under way in sessions ns.
Past(ns) == loose' = {n \in loose \cup ns : AtWork(n) # {} /\ AtWork(n)' # {}}

Init ==
    /\ up = "up"
    /\ session = [n \in Names |-> NoSession]
    /\ file = session
    /\ recovered = {}
    /\ at = [c \in Calls |-> "idle"]
    /\ job = [c \in Calls |-> NoJob]
    /\ stop = "no"
    /\ loose = {}

-----------------------------------------------------------------------------
(* The registry *)

\* _persist: all sessions but the ended ones.
Saved(s) == [n \in Names |-> IF s[n].status = "ended" THEN NoSession ELSE s[n]]
Put(n, s) ==
    /\ session' = [session EXCEPT ![n] = s]
    /\ file' = Saved(session')

\* update_after_response: by name, whatever became of the session.
Update(n, sid) ==
    IF session[n].status = "none"
    THEN UNCHANGED <<session, file>>
    ELSE Put(n, [session[n] EXCEPT !.status = "idle", !.sid = @ \/ sid])

\* ns.status = ...: on the object the caller holds, without _persist.
SetStatus(c, status) ==
    /\ session' = IF job[c].current THEN [session EXCEPT ![job[c].name].status = status]
                                    ELSE session
    /\ UNCHANGED file

\* Fault: the prompt of the last follow-up stays.
MarkRunningKeepsPrompt(n, p) == Put(n, [session[n] EXCEPT !.status = "running"])
MarkRunning(n, p) == Put(n, [session[n] EXCEPT !.status = "running", !.prompt = p])

EndSession(n) ==
    /\ Active(n)
    /\ Put(n, [session[n] EXCEPT !.status = "ended"])

EndAll ==
    IF \E n \in Names : Active(n)
    THEN /\ session' = [n \in Names |-> IF Active(n) THEN [session[n] EXCEPT !.status = "ended"]
                                                     ELSE session[n]]
         /\ file' = Saved(session')
    ELSE UNCHANGED <<session, file>>

-----------------------------------------------------------------------------
(* Requests *)

\* A call starts with what it read of its session; replaced: the session is a
\* new object, which the earlier callers do not hold.
Begin(c, kind, n, p, phase, replaced) ==
    /\ Free(c)
    /\ at' = [at EXCEPT ![c] = phase]
    /\ job' = [d \in Calls |->
        IF d = c
        THEN [kind |-> kind, name |-> n, prompt |-> p, current |-> TRUE, cancel |-> "no",
              resumed |-> ~replaced /\ session[n].sid]
        ELSE [job[d] EXCEPT !.current = @ /\ ~(replaced /\ job[d].name = n)]]

\* BackgroundObserver.submit, after the session was marked: one task too many is
\* refused, and its session stays as marked.
Submit(c, n, p, replaced) ==
    Begin(c, "bg", n, p, IF Cardinality(Background) < MaxTasks THEN "queued" ELSE "lost", replaced)

Open == up = "up" /\ stop # "exit"

\* submit_named_session: /session <prompt>.  A name is drawn that no session has that
\* is not ended; a call of an ended one may still be at work.
NewSession(c, n, p) ==
    /\ Open
    /\ n # Peer /\ ~Active(n)
    /\ Cardinality({m \in Names : Active(m)}) < MaxSessions
    /\ Put(n, [NoSession EXCEPT !.status = "running"])
    /\ Submit(c, n, p, TRUE)
    /\ Past({n})
    /\ UNCHANGED <<up, recovered, stop>>

\* Fault: the status is not looked at.
FollowUpAnyStatus(c, n, p, kind) ==
    /\ Open
    /\ Active(n)
    /\ MarkRunning(n, p)
    /\ IF kind = "bg" THEN Submit(c, n, p, FALSE) ELSE Begin(c, "fg", n, p, "cli", FALSE)
    /\ Past({})
    /\ UNCHANGED <<up, recovered, stop>>
\* submit_named_followup_bg ("bg"), named_session_flow and its streaming form
\* ("fg"): @name <prompt>, /session @name <prompt> and the buttons of a result.
FollowUp(c, n, p, kind) ==
    /\ Open
    /\ session[n].status = "idle"
    /\ MarkRunning(n, p)
    /\ IF kind = "bg" THEN Submit(c, n, p, FALSE) ELSE Begin(c, "fg", n, p, "cli", FALSE)
    /\ Past({})
    /\ UNCHANGED <<up, recovered, stop>>

\* handle_interagent_message: no status is looked at; fresh: a new session was
\* asked for, or the provider has changed since.
Message(c, p, fresh) ==
    LET replaced == fresh \/ ~Active(Peer) IN
    /\ up # "down" /\ stop # "exit"
    /\ IF replaced
       THEN Put(Peer, [NoSession EXCEPT !.status = "running"])
       ELSE /\ session' = [session EXCEPT ![Peer].status = "running"]
            /\ UNCHANGED file
    /\ Begin(c, "ia", Peer, p, "cli", replaced)
    /\ Past({Peer})
    /\ UNCHANGED <<up, recovered, stop>>

\* end_named_session kills the process of the session by its label and ends the
\* session, also when the call has no process yet or outlives it; the "end all"
\* button ends all sessions and kills nothing.
End(n) == Open /\ EndSession(n) /\ UNCHANGED <<up, recovered, at, job, stop, loose>>
EndButton ==
    /\ Open
    /\ \E n \in Names : Active(n)
    /\ EndAll
    /\ UNCHANGED <<up, recovered, at, job, stop, loose>>

-----------------------------------------------------------------------------
(* A call *)

Goes(c, phase) == at' = [at EXCEPT ![c] = phase] /\ UNCHANGED job
Lost(c) ==
    /\ at' = [at EXCEPT ![c] = "lost"]
    /\ job' = [job EXCEPT ![c] = [NoJob EXCEPT !.name = job[c].name]]
Over(c) == at' = [at EXCEPT ![c] = "idle"] /\ job' = [job EXCEPT ![c] = NoJob]

\* The first step of BackgroundObserver._run, and the end of its CLI call, which
\* may have failed, timed out, or been killed.
RunStep(c, from, to) ==
    /\ at[c] = from
    /\ job[c].kind = "bg" /\ job[c].cancel # "coming"
    /\ IF to = "idle" THEN Over(c) ELSE Goes(c, to)
    /\ Past({})
    /\ UNCHANGED <<up, session, file, recovered, stop>>
FirstStep(c) == RunStep(c, "queued", "cli")
CliEnds(c)   == RunStep(c, "cli", "back")
Sent(c)      == RunStep(c, "sending", "idle")

\* The transport updates the registry, then sends.  The second result of a call may
\* come when another call, begun after the first one, is at work.
Deliver(c, sid) ==
    /\ at[c] \in {"back", "again"}
    /\ job[c].cancel # "coming"
    /\ sid => job[c].cancel = "no"
    /\ Update(job[c].name, sid)
    /\ Goes(c, "sending")
    /\ Past(IF at[c] = "again" THEN {job[c].name} ELSE {})
    /\ UNCHANGED <<up, recovered, stop>>

\* Its envelope names the Telegram transport; where that one is not running, a
\* fallback sends the text and no transport updates the registry.
Undelivered(c) ==
    /\ at[c] = "back"
    /\ job[c].cancel # "coming"
    /\ Lost(c)
    /\ Past({})
    /\ UNCHANGED <<up, session, file, recovered, stop>>

\* CancelledError: before the first step nothing runs; else the result "aborted"
\* is delivered, a second time if the first was being sent.
Cancelled(c) ==
    /\ c \in Background /\ job[c].cancel = "coming"
    /\ IF at[c] = "queued"
       THEN Lost(c)
       ELSE /\ at' = [at EXCEPT ![c] = IF @ \in {"cli", "back"} THEN "back" ELSE "again"]
            /\ job' = [job EXCEPT ![c].cancel = "came"]
    /\ Past({})
    /\ UNCHANGED <<up, session, file, recovered, stop>>

\* A foreground call returns: answered, or with an error, aborted or interrupted.
FinishFg(c, answered, sid) ==
    /\ at[c] = "cli" /\ job[c].kind = "fg"
    /\ IF answered THEN Update(job[c].name, sid) ELSE SetStatus(c, "idle")
    /\ Over(c)
    /\ Past({})
    /\ UNCHANGED <<up, recovered, stop>>

\* A message of the peer is answered, or failed.
FinishIa(c, sid) ==
    /\ at[c] = "cli" /\ job[c].kind = "ia"
    /\ IF sid THEN Update(job[c].name, TRUE) ELSE SetStatus(c, "idle")
    /\ Over(c)
    /\ Past({})
    /\ UNCHANGED <<up, recovered, stop>>

\* The bus gives up waiting for the handler, or cancels it; a foreground call
\* raises.  Nobody touches the session.
CutOff(c) ==
    /\ at[c] = "cli" /\ job[c].kind \in {"fg", "ia"}
    /\ Lost(c)
    /\ Past({})
    /\ UNCHANGED <<up, session, file, recovered, stop>>

-----------------------------------------------------------------------------
(* Abort, shutdown, crash and recovery *)

\* The processes have been killed; cancel_all or shutdown of the observer.
Stop(how) ==
    /\ Open /\ stop = "no"
    /\ stop' = how
    /\ job' = [c \in Calls |-> IF c \in Background THEN [job[c] EXCEPT !.cancel = "coming"]
                                                   ELSE job[c]]
    /\ UNCHANGED <<up, session, file, recovered, at, loose>>

Gathered == \A c \in Background : job[c].cancel = "no"

\* abort ends with end_all; abort_all_agents does not.
StopReturns ==
    /\ stop \in {"chat", "agents"} /\ Gathered
    /\ stop' = "no"
    /\ IF stop = "chat" THEN EndAll ELSE UNCHANGED <<session, file>>
    /\ UNCHANGED <<up, recovered, at, job, loose>>

Die ==
    /\ up' = "down"
    /\ session' = [n \in Names |-> NoSession]
    /\ recovered' = {}
    /\ at' = [c \in Calls |-> "idle"]
    /\ job' = [c \in Calls |-> NoJob]
    /\ stop' = "no"
    /\ loose' = {}
    /\ UNCHANGED file

Exit  == stop = "exit" /\ Gathered /\ Die
Crash == up # "down" /\ Die

\* Fault: stale running sessions are kept.
RestartAsSaved ==
    /\ up = "down" /\ up' = "starting"
    /\ session' = file
    /\ recovered' = {n \in Names \ {Peer} : file[n].status = "running" /\ file[n].sid}
    /\ UNCHANGED <<file, at, job, stop, loose>>
\* _load downgrades what was running; pop_recovered_running and the planner keep
\* of it the sessions of users that have a session_id.
Restart ==
    /\ up = "down" /\ up' = "starting"
    /\ session' = [n \in Names |-> IF file[n].status = "running"
                                   THEN [file[n] EXCEPT !.status = "idle"] ELSE file[n]]
    /\ recovered' = {n \in Names \ {Peer} : file[n].status = "running" /\ file[n].sid}
    /\ UNCHANGED <<file, at, job, stop, loose>>

\* The startup submits the last prompt again.
Resubmit(c, n) ==
    /\ up = "starting"
    /\ n \in recovered
    /\ recovered' = recovered \ {n}
    /\ MarkRunning(n, session[n].prompt)
    /\ Submit(c, n, session[n].prompt, FALSE)
    /\ Past({})
    /\ UNCHANGED <<up, stop>>

Started ==
    /\ up = "starting" /\ recovered = {}
    /\ up' = "up"
    /\ UNCHANGED <<session, file, recovered, at, job, stop, loose>>

-----------------------------------------------------------------------------
Requests ==
    \/ \E c \in Calls, p \in Prompts :
          \/ \E n \in Names : NewSession(c, n, p)
          \/ \E n \in Names, kind \in {"bg", "fg"} : FollowUp(c, n, p, kind)
          \/ \E fresh \in BOOLEAN : Message(c, p, fresh)
    \/ \E n \in Names : End(n)
    \/ EndButton

CallStep(c) ==
    \/ FirstStep(c) \/ CliEnds(c) \/ Sent(c) \/ Undelivered(c) \/ Cancelled(c) \/ CutOff(c)
    \/ \E sid \in BOOLEAN : Deliver(c, sid) \/ FinishIa(c, sid)
    \/ \E answered, sid \in BOOLEAN : FinishFg(c, answered, sid)

Lifecycle ==
    \/ \E how \in {"chat", "agents", "exit"} : Stop(how)
    \/ StopReturns \/ Exit \/ Crash \/ Restart \/ Started
    \/ \E c \in Calls, n \in Names : Resubmit(c, n)

Next == Requests \/ (\E c \in Calls : CallStep(c)) \/ Lifecycle

Spec == Init /\ [][Next]_vars

-----------------------------------------------------------------------------
(* Properties *)

TypeOK ==
    /\ up \in {"down", "starting", "up"}
    /\ session \in [Names -> [status : {"none", "running", "idle", "ended"}, sid : BOOLEAN,
                              prompt : Prompts \cup {None}]]
    /\ file \in [Names -> [status : {"none", "running", "idle"}, sid : BOOLEAN,
                           prompt : Prompts \cup {None}]]
    /\ recovered \subseteq Names \ {Peer}
    /\ at \in [Calls -> Phases]
    /\ job \in [Calls -> [kind : {"bg", "fg", "ia"}, name : Names, prompt : Prompts \cup {None},
                          resumed : BOOLEAN, current : BOOLEAN, cancel : {"no", "coming", "came"}]]
    /\ stop \in {"no", "chat", "agents", "exit"}
    /\ loose \subseteq Names

\* One call at a time works in a session, whoever sent it and however the last one
\* ended: two would resume one conversation of the CLI twice.  The exceptions begin
\* with a message of the peer or a new session of the same name, which look at no
\* status, or with a second result, which sets the status under another call.
OneCall == \A n \in Names \ loose : \A c, d \in AtWork(n) : c = d

\* A session reads "running" while a call of it is at work, and for no other reason
\* than a lost call (refused by the limit, cut off, cancelled before its first step,
\* or delivered to no transport); one that reads "idle" takes follow-ups, so no
\* call may be at work in it, with the exceptions of OneCall.
RunningTrue ==
    \A n \in Names :
        /\ session[n].status = "running" =>
              \E c \in Calls : job[c].name = n /\ at[c] \in {"queued", "cli", "back", "lost"}
        /\ session[n].status \in {"none", "idle"} /\ n \notin loose => AtWork(n) = {}

\* A crash at any moment finds in the file what recovery needs of the work under
\* way in a session with a conversation: that it runs, and its own prompt.
WorkIsSaved ==
    \A n \in Names \ ({Peer} \cup loose) : \A c \in AtWork(n) :
        job[c].resumed /\ job[c].current /\ session[n].status # "ended" =>
            file[n] = [status |-> "running", sid |-> TRUE, prompt |-> job[c].prompt]
=============================================================================
