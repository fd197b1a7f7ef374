--------------------------- MODULE ChatTurnProofs ---------------------------
(***************************************************************************)
(* Theorems about ChatTurn for any messages, injected prompts, topics,     *)
(* commands and bounds.                                                    *)
(***************************************************************************)
EXTENDS ChatTurn, TLAPS

Places   == {"idle", "preparing", "launching", "running", "recovering", "failing", "saving",
             "over", "lost"}
Signs    == {"none", "alive", "term", "killed", "ok", "error", "timeout", "recoverable", "nothing"}
Answers  == {"none", "text", "error", "internal"}
Marks    == {"none", "stopped", "cleared", "struck"}
Late     == crash = "late"

TypeOK ==
    /\ up \in BOOLEAN /\ aborted \in BOOLEAN /\ interrupted \in BOOLEAN
    /\ registry \subseteq Turns
    /\ at \in [Turns -> Places] /\ calls \in [Turns -> Nat]
    /\ streaming \subseteq Streamed
    /\ proc \in [Turns -> Signs]
    /\ kills \in [Killers -> [on : BOOLEAN, of : SUBSET Turns]]
    /\ inflight \in Messages \cup {None}
    /\ answer \in [Turns -> Answers]
    /\ mark \in [Turns -> Marks]
    /\ announced \subseteq Messages
    /\ events \in Nat /\ sent \subseteq Stops /\ crash \in {"none", "once", "late"}

\* The registry lists running turns, and only messages wait in kill_all.
Tables ==
    /\ \A u \in registry : at[u] = "running"
    /\ \A u \in Turns : /\ Killing(u) => at[u] \in {"recovering", "failing"}
                        /\ at[u] \in {"recovering", "failing"} => u \in Messages

\* A process that is down has no turns, and nothing to wait for.
Down == ~up => /\ \A u \in Turns : ~Busy(u)
               /\ \A k \in Killers : ~Killing(k)

\* The in-flight record is one of the messages whose CLI call was prepared and that have
\* not ended; the others lost theirs to it.  The next start announces what a crash left.
Record ==
    /\ \A u \in Messages : at[u] = "idle" => calls[u] = 0
    /\ \A u \in Messages : Busy(u) /\ calls[u] > 0 => inflight = u \/ u \in unrecorded
    /\ \A u \in Messages : at[u] = "lost" /\ calls[u] > 0 =>
          u \in announced \cup unrecorded \/ Late \/ ~Private \/ (~up /\ inflight = u)
    /\ inflight # None => /\ calls[inflight] > 0
                          /\ IF up THEN Busy(inflight) ELSE at[inflight] = "lost"
    /\ \A u \in announced : at[u] = "lost"

\* Under a message that was stopped a flag is up, and no flag is up under a message whose
\* mark does not tell why, but for the abort flag of its own recovery.
Flags ==
    \A u \in Messages :
        /\ Unjudged(u) /\ mark[u] = "stopped" => Flagged
        /\ Unjudged(u) /\ interrupted => mark[u] # "none"
        /\ at[u] \in {"preparing", "launching", "running"} /\ aborted => mark[u] # "none"
        /\ at[u] \in {"idle", "failing", "saving"} => mark[u] # "stopped"
        /\ at[u] = "over" => /\ mark[u] = "stopped" => answer[u] \in {"none", "internal"}
                             /\ answer[u] = "none" => mark[u] # "none"

Inv == TypeOK /\ Tables /\ Down /\ Record /\ Flags

-----------------------------------------------------------------------------
(* Types *)

LEMMA Sets ==
    /\ Turns \subseteq Killers /\ Messages \subseteq Turns /\ Streamed \subseteq Messages
    /\ None \notin Messages /\ Victims \subseteq registry
    /\ \A s \in Stops : s \in Killers /\ s \notin Turns
    /\ Quiet \in [on : BOOLEAN, of : SUBSET Turns]
BY ChatTurnAssumption DEF Killers, Turns, Victims, Quiet

\* What going up and down of the flags does to the marks.
LEMMA MarkTypes ==
    ASSUME TypeOK
    PROVE  /\ \A us : Stopped(us) \in [Turns -> Marks]
           /\ \A other \in BOOLEAN : Wiped(other) \in [Turns -> Marks]
BY DEF TypeOK, Marks, Stopped, Wiped

LEMMA StoppedOne ==
    ASSUME TypeOK, NEW us, NEW v \in Turns
    PROVE  /\ v \in us => Stopped(us)[v] = "stopped"
           /\ v \notin us => Stopped(us)[v] = IF v \in Waiting /\ mark[v] = "none" THEN "struck"
                                             ELSE mark[v]
BY DEF TypeOK, Stopped

LEMMA WipedOne ==
    ASSUME TypeOK, NEW other \in BOOLEAN, NEW v \in Turns
    PROVE  Wiped(other)[v] = IF ~other /\ v \in Waiting /\ mark[v] = "stopped" THEN "cleared"
                             ELSE mark[v]
BY DEF TypeOK, Wiped

\* Waiting for one process less is waiting still.
LEMMA Shorter ==
    ASSUME TypeOK, NEW u, kills' = [k \in Killers |-> [kills[k] EXCEPT !.of = @ \ {u}]]
    PROVE  /\ kills' \in [Killers -> [on : BOOLEAN, of : SUBSET Turns]]
           /\ \A k \in Killers : Killing(k)' = Killing(k)
BY DEF TypeOK, Killing

\* One more kill_all, or one less.
LEMMA OneKill ==
    ASSUME TypeOK, NEW k \in Killers, NEW on \in BOOLEAN, NEW S \in SUBSET Turns,
           kills' = [kills EXCEPT ![k] = [on |-> on, of |-> S]]
    PROVE  /\ kills' \in [Killers -> [on : BOOLEAN, of : SUBSET Turns]]
           /\ \A j \in Killers : Killing(j)' = IF j = k THEN on ELSE Killing(j)
BY DEF TypeOK, Killing

LEMMA FinishType ==
    ASSUME TypeOK, NEW u \in Turns, NEW a \in Answers, Finish(u, a)
    PROVE  /\ at' \in [Turns -> Places] /\ answer' \in [Turns -> Answers]
           /\ inflight' \in Messages \cup {None}
BY DEF TypeOK, Finish, Places

LEMMA SilentType ==
    ASSUME TypeOK, NEW u \in Turns, EndSilently(u)
    PROVE  TypeOK'
<1>1. "none" \in Answers /\ "none" \in Signs
  BY DEF Answers, Signs
<1>2. /\ at' \in [Turns -> Places] /\ answer' \in [Turns -> Answers]
      /\ inflight' \in Messages \cup {None}
  BY <1>1, FinishType DEF EndSilently
<1>3. kills' \in [Killers -> [on : BOOLEAN, of : SUBSET Turns]]
  BY Shorter DEF EndSilently
<1>4. mark' \in [Turns -> Marks]
  BY MarkTypes DEF TypeOK, EndSilently
<1>5. QED
  BY <1>1, <1>2, <1>3, <1>4 DEF TypeOK, EndSilently, used

LEMMA TurnType ==
    ASSUME TypeOK, NEW u \in Turns, Begin(u) \/ StreamBreaks(u) \/ TurnStep(u)
    PROVE  TypeOK'
<1>0. /\ "none" \in Signs /\ "alive" \in Signs /\ "term" \in Signs
      /\ {"none", "text", "error", "internal"} = Answers /\ "nothing" \in Signs
      /\ {"preparing", "launching", "running", "recovering", "failing", "saving"} \subseteq Places
  BY DEF Signs, Answers, Places
<1>1. CASE Begin(u)
  <2>1. mark' \in [Turns -> Marks]
    <3>1. "struck" \in Marks /\ Wiped(interrupted) \in [Turns -> Marks] /\ mark \in [Turns -> Marks]
      BY MarkTypes DEF TypeOK, Marks
    <3>2. \/ mark' = mark \/ mark' = Wiped(interrupted)
          \/ mark' = [Wiped(interrupted) EXCEPT ![u] = "struck"]
          \/ mark' = [Wiped(interrupted) EXCEPT ![u] = @]
      BY <1>1 DEF Begin
    <3>3. QED
      BY <3>1, <3>2
  <2>2. QED
    BY <1>0, <1>1, <2>1 DEF TypeOK, Begin, process, record, used
<1>2. CASE StreamBreaks(u) \/ Ignore(u)
  BY <1>2, SilentType DEF StreamBreaks, Ignore
<1>3. CASE Launch(u)
  BY <1>0, <1>3 DEF TypeOK, Launch, flags, process, ghosts, used, Late
<1>3a. CASE StreamFails(u)
  BY <1>0, <1>3a DEF TypeOK, StreamFails, flags, record, ghosts, used, Late
<1>4. CASE Spawned(u)
  BY <1>0, <1>4 DEF TypeOK, Spawned, flags, record, ghosts, used, Late
<1>5. CASE ProcessExits(u)
  <2>1. PICK how \in Signs : proc' = [proc EXCEPT ![u] = how]
    <3> DEFINE own == IF u \in streaming THEN {"ok", "error", "timeout", "recoverable", "nothing"}
                                         ELSE {"ok", "error", "timeout", "recoverable"}
               ending == [alive |-> own, term |-> {"ok", "error"}, killed |-> {"recoverable"}]
    <3>1. PICK how \in ending[proc[u]] : proc' = [proc EXCEPT ![u] = how]
      BY <1>5 DEF ProcessExits
    <3>2. proc[u] \in {"alive", "term", "killed"}
      BY <1>5 DEF ProcessExits
    <3>3. own \subseteq Signs
      BY DEF Signs
    <3>4. {"ok", "error"} \subseteq Signs /\ {"recoverable"} \subseteq Signs
      BY DEF Signs
    <3>5. ending["alive"] = own /\ ending["term"] = {"ok", "error"} /\ ending["killed"] = {"recoverable"}
      OBVIOUS
    <3>6. how \in Signs
      <4> HIDE DEF ending, own
      <4> QED
        BY <3>1, <3>2, <3>3, <3>4, <3>5
    <3>7. QED
      BY <3>1, <3>6
  <2>2. kills' \in [Killers -> [on : BOOLEAN, of : SUBSET Turns]]
    BY <1>5, Shorter DEF ProcessExits
  <2>3. UNCHANGED <<up, aborted, interrupted, registry, at, calls, streaming, inflight, answer,
                    mark, announced, used>>
    BY <1>5 DEF ProcessExits, flags, record, ghosts, used, Late
  <2>4. QED
    BY <2>1, <2>2, <2>3 DEF TypeOK, used
<1>6. CASE FallBack(u)
  BY <1>0, <1>6 DEF TypeOK, FallBack, Leave, flags, record, ghosts, used, Late
<1>7. CASE Recover(u)
  <2>1. u \in Killers /\ Victims \ {u} \in SUBSET Turns
    BY Sets DEF TypeOK
  <2>2. kills' \in [Killers -> [on : BOOLEAN, of : SUBSET Turns]]
    BY <1>7, <2>1, OneKill DEF Recover
  <2>3. proc' \in [Turns -> Signs] /\ at' \in [Turns -> Places]
    BY <1>0, <1>7 DEF TypeOK, Recover
  <2>4. mark' \in [Turns -> Marks]
    <3>1. Stopped({}) \in [Turns -> Marks] /\ mark \in [Turns -> Marks]
      BY MarkTypes DEF TypeOK
    <3>2. mark' = mark \/ mark' = [Stopped({}) EXCEPT ![u] = mark[u]]
      BY <1>7 DEF Recover
    <3>3. QED
      BY <3>1, <3>2
  <2>5. QED
    BY <1>7, <2>2, <2>3, <2>4 DEF TypeOK, Recover, record, used
<1>8. CASE Fail(u)
  <2>1. u \in Killers /\ Victims \ {u} \in SUBSET Turns
    BY Sets DEF TypeOK
  <2>2. kills' \in [Killers -> [on : BOOLEAN, of : SUBSET Turns]]
    <3>1. kills' = [kills EXCEPT ![u] = [on |-> Victims \ {u} # {}, of |-> Victims \ {u}]]
      BY <1>8 DEF Fail
    <3>2. QED
      BY <2>1, <3>1, OneKill
  <2>3. proc' \in [Turns -> Signs]
    BY <1>0, <1>8 DEF TypeOK, Fail
  <2>4. Finish(u, "error") \/ (at' = [at EXCEPT ![u] = "failing"] /\ UNCHANGED <<answer, inflight>>)
    BY <1>8 DEF Fail, record
  <2>5. /\ at' \in [Turns -> Places] /\ answer' \in [Turns -> Answers]
        /\ inflight' \in Messages \cup {None}
    BY <1>0, <2>4, FinishType DEF TypeOK
  <2>6. mark' \in [Turns -> Marks]
    <3>1. Stopped({}) \in [Turns -> Marks] /\ mark \in [Turns -> Marks]
      BY MarkTypes DEF TypeOK
    <3>2. mark' = [Stopped({}) EXCEPT ![u] = mark[u]]
      BY <1>8 DEF Fail
    <3>3. QED
      BY <3>1, <3>2
  <2>7. QED
    BY <1>8, <2>2, <2>3, <2>5, <2>6 DEF TypeOK, Fail, used
<1>9. CASE Succeed(u)
  BY <1>0, <1>9 DEF TypeOK, Succeed, Leave, flags, record, ghosts, used, Late
<1>10. CASE Saved(u) \/ TimeoutSaved(u) \/ KilledTwice(u) \/ Raise(u)
  <2>1. \E a \in Answers : Finish(u, a)
    BY <1>0, <1>10 DEF Saved, TimeoutSaved, KilledTwice, Raise
  <2>2. /\ at' \in [Turns -> Places] /\ answer' \in [Turns -> Answers]
        /\ inflight' \in Messages \cup {None}
    BY <2>1, FinishType
  <2>3. UNCHANGED <<up, aborted, interrupted, calls, streaming, kills, mark, announced>>
    BY <1>10 DEF Saved, TimeoutSaved, KilledTwice, Raise, flags, ghosts, used, Late
  <2>4. registry' \subseteq Turns /\ proc' \in [Turns -> Signs]
    BY <1>0, <1>10 DEF TypeOK, Saved, TimeoutSaved, KilledTwice, Raise, Leave, process
  <2>5. events' \in Nat /\ sent' \subseteq Stops /\ crash' \in {"none", "once", "late"}
    BY <1>10 DEF used, TypeOK, Saved, TimeoutSaved, KilledTwice, Raise, ghosts, used, Late
  <2>6. QED
    BY <2>2, <2>3, <2>4, <2>5 DEF TypeOK
<1>11. CASE KillReturns(u)
  <2>1. kills' \in [Killers -> [on : BOOLEAN, of : SUBSET Turns]]
    BY <1>11, Sets DEF TypeOK, KillReturns
  <2>2. /\ at' \in [Turns -> Places] /\ answer' \in [Turns -> Answers]
        /\ inflight' \in Messages \cup {None} /\ aborted' \in BOOLEAN
    <3>1. CASE at[u] = "recovering"
      BY <1>0, <1>11, <3>1 DEF TypeOK, KillReturns, record
    <3>2. CASE at[u] # "recovering"
      <4>1. Finish(u, "error") /\ "error" \in Answers /\ aborted' = aborted
        BY <1>0, <1>11, <3>2 DEF KillReturns
      <4>2. QED
        BY <4>1, FinishType DEF TypeOK
    <3>3. QED
      BY <3>1, <3>2
  <2>3. mark' \in [Turns -> Marks]
    BY <1>11, MarkTypes DEF TypeOK, KillReturns
  <2>4. QED
    BY <1>11, <2>1, <2>2, <2>3 DEF TypeOK, KillReturns, process, used
<1>12. QED
  BY <1>1, <1>2, <1>3, <1>3a, <1>4, <1>5, <1>6, <1>7, <1>8, <1>9, <1>10, <1>11 DEF TurnStep

LEMMA TypeKept ==
    ASSUME TypeOK, [Next]_vars
    PROVE  TypeOK'
<1>0. {"none", "term", "killed"} \subseteq Signs /\ "lost" \in Places
  BY DEF Signs, Places
<1>1. CASE \E u \in Turns : Begin(u) \/ StreamBreaks(u) \/ TurnStep(u)
  BY <1>1, TurnType
<1>2. CASE \E k \in Killers : Grace(k)
  BY <1>0, <1>2 DEF TypeOK, Grace, flags, record, ghosts, used, Late
<1>3. ASSUME NEW s \in Stops, Stop(s)
      PROVE  TypeOK'
  <2>1. kills' \in [Killers -> [on : BOOLEAN, of : SUBSET Turns]]
    BY <1>3, Sets, OneKill DEF TypeOK, Stop, KillAll
  <2>2. proc' \in [Turns -> Signs]
    BY <1>0, <1>3 DEF TypeOK, Stop, KillAll
  <2>3. mark' \in [Turns -> Marks]
    BY <1>3, MarkTypes DEF Stop
  <2>4. events' \in Nat /\ sent' \subseteq Stops /\ crash' \in {"none", "once", "late"}
    BY <1>3 DEF used, TypeOK, Stop
  <2>5. QED
    BY <1>3, <2>1, <2>2, <2>3, <2>4 DEF TypeOK, Stop, KillAll, record
<1>4. CASE \E s \in Stops : StopReturns(s)
  BY <1>4, Sets DEF TypeOK, StopReturns, flags, process, record, ghosts, used, Late
<1>5. CASE Interrupt
  <2>1. mark' \in [Turns -> Marks]
    BY <1>5, MarkTypes DEF Interrupt
  <2>2. events' \in Nat /\ sent' \subseteq Stops /\ crash' \in {"none", "once", "late"}
    BY <1>5 DEF used, TypeOK, Interrupt
  <2>3. QED
    BY <1>5, <2>1, <2>2 DEF TypeOK, Interrupt, process, record
<1>6. CASE Command
  <2>1. mark' \in [Turns -> Marks]
    BY <1>6, MarkTypes DEF TypeOK, Command
  <2>2. events' \in Nat /\ sent' \subseteq Stops /\ crash' \in {"none", "once", "late"}
    BY <1>6 DEF used, TypeOK, Command
  <2>3. QED
    BY <1>6, <2>1, <2>2 DEF TypeOK, Command, process, record
<1>7. CASE Crash
  <2>1. events' \in Nat /\ sent' \subseteq Stops /\ crash' \in {"none", "once", "late"}
    BY <1>7 DEF used, TypeOK, Crash
  <2>2. QED
    BY <1>0, <1>7, <2>1, Sets DEF TypeOK, Crash, record
<1>8. CASE Restart
  <2>1. announced' \subseteq Messages /\ inflight' \in Messages \cup {None}
    BY <1>8 DEF TypeOK, Restart
  <2>2. events' \in Nat /\ sent' \subseteq Stops /\ crash' \in {"none", "once", "late"}
    BY <1>8 DEF used, TypeOK, Restart
  <2>3. QED
    BY <1>8, <2>1, <2>2 DEF TypeOK, Restart, flags, process
<1>9. CASE UNCHANGED vars
  BY <1>9 DEF TypeOK, vars
<1>10. QED
  BY <1>1, <1>2, <1>3, <1>4, <1>5, <1>6, <1>7, <1>8, <1>9 DEF Next

-----------------------------------------------------------------------------
(* What the steps of a turn do *)

Going == {"preparing", "launching", "running"}

\* What others under way see of a kill_all of u.
KillMark(u) == mark' = [Stopped({}) EXCEPT ![u] = mark[u]]

Begins(u) ==
    /\ up /\ at[u] = "idle" /\ at'[u] = "preparing"
    /\ aborted' = (aborted /\ u \notin Messages)
    /\ mark' = IF u \notin Messages THEN mark
               ELSE [Wiped(interrupted) EXCEPT ![u] = IF interrupted THEN "struck" ELSE @]
    /\ UNCHANGED <<interrupted, registry, calls, record>>
\* The CLI call is prepared, launched, under way or repeated.
Goes(u) ==
    /\ at[u] \in Going /\ at'[u] \in Going
    /\ registry' \subseteq registry \cup {u} /\ (at'[u] # "running" => u \notin registry')
    /\ UNCHANGED <<flags, mark>>
    /\ \/ UNCHANGED <<calls, record>>
       \/ /\ calls'[u] = calls[u] + 1
          /\ inflight' = IF u \in Messages /\ calls[u] = 0 THEN u ELSE inflight
          /\ unrecorded' = IF u \in Messages /\ calls[u] = 0
                           THEN unrecorded \cup ({inflight} \ {None}) ELSE unrecorded
\* The call has returned and nobody knows of it yet, or its recovery is over.
Settles(u) ==
    /\ \/ /\ at[u] = "running" /\ u \in Messages /\ ~Flagged
          /\ at'[u] \in {"failing", "recovering"} /\ KillMark(u)
       \/ /\ at[u] = "running" /\ (u \in Messages => ~Flagged)
          /\ at'[u] = "saving" /\ UNCHANGED <<aborted, mark>>
       \/ /\ at[u] = "running" /\ u \in Messages /\ ~Flagged
          /\ at'[u] = "preparing" /\ aborted' = FALSE /\ UNCHANGED mark
       \/ /\ at[u] = "recovering" /\ u \in Messages
          /\ at'[u] = "preparing" /\ aborted' = FALSE /\ mark' = Wiped(interrupted)
    /\ registry' \subseteq registry \ {u}
    /\ UNCHANGED <<interrupted, calls, record>>
\* The turn is over: silently, with an error, with an answer or by an exception.
Ends(u) ==
    /\ Busy(u) /\ at'[u] = "over"
    /\ inflight' = IF u \in Messages /\ calls[u] > 0 THEN None ELSE inflight
    /\ unrecorded' = IF u \in Messages /\ calls[u] > 0
                     THEN unrecorded \cup ({inflight} \ {None, u}) ELSE unrecorded
    /\ registry' \subseteq registry \ {u} /\ UNCHANGED calls
    /\ \/ /\ at[u] = "running" /\ u \in Messages /\ Flagged /\ answer'[u] = "none"
          /\ interrupted' = FALSE /\ UNCHANGED aborted /\ mark' = Wiped(aborted)
       \/ /\ at[u] = "running" /\ u \in Messages /\ ~Flagged /\ answer'[u] = "error"
          /\ UNCHANGED interrupted
          /\ KillMark(u) \/ UNCHANGED <<aborted, mark>>
       \/ at[u] = "failing" /\ answer'[u] = "error" /\ UNCHANGED <<flags, mark>>
       \/ at[u] = "saving" /\ answer'[u] = "text" /\ UNCHANGED <<flags, mark>>
       \/ answer'[u] = "internal" /\ UNCHANGED <<flags, mark>>

\* What the steps of a turn leave alone.
Frame(u) ==
    /\ UNCHANGED <<up, announced>> /\ Late' = Late
    /\ \A v \in Turns : v # u => at'[v] = at[v] /\ calls'[v] = calls[v] /\ answer'[v] = answer[v]
    /\ \A k \in Killers : Killing(k)' => Killing(k) \/ k = u
    /\ Killing(u)' => u \in Messages /\ at'[u] \in {"recovering", "failing"}

\* A turn that is in kill_all, or not in its CLI call, is not registered.
LEMMA NotKilling ==
    ASSUME Tables, NEW u \in Turns, Killing(u)
    PROVE  u \in Messages /\ at[u] \in {"recovering", "failing"} /\ u \notin registry
BY DEF Tables

LEMMA SilentEnds ==
    ASSUME TypeOK, Tables, NEW u \in Turns, at[u] = "running", u \in Messages, Flagged, EndSilently(u)
    PROVE  Frame(u) /\ Ends(u)
<1>1. u \in Killers /\ \A k \in Killers : Killing(k)' = Killing(k)
  BY Shorter, Sets DEF EndSilently
<1>2. ~Killing(u)'
  BY <1>1, NotKilling
<1>3. Frame(u)
  BY <1>1, <1>2 DEF TypeOK, Frame, used, Late, EndSilently, Finish
<1>4. Ends(u)
  BY DEF TypeOK, Ends, EndSilently, Finish, Busy
<1>5. QED
  BY <1>3, <1>4

LEMMA TurnKinds ==
    ASSUME TypeOK, Tables, NEW u \in Turns, Begin(u) \/ StreamBreaks(u) \/ TurnStep(u)
    PROVE  Frame(u) /\ (Begins(u) \/ Goes(u) \/ Settles(u) \/ Ends(u))
<1> DEFINE Goal == Frame(u) /\ (Begins(u) \/ Goes(u) \/ Settles(u) \/ Ends(u))
<1>0. u \in Killers /\ Victims \ {u} \in SUBSET Turns /\ (at[u] # "running" => u \notin registry)
  BY Sets DEF TypeOK, Tables
<1>1. ASSUME kills' = kills, at[u] \notin {"recovering", "failing"}
      PROVE  ~Killing(u)' /\ \A k \in Killers : Killing(k)' => Killing(k)
  BY <1>0, <1>1, NotKilling DEF Killing
<1>2. CASE Begin(u)
  BY <1>1, <1>2 DEF TypeOK, Begin, Begins, Frame, used, Late, process
<1>3. CASE StreamBreaks(u) \/ Ignore(u)
  <2>1. u \in Messages
    BY <1>3, Sets DEF TypeOK, StreamBreaks, Ignore
  <2>2. QED
    BY <1>3, <2>1, SilentEnds DEF StreamBreaks, Ignore, Returned, Flagged
<1>4. CASE Launch(u)
  <2>1. Frame(u)
    BY <1>1, <1>4 DEF TypeOK, Launch, Frame, process, flags, ghosts, used, Late
  <2>2. Goes(u)
    BY <1>0, <1>4 DEF TypeOK, Launch, Goes, Going, process, flags, ghosts, used, Late
  <2>3. QED
    BY <2>1, <2>2
<1>5. CASE Spawned(u) \/ StreamFails(u)
  <2>1. Frame(u)
    BY <1>1, <1>5 DEF TypeOK, Spawned, StreamFails, Frame, flags, ghosts, used, Late
  <2>2. Goes(u)
    BY <1>0, <1>5 DEF TypeOK, Spawned, StreamFails, Goes, Going, flags, ghosts, used, Late
  <2>3. QED
    BY <2>1, <2>2
<1>6. CASE ProcessExits(u)
  <2>1. ~Killing(u)' /\ \A k \in Killers : Killing(k)' => Killing(k)
    BY <1>0, <1>6, Shorter, NotKilling DEF ProcessExits
  <2>2. Frame(u)
    BY <1>6, <2>1 DEF TypeOK, ProcessExits, Frame, flags, ghosts, used, Late
  <2>3. Goes(u)
    BY <1>6 DEF TypeOK, ProcessExits, Goes, Going, ghosts, used, Late
  <2>4. QED
    BY <2>2, <2>3
<1>7. CASE FallBack(u)
  <2>1. Frame(u)
    BY <1>1, <1>7 DEF TypeOK, FallBack, Returned, Frame, ghosts, used, Late
  <2>2. Goes(u)
    BY <1>7 DEF TypeOK, FallBack, Returned, Leave, Goes, Going, ghosts, used, Late
  <2>3. QED
    BY <2>1, <2>2
<1>8. CASE Recover(u)
  <2>1. /\ at[u] = "running" /\ u \in Messages /\ ~Flagged
        /\ registry' = {} /\ aborted' = (Victims \ {u} # {})
        /\ at' = [at EXCEPT ![u] = IF Victims \ {u} = {} THEN "preparing" ELSE "recovering"]
        /\ kills' = [kills EXCEPT ![u] = [on |-> Victims \ {u} # {}, of |-> Victims \ {u}]]
        /\ UNCHANGED <<up, interrupted, calls, record, answer, announced, used>>
        /\ mark' = IF Victims \ {u} = {} THEN mark ELSE [Stopped({}) EXCEPT ![u] = mark[u]]
    BY <1>8 DEF Recover, Returned
  <2>2. \A k \in Killers : Killing(k)' = IF k = u THEN Victims \ {u} # {} ELSE Killing(k)
    BY <1>0, <2>1, OneKill
  <2>3. Frame(u)
    BY <1>0, <2>1, <2>2 DEF TypeOK, Frame, used, Late
  <2>4. Settles(u)
    BY <2>1 DEF TypeOK, Settles, KillMark
  <2>5. QED
    BY <2>3, <2>4
<1>9. CASE Fail(u)
  <2>1. /\ at[u] = "running" /\ u \in Messages /\ ~Flagged /\ registry' = {}
        /\ kills' = [kills EXCEPT ![u] = [on |-> Victims \ {u} # {}, of |-> Victims \ {u}]]
        /\ UNCHANGED <<up, interrupted, calls, announced, used>> /\ KillMark(u)
        /\ \/ Victims \ {u} = {} /\ Finish(u, "error")
           \/ at' = [at EXCEPT ![u] = "failing"] /\ UNCHANGED <<answer, record>>
    BY <1>9 DEF Fail, Returned, KillMark
  <2>2. \A k \in Killers : Killing(k)' = IF k = u THEN Victims \ {u} # {} ELSE Killing(k)
    BY <1>0, <2>1, OneKill
  <2>3. Frame(u)
    BY <1>0, <2>1, <2>2 DEF TypeOK, Frame, used, Late, Finish
  <2>4. CASE Finish(u, "error")
    <3>1. Ends(u)
      BY <2>1, <2>4 DEF TypeOK, Ends, Finish, Busy
    <3>2. QED
      BY <2>3, <3>1
  <2>5. CASE at' = [at EXCEPT ![u] = "failing"] /\ UNCHANGED <<answer, record>>
    <3>1. Settles(u)
      BY <2>1, <2>5 DEF TypeOK, Settles
    <3>2. QED
      BY <2>3, <3>1
  <2>6. QED
    BY <2>1, <2>4, <2>5
<1>9a. CASE KilledTwice(u)
  <2>1. Frame(u)
    BY <1>1, <1>9a DEF TypeOK, KilledTwice, Returned, Finish, Frame, ghosts, used, Late
  <2>2. Ends(u)
    BY <1>9a DEF TypeOK, KilledTwice, Returned, Finish, Leave, Ends, Busy, flags, ghosts, used, Late
  <2>3. QED
    BY <2>1, <2>2
<1>9b. CASE Raise(u)
  <2>1. Busy(u) /\ ~Killing(u) /\ kills' = kills
    BY <1>0, <1>9b, NotKilling DEF Raise, Returned, Busy
  <2>2. Frame(u)
    BY <1>0, <1>9b, <2>1 DEF TypeOK, Raise, Finish, Frame, used, Late, Killing
  <2>3. Ends(u)
    BY <1>9b, <2>1 DEF TypeOK, Raise, Finish, Leave, Ends, flags
  <2>4. QED
    BY <2>2, <2>3
<1>10. CASE Succeed(u)
  <2>1. Frame(u)
    BY <1>1, <1>10 DEF TypeOK, Succeed, Returned, Frame, ghosts, used, Late
  <2>2. Settles(u)
    BY <1>10, ChatTurnAssumption DEF TypeOK, Succeed, Returned, Leave, Settles, flags, ghosts, used, Late
  <2>3. QED
    BY <2>1, <2>2
<1>11. CASE Saved(u)
  <2>1. Frame(u)
    BY <1>1, <1>11 DEF TypeOK, Saved, Finish, Frame, ghosts, used, Late
  <2>2. Ends(u)
    BY <1>0, <1>11 DEF TypeOK, Saved, Finish, Ends, process, Busy, ghosts, used, Late
  <2>3. QED
    BY <2>1, <2>2
<1>12. CASE KillReturns(u)
  <2>1. Killing(u) /\ u \in Messages /\ at[u] \in {"recovering", "failing"} /\ u \notin registry
    BY <1>12, NotKilling DEF KillReturns
  <2>2. kills' = [kills EXCEPT ![u] = [on |-> FALSE, of |-> {}]]
    BY <1>12 DEF KillReturns, Quiet
  <2>3. ~Killing(u)' /\ \A k \in Killers : k # u => Killing(k)' = Killing(k)
    BY <1>0, <2>2 DEF TypeOK, Killing
  <2>4. Frame(u)
    BY <1>0, <1>12, <2>3 DEF TypeOK, KillReturns, Finish, Frame, used, Late
  <2>5. CASE at[u] = "recovering"
    <3>1. Settles(u)
      BY <1>12, <2>1, <2>5 DEF TypeOK, KillReturns, Settles, process
    <3>2. QED
      BY <2>4, <3>1
  <2>6. CASE at[u] = "failing"
    <3>1. Ends(u)
      BY <1>12, <2>1, <2>6 DEF TypeOK, KillReturns, Finish, Ends, process, Busy, flags
    <3>2. QED
      BY <2>4, <3>1
  <2>7. QED
    BY <2>1, <2>5, <2>6
<1>13. CASE TimeoutSaved(u)
  <2>1. ~Killing(u) /\ kills' = kills
    BY <1>13 DEF TimeoutSaved
  <2>2. Frame(u)
    BY <1>0, <1>13, <2>1 DEF TypeOK, TimeoutSaved, Finish, Frame, Killing, ghosts, used, Late
  <2>3. Ends(u)
    BY <1>0, <1>13 DEF TypeOK, Tables, TimeoutSaved, Finish, Ends, process, flags, ghosts, used, Late, Busy
  <2>4. QED
    BY <2>2, <2>3
<1>14. QED
  BY <1>2, <1>3, <1>4, <1>5, <1>6, <1>7, <1>8, <1>9, <1>9a, <1>9b, <1>10, <1>11, <1>12, <1>13 DEF TurnStep

\* Steps besides the turns, the crash and the start.
Outside ==
    \/ \E k \in Killers : Grace(k)
    \/ \E s \in Stops : Stop(s) \/ StopReturns(s)
    \/ Interrupt \/ Command \/ UNCHANGED vars

LEMMA OutsideSteps ==
    ASSUME TypeOK, Down, Outside
    PROVE  /\ UNCHANGED <<up, at, calls, record, answer, announced>> /\ Late' = Late
           /\ registry' \subseteq registry
           /\ \A u \in Turns : Killing(u)' => Killing(u)
           /\ ~up => \A k \in Killers : Killing(k)' => Killing(k)
<1> DEFINE Goal ==
           /\ UNCHANGED <<up, at, calls, record, answer, announced>> /\ Late' = Late
           /\ registry' \subseteq registry
           /\ \A u \in Turns : Killing(u)' => Killing(u)
           /\ ~up => \A k \in Killers : Killing(k)' => Killing(k)
<1>0. Turns \subseteq Killers /\ \A s \in Stops : s \in Killers /\ s \notin Turns
  BY Sets
<1>1. ASSUME NEW s \in Stops, Stop(s)
      PROVE  Goal
  <2>1. /\ up /\ kills' = [kills EXCEPT ![s] = [on |-> Victims # {}, of |-> Victims]]
        /\ Victims \in SUBSET Turns /\ registry' = {}
        /\ UNCHANGED <<up, at, calls, record, answer, announced>> /\ Late' = Late
    BY <1>1, Sets DEF Stop, KillAll, TypeOK, used, Late
  <2>2. \A u \in Turns : Killing(u)' => Killing(u)
    BY <1>0, <2>1, OneKill
  <2>3. QED
    BY <2>1, <2>2
<1>2. ASSUME NEW s \in Stops, StopReturns(s)
      PROVE  Goal
  <2>1. up /\ UNCHANGED <<up, at, calls, record, answer, announced, used, registry>>
    BY <1>0, <1>2 DEF StopReturns, Down, flags, process, ghosts, used, Late
  <2>2. \A u \in Turns : Killing(u)' => Killing(u)
    BY <1>0, <1>2 DEF StopReturns, Killing, Quiet, TypeOK
  <2>3. QED
    BY <2>1, <2>2 DEF Late, used
<1>3. CASE (\E k \in Killers : Grace(k)) \/ Interrupt \/ Command \/ UNCHANGED vars
  BY <1>0, <1>3 DEF TypeOK, Grace, Interrupt, Command, Killing, vars, flags, process, ghosts, used, Late, record
<1>4. QED
  BY <1>1, <1>2, <1>3 DEF Outside

LEMMA StepKinds ==
    ASSUME TypeOK, Tables, [Next]_vars
    PROVE  \/ \E u \in Turns : Frame(u) /\ (Begins(u) \/ Goes(u) \/ Settles(u) \/ Ends(u))
           \/ Outside \/ Crash \/ Restart
BY TurnKinds DEF Next, Outside

\* After a crash nothing is under way.
LEMMA Crashed ==
    ASSUME TypeOK, Crash
    PROVE  /\ up /\ ~up' /\ ~interrupted' /\ registry' = {}
           /\ UNCHANGED <<calls, record, answer, mark, announced>> /\ Late' = Late
           /\ \A u \in Turns : /\ ~Busy(u)'
                               /\ at'[u] = IF Busy(u) THEN "lost" ELSE at[u]
           /\ \A k \in Killers : ~Killing(k)'
BY Sets DEF TypeOK, Crash, Busy, Killing, Quiet, used, Late

LEMMA TablesKept ==
    ASSUME TypeOK, TypeOK', Tables, Down, [Next]_vars
    PROVE  Tables' /\ Down'
<1>0. Turns \subseteq Killers /\ Messages \subseteq Turns /\ registry \subseteq Turns
  BY Sets DEF TypeOK
<1>1. ASSUME NEW u \in Turns, Frame(u), Begins(u) \/ Goes(u) \/ Settles(u) \/ Ends(u)
      PROVE  Tables' /\ Down'
  <2>1. up /\ up'
    BY <1>1 DEF Frame, used, Late, Begins, Goes, Going, Settles, Ends, Down, Busy
  <2>2. \A v \in registry' : at'[v] = "running"
    <3>1. \A v \in registry' : v \in Turns
      BY DEF TypeOK
    <3>2. \A v \in registry' : v # u => v \in registry
      BY <1>1 DEF Begins, Goes, Settles, Ends
    <3>3. u \in registry' => at'[u] = "running"
      BY <1>1 DEF Begins, Goes, Settles, Ends, Tables
    <3>4. QED
      BY <1>1, <3>1, <3>2, <3>3 DEF Frame, used, Late, Tables
  <2>3. \A v \in Turns : /\ Killing(v)' => at'[v] \in {"recovering", "failing"}
                         /\ at'[v] \in {"recovering", "failing"} => v \in Messages
    <3>1. ASSUME NEW v \in Turns, v # u
          PROVE  /\ Killing(v)' => at'[v] \in {"recovering", "failing"}
                 /\ at'[v] \in {"recovering", "failing"} => v \in Messages
      BY <1>0, <1>1, <3>1 DEF Frame, used, Late, Tables
    <3>2. at'[u] \in {"recovering", "failing"} => u \in Messages
      BY <1>1 DEF Begins, Goes, Going, Settles, Ends
    <3>3. QED
      BY <1>1, <3>1, <3>2 DEF Frame, used, Late
  <2>4. QED
    BY <2>1, <2>2, <2>3 DEF Tables, Down
<1>2. CASE Outside
  <2>1. /\ UNCHANGED <<up, at>> /\ registry' \subseteq registry
        /\ \A u \in Turns : Killing(u)' => Killing(u)
        /\ ~up => \A k \in Killers : Killing(k)' => Killing(k)
    BY <1>2, OutsideSteps
  <2>2. QED
    BY <2>1 DEF Tables, Down, Busy
<1>3. CASE Crash
  <2>1. \A u \in Turns : at[u] \in {"recovering", "failing"} => Busy(u)
    BY DEF Busy
  <2>2. \A u \in Turns : at'[u] \notin {"recovering", "failing"}
    BY <1>3, <2>1, Crashed
  <2>3. QED
    BY <1>0, <1>3, <2>2, Crashed DEF Tables, Down
<1>4. CASE Restart
  BY <1>4 DEF Restart, Tables, Down, Killing, process
<1>5. QED
  BY <1>1, <1>2, <1>3, <1>4, StepKinds

\* A turn's step takes the in-flight record, gives it back or leaves it, and only an
\* injected prompt's step leaves all messages as they were.
LEMMA RecordKeptByTurns ==
    ASSUME TypeOK, Down, Record, NEW u \in Turns, Frame(u),
           Begins(u) \/ Goes(u) \/ Settles(u) \/ Ends(u)
    PROVE  Record'
<1>0. /\ Messages \subseteq Turns /\ None \notin Messages /\ announced \subseteq Messages
      /\ inflight \in Messages \cup {None} /\ \A v \in Turns : calls[v] \in Nat
  BY Sets DEF TypeOK
<1>1. /\ up /\ up' /\ announced' = announced /\ Late' = Late
      /\ \A v \in Messages : v # u => at'[v] = at[v] /\ calls'[v] = calls[v]
  <2>1. up
    BY DEF Begins, Goes, Going, Settles, Ends, Down, Busy
  <2>2. QED
    BY <1>0, <2>1 DEF Frame, used, Late
<1>2. CASE u \notin Messages
  <2>1. UNCHANGED record
    BY <1>2 DEF Begins, Goes, Settles, Ends, record
  <2>2. QED
    BY <1>0, <1>1, <1>2, <2>1 DEF Record, Busy, record
<1>3. CASE u \in Messages
  <2>1. CASE Begins(u)
    <3>1. calls[u] = 0 /\ calls' = calls /\ UNCHANGED record
      BY <1>3, <2>1 DEF Begins, Record
    <3>2. inflight # u
      BY <1>0, <1>3, <3>1 DEF Record
    <3>3. QED
      BY <1>0, <1>1, <2>1, <3>1, <3>2 DEF Record, Begins, Busy, record
  <2>2. CASE Goes(u)
    <3>1. Busy(u) /\ Busy(u)' /\ at'[u] # "lost" /\ at'[u] # "idle"
      BY <2>2 DEF Goes, Going, Busy
    <3>2. CASE UNCHANGED <<calls, record>>
      BY <1>0, <1>1, <3>1, <3>2 DEF Record, Busy, record
    <3>3. CASE calls'[u] = calls[u] + 1 /\ calls[u] # 0 /\ UNCHANGED record
      <4>1. calls'[u] > 0 /\ calls[u] > 0
        BY <1>0, <3>3
      <4>2. QED
        BY <1>0, <1>1, <3>1, <3>3, <4>1 DEF Record, Busy, record
    <3>4. CASE /\ calls'[u] = calls[u] + 1 /\ calls[u] = 0 /\ inflight' = u
               /\ unrecorded' = unrecorded \cup ({inflight} \ {None})
      <4>1. calls'[u] > 0
        BY <3>4
      <4>2. \A v \in Messages : Busy(v)' /\ calls'[v] > 0 => inflight' = v \/ v \in unrecorded'
        BY <1>0, <1>1, <3>4 DEF Record, Busy
      <4>3. \A v \in Messages : at'[v] = "lost" /\ calls'[v] > 0 =>
                v \in announced' \cup unrecorded' \/ Late' \/ ~Private
        BY <1>0, <1>1, <3>1, <3>4 DEF Record
      <4>4. QED
        BY <1>0, <1>1, <3>1, <3>4, <4>1, <4>2, <4>3 DEF Record, Busy
    <3>5. QED
      BY <1>0, <1>3, <2>2, <3>2, <3>3, <3>4 DEF Goes, record
  <2>3. CASE Settles(u)
    <3>1. /\ Busy(u) /\ Busy(u)' /\ calls'[u] = calls[u] /\ UNCHANGED record /\ at'[u] # "lost"
          /\ at'[u] # "idle" /\ at[u] # "lost"
      BY <2>3 DEF Settles, Busy
    <3>2. QED
      BY <1>0, <1>1, <3>1 DEF Record, Busy, record
  <2>4. CASE Ends(u)
    <3>1. calls' = calls /\ at'[u] = "over" /\ Busy(u) /\ ~Busy(u)' /\ at[u] # "lost"
      BY <2>4 DEF Ends, Busy
    <3>2. CASE calls[u] > 0
      <4>1. inflight' = None /\ unrecorded' = unrecorded \cup ({inflight} \ {None, u})
        BY <1>3, <2>4, <3>2 DEF Ends
      <4>2. \A v \in Messages : Busy(v)' /\ calls'[v] > 0 => v \in unrecorded'
        BY <1>0, <1>1, <3>1, <4>1 DEF Record, Busy
      <4>3. QED
        BY <1>0, <1>1, <3>1, <4>1, <4>2 DEF Record, Busy
    <3>3. CASE ~(calls[u] > 0)
      <4>1. UNCHANGED record /\ inflight # u
        BY <1>0, <1>3, <2>4, <3>3 DEF Ends, Record, record
      <4>2. QED
        BY <1>0, <1>1, <3>1, <3>3, <4>1 DEF Record, Busy, record
    <3>4. QED
      BY <3>2, <3>3
  <2>5. QED
    BY <2>1, <2>2, <2>3, <2>4
<1>4. QED
  BY <1>2, <1>3

LEMMA RecordKept ==
    ASSUME TypeOK, Tables, Down, Record, [Next]_vars
    PROVE  Record'
<1>0. /\ Messages \subseteq Turns /\ None \notin Messages /\ announced \subseteq Messages
      /\ inflight \in Messages \cup {None} /\ \A u \in Turns : calls[u] \in Nat
  BY Sets DEF TypeOK
<1>1. CASE Outside
  <2>1. UNCHANGED <<up, at, calls, record, announced>> /\ Late' = Late
    BY <1>1, OutsideSteps
  <2>2. QED
    BY <2>1 DEF Record, Busy, record
<1>2. CASE Crash
  <2>1. ASSUME NEW u \in Messages
        PROVE  /\ at'[u] = "idle" => at[u] = "idle"
               /\ at'[u] = "lost" => Busy(u) \/ at[u] = "lost"
               /\ Busy(u) => at'[u] = "lost"
               /\ at[u] = "lost" => at'[u] = "lost"
               /\ ~Busy(u)'
    BY <1>0, <1>2, Crashed DEF Busy
  <2>2. UNCHANGED <<calls, record, announced>> /\ Late' = Late /\ up /\ ~up'
    BY <1>2, Crashed
  <2>3. at[inflight] # "lost" \/ inflight = None
    BY <1>0, <2>2 DEF Record, Busy
  <2>4. ASSUME NEW u \in Messages, at'[u] = "lost", calls'[u] > 0
        PROVE  u \in announced' \cup unrecorded' \/ inflight' = u \/ Late' \/ ~Private
    <3>1. CASE Busy(u)
      BY <2>2, <2>4, <3>1 DEF Record, record
    <3>2. CASE ~Busy(u)
      BY <2>1, <2>2, <2>4, <3>2 DEF Record, record
    <3>3. QED
      BY <3>1, <3>2
  <2>5. QED
    BY <1>0, <2>1, <2>2, <2>3, <2>4 DEF Record, record
<1>3. CASE Restart
  <2>1. PICK late \in BOOLEAN :
            /\ crash' = IF late THEN "late" ELSE crash
            /\ announced' = announced \cup (IF Private /\ ~late THEN {inflight} \ {None} ELSE {})
    BY <1>3 DEF Restart
  <2>2. ~up /\ up' /\ UNCHANGED <<at, calls, unrecorded>> /\ inflight' = None
        /\ Late' = (late \/ Late)
    BY <1>3, <2>1 DEF Restart, TypeOK, Late
  <2>3. \A u \in Messages : ~Busy(u)
    BY <1>0, <2>2 DEF Down
  <2>4. ASSUME NEW u \in Messages, at'[u] = "lost", calls'[u] > 0
        PROVE  u \in announced' \cup unrecorded' \/ Late' \/ ~Private
    BY <1>0, <2>1, <2>2, <2>4 DEF Record
  <2>5. \A u \in announced' : at'[u] = "lost"
    BY <1>0, <2>1, <2>2 DEF Record
  <2>6. QED
    BY <1>0, <2>2, <2>3, <2>4, <2>5 DEF Record, Busy
<1>4. QED
  BY <1>1, <1>2, <1>3, RecordKeptByTurns, StepKinds

-----------------------------------------------------------------------------
(* The flags *)

\* The conditions of Flags, for one message.
Fits(u) ==
    /\ Unjudged(u) /\ mark[u] = "stopped" => Flagged
    /\ Unjudged(u) /\ interrupted => mark[u] # "none"
    /\ at[u] \in Going /\ aborted => mark[u] # "none"
    /\ at[u] \in {"idle", "failing", "saving"} => mark[u] # "stopped"
    /\ at[u] = "over" => /\ mark[u] = "stopped" => answer[u] \in {"none", "internal"}
                         /\ answer[u] = "none" => mark[u] # "none"

LEMMA FlagsByOne == /\ Flags <=> \A u \in Messages : Fits(u)
                    /\ Flags' <=> \A u \in Messages : Fits(u)'
BY DEF Flags, Fits, Going

\* A message that only watches fits on, whatever happens to the flags, if its mark tells.
LEMMA Watching ==
    ASSUME TypeOK, NEW v \in Messages, Fits(v), at'[v] = at[v], answer'[v] = answer[v],
           \/ UNCHANGED <<flags, mark>>
           \/ mark'[v] = Stopped({})[v] /\ UNCHANGED interrupted /\ (aborted => aborted')
           \/ mark'[v] = mark[v] /\ ~Flagged /\ ~aborted' /\ ~interrupted'
           \/ mark'[v] = mark[v] /\ v \notin Waiting
           \/ mark'[v] = Wiped(interrupted)[v] /\ ~aborted' /\ UNCHANGED interrupted
           \/ mark'[v] = Wiped(aborted)[v] /\ ~interrupted' /\ UNCHANGED aborted
    PROVE  Fits(v)'
<1>0. v \in Turns /\ interrupted \in BOOLEAN /\ aborted \in BOOLEAN /\ mark[v] \in Marks
  BY Sets DEF TypeOK
<1>1. CASE UNCHANGED <<flags, mark>>
  BY <1>1 DEF Fits, Unjudged, Flagged, flags
<1>2. CASE mark'[v] = Stopped({})[v] /\ UNCHANGED interrupted /\ (aborted => aborted')
  <2>1. mark'[v] = IF v \in Waiting /\ mark[v] = "none" THEN "struck" ELSE mark[v]
    BY <1>0, <1>2, StoppedOne
  <2>2. QED
    BY <1>2, <2>1 DEF Fits, Unjudged, Flagged, Waiting, Going
<1>3. CASE mark'[v] = mark[v] /\ ~Flagged /\ ~aborted' /\ ~interrupted'
  BY <1>3 DEF Fits, Unjudged, Flagged
<1>4. CASE mark'[v] = mark[v] /\ v \notin Waiting
  BY <1>4 DEF Fits, Unjudged, Waiting, Going
<1>5. CASE mark'[v] = Wiped(interrupted)[v] /\ ~aborted' /\ UNCHANGED interrupted
  <2>1. mark'[v] = IF ~interrupted /\ v \in Waiting /\ mark[v] = "stopped" THEN "cleared" ELSE mark[v]
    BY <1>0, <1>5, WipedOne
  <2>2. QED
    BY <1>5, <2>1 DEF Fits, Unjudged, Flagged, Waiting, Going
<1>6. CASE mark'[v] = Wiped(aborted)[v] /\ ~interrupted' /\ UNCHANGED aborted
  <2>1. mark'[v] = IF ~aborted /\ v \in Waiting /\ mark[v] = "stopped" THEN "cleared" ELSE mark[v]
    BY <1>0, <1>6, WipedOne
  <2>2. QED
    BY <1>6, <2>1 DEF Fits, Unjudged, Flagged, Waiting, Going
<1>7. QED
  BY <1>1, <1>2, <1>3, <1>4, <1>5, <1>6

LEMMA FlagsKeptByTurns ==
    ASSUME TypeOK, Flags, NEW u \in Turns, Frame(u),
           Begins(u) \/ Goes(u) \/ Settles(u) \/ Ends(u)
    PROVE  Flags'
<1> SUFFICES ASSUME NEW v \in Messages
             PROVE  Fits(v)'
  BY FlagsByOne
<1>0. /\ v \in Turns /\ Fits(v) /\ mark \in [Turns -> Marks]
      /\ interrupted \in BOOLEAN /\ aborted \in BOOLEAN
  BY FlagsByOne, Sets DEF TypeOK
<1>1. CASE v # u
  <2>1. at'[v] = at[v] /\ answer'[v] = answer[v]
    BY <1>0, <1>1 DEF Frame, used, Late
  <2>2. KillMark(u) => mark'[v] = Stopped({})[v]
    BY <1>0, <1>1, MarkTypes DEF KillMark
  <2>3. CASE Begins(u)
    <3>1. CASE u \notin Messages
      BY <1>0, <2>1, <2>3, <3>1, Watching DEF Begins, flags
    <3>2. CASE u \in Messages
      <4>1. mark'[v] = Wiped(interrupted)[v]
        BY <1>0, <1>1, <2>3, <3>2, MarkTypes DEF Begins
      <4>2. QED
        BY <1>0, <2>1, <2>3, <3>2, <4>1, Watching DEF Begins
    <3>3. QED
      BY <3>1, <3>2
  <2>4. CASE Goes(u)
    BY <1>0, <2>1, <2>4, Watching DEF Goes
  <2>5. CASE Settles(u)
    <3>1. CASE KillMark(u) /\ ~Flagged
      BY <1>0, <2>1, <2>2, <2>5, <3>1, Watching DEF Settles, Flagged
    <3>2. CASE UNCHANGED <<aborted, mark>>
      BY <1>0, <2>1, <2>5, <3>2, Watching DEF Settles, flags
    <3>3. CASE ~Flagged /\ aborted' = FALSE /\ UNCHANGED mark
      BY <1>0, <2>1, <2>5, <3>3, Watching DEF Settles, Flagged
    <3>4. CASE aborted' = FALSE /\ mark' = Wiped(interrupted)
      BY <1>0, <2>1, <2>5, <3>4, Watching DEF Settles
    <3>5. QED
      BY <2>5, <3>1, <3>2, <3>3, <3>4 DEF Settles
  <2>6. CASE Ends(u)
    <3>1. CASE interrupted' = FALSE /\ UNCHANGED aborted /\ mark' = Wiped(aborted)
      BY <1>0, <2>1, <3>1, Watching
    <3>2. CASE ~Flagged /\ UNCHANGED interrupted /\ KillMark(u)
      BY <1>0, <2>1, <2>2, <3>2, Watching DEF Flagged
    <3>3. CASE UNCHANGED <<flags, mark>>
      BY <1>0, <2>1, <3>3, Watching
    <3>4. QED
      BY <2>6, <3>1, <3>2, <3>3 DEF Ends, flags
  <2>7. QED
    BY <2>3, <2>4, <2>5, <2>6
<1>2. CASE v = u
  <2>1. KillMark(u) => mark'[u] = mark[u]
    BY <1>0, <1>2, MarkTypes DEF KillMark
  <2>2. CASE Begins(u)
    <3>1. u \notin Waiting /\ mark[u] # "stopped"
      BY <1>0, <1>2, <2>2 DEF Begins, Fits, Waiting, Unjudged
    <3>2. Wiped(interrupted) \in [Turns -> Marks] /\ Wiped(interrupted)[u] = mark[u]
      BY <1>0, <1>2, <3>1, MarkTypes, WipedOne
    <3>3. mark'[u] = IF interrupted THEN "struck" ELSE mark[u]
      BY <1>2, <2>2, <3>2 DEF Begins
    <3>4. ~aborted' /\ interrupted' = interrupted /\ at'[u] = "preparing"
      BY <1>2, <2>2 DEF Begins
    <3>5. QED
      BY <1>0, <1>2, <3>1, <3>3, <3>4 DEF Fits, Unjudged, Flagged, Going
  <2>3. CASE Goes(u)
    <3>1. at[u] \in Going /\ at'[u] \in Going /\ UNCHANGED <<aborted, interrupted, mark>>
      BY <2>3 DEF Goes, flags
    <3>2. QED
      BY <1>0, <1>2, <3>1 DEF Fits, Unjudged, Flagged, Going
  <2>4. CASE Settles(u)
    <3>1. CASE at[u] = "running" /\ ~Flagged
      <4>1. /\ mark[u] # "stopped" /\ mark'[u] = mark[u] /\ ~interrupted'
            /\ at'[u] \in {"failing", "recovering", "saving", "preparing"}
            /\ at'[u] = "preparing" => ~aborted'
        BY <1>0, <1>2, <2>1, <2>4, <3>1 DEF Settles, Fits, Unjudged, Flagged
      <4>2. QED
        BY <1>2, <4>1 DEF Fits, Unjudged, Going
    <3>2. CASE at[u] = "recovering"
      <4>1. /\ at'[u] = "preparing" /\ ~aborted' /\ interrupted' = interrupted
            /\ mark' = Wiped(interrupted)
        BY <2>4, <3>2 DEF Settles
      <4>2. mark'[u] = IF ~interrupted /\ u \in Waiting /\ mark[u] = "stopped" THEN "cleared"
                       ELSE mark[u]
        BY <1>0, <1>2, <4>1, WipedOne
      <4>3. u \in Waiting
        BY <1>2, <3>2 DEF Waiting, Unjudged
      <4>4. QED
        BY <1>0, <1>2, <3>2, <4>1, <4>2, <4>3 DEF Fits, Unjudged, Flagged, Going
    <3>3. QED
      BY <1>2, <2>4, <3>1, <3>2 DEF Settles
  <2>5. CASE Ends(u)
    <3>1. CASE at[u] = "running" /\ Flagged /\ answer'[u] = "none" /\ mark' = Wiped(aborted)
      <4>1. mark[u] # "none"
        BY <1>0, <1>2, <3>1 DEF Fits, Flagged, Unjudged, Going
      <4>2. mark'[u] # "none"
        BY <1>0, <1>2, <3>1, <4>1, WipedOne
      <4>3. QED
        BY <1>2, <2>5, <3>1, <4>2 DEF Ends, Fits, Unjudged, Going
    <3>2. CASE at[u] = "running" /\ ~Flagged /\ answer'[u] = "error" /\ mark'[u] = mark[u]
      BY <1>0, <1>2, <2>5, <3>2 DEF Ends, Fits, Unjudged, Going
    <3>3. CASE at[u] \in {"failing", "saving"} /\ answer'[u] \in {"error", "text"} /\ UNCHANGED mark
      BY <1>0, <1>2, <2>5, <3>3 DEF Ends, Fits, Unjudged, Going
    <3>4. CASE answer'[u] = "internal"
      BY <1>0, <1>2, <2>5, <3>4 DEF Ends, Fits, Unjudged, Going
    <3>5. QED
      BY <2>1, <2>5, <3>1, <3>2, <3>3, <3>4 DEF Ends
  <2>6. QED
    BY <2>2, <2>3, <2>4, <2>5
<1>3. QED
  BY <1>1, <1>2

LEMMA FlagsStay ==
    ASSUME TypeOK, Tables, Flags, [Next]_vars
    PROVE  Flags'
<1>0. /\ Messages \subseteq Turns /\ registry \subseteq Turns
      /\ interrupted \in BOOLEAN /\ aborted \in BOOLEAN /\ mark \in [Turns -> Marks]
      /\ \A v \in Messages : Fits(v)
  BY FlagsByOne, Sets DEF TypeOK
<1>1. CASE \E s \in Stops : Stop(s)
  <2>1. aborted' = TRUE /\ mark' = Stopped(Waiting) /\ UNCHANGED <<interrupted, at, answer>>
    BY <1>1 DEF Stop, KillAll
  <2>2. ASSUME NEW v \in Messages
        PROVE  Fits(v)'
    <3>1. mark'[v] = IF v \in Waiting THEN "stopped" ELSE mark[v]
      BY <1>0, <2>1, StoppedOne
    <3>2. QED
      BY <1>0, <2>1, <3>1 DEF Fits, Flagged, Unjudged, Waiting, Going
  <2>3. QED
    BY <2>2, FlagsByOne
<1>2. CASE Interrupt
  <2>1. /\ interrupted' = TRUE /\ mark' = Stopped(registry \cap Messages)
        /\ UNCHANGED <<aborted, at, answer>>
    BY <1>2 DEF Interrupt
  <2>2. ASSUME NEW v \in Messages
        PROVE  Fits(v)'
    <3>1. mark'[v] = IF v \in registry THEN "stopped"
                     ELSE IF v \in Waiting /\ mark[v] = "none" THEN "struck" ELSE mark[v]
      BY <1>0, <2>1, StoppedOne
    <3>2. v \in registry => at[v] = "running"
      BY DEF Tables
    <3>3. QED
      BY <1>0, <2>1, <3>1, <3>2 DEF Fits, Flagged, Unjudged, Waiting, Going
  <2>3. QED
    BY <2>2, FlagsByOne
<1>3. CASE Command
  <2>1. /\ aborted' = FALSE /\ UNCHANGED <<interrupted, at, answer>>
        /\ mark' = Wiped(interrupted)
    BY <1>3 DEF Command
  <2>2. \A v \in Messages : Fits(v)'
    BY <1>0, <2>1, Watching
  <2>3. QED
    BY <2>2, FlagsByOne
<1>4. CASE Crash
  <2>1. \A u \in Messages : at'[u] \in {"idle", "over", "lost"} /\ (at'[u] # "lost" => at'[u] = at[u])
    BY <1>0, <1>4, Crashed DEF Busy
  <2>2. UNCHANGED <<answer, mark>>
    BY <1>4, Crashed
  <2>3. QED
    BY <1>0, <2>1, <2>2, FlagsByOne DEF Fits, Unjudged, Going
<1>5. CASE UNCHANGED <<aborted, interrupted, at, answer, mark>>
  BY <1>5 DEF Flags, Flagged, Unjudged
<1>6. CASE (\E k \in Killers : Grace(k)) \/ (\E s \in Stops : StopReturns(s)) \/ Restart \/ UNCHANGED vars
  BY <1>5, <1>6 DEF Grace, StopReturns, Restart, vars, flags, ghosts, used, Late
<1>7. QED
  BY <1>1, <1>2, <1>3, <1>4, <1>6, FlagsKeptByTurns, StepKinds DEF Outside

-----------------------------------------------------------------------------
(* The theorems *)

LEMMA InitHolds == Init => Inv
<1> SUFFICES ASSUME Init
             PROVE  Inv
  OBVIOUS
<1>0. Messages \subseteq Turns /\ \A u \in Messages : at[u] = "idle" /\ calls[u] = 0
  BY Sets DEF Init
<1>1. TypeOK
  BY Sets DEF Init, TypeOK, Places, Signs, Answers, Marks
<1>2. Tables /\ Down /\ Record
  BY <1>0, Sets DEF Init, Tables, Down, Record, Busy, Killing, Quiet
<1>3. Flags
  BY <1>0 DEF Init, Flags, Unjudged
<1>4. QED
  BY <1>1, <1>2, <1>3 DEF Inv

LEMMA NextKeeps ==
    ASSUME Inv, [Next]_vars
    PROVE  Inv'
<1>1. TypeOK'
  BY TypeKept DEF Inv
<1>2. QED
  BY <1>1, TablesKept, RecordKept, FlagsStay DEF Inv

\* Only running turns are registered, only messages wait in kill_all, the in-flight record
\* is a message under way whose CLI call was prepared, and the marks of the messages tell
\* of every flag that is up, and of every one that has been taken down.
THEOREM ChatInv == Spec => []Inv
<1>1. Inv /\ [Next]_vars => Inv'
  BY NextKeeps
<1>2. QED
  BY <1>1, InitHolds, PTL DEF Spec

\* Then a stopped message is answered only by an internal error or after others have taken
\* the flags down, and a message is silenced only if it was stopped or a flag was up for
\* another turn, whatever flags earlier turns, injected prompts, kills and recoveries of
\* the chat have left.
THEOREM SilenceTrue == Spec => []SilenceExplained
<1>1. Inv => SilenceExplained
  BY DEF Inv, Flags, SilenceExplained
<1>2. QED
  BY <1>1, ChatInv, PTL

\* A crash at any point of a private chat loses no message whose CLI call was prepared and
\* whose record nobody took, if the restart is in time; and no turn that came to its end
\* is announced.
THEOREM CrashAnnouncedHolds == Spec => []CrashAnnounced
<1>1. Inv => CrashAnnounced
  BY DEF Inv, Record, CrashAnnounced, Late
<1>2. QED
  BY <1>1, ChatInv, PTL
=============================================================================
