--------------------------- MODULE TaskLifecycle ---------------------------
(***************************************************************************)
(* What the task hub promises about one task, seen by its parent agent and *)
(* independent of asyncio, files and tables: a task is started once, each  *)
(* attempt ends with one outcome, an ended attempt may be resumed, a       *)
(* finished task may be removed for good, and an attempt that dies with    *)
(* the process reads "failed" afterwards.                                  *)
(***************************************************************************)
CONSTANT Tasks

VARIABLE status  \* task -> "unborn", a status of TaskEntry, or "removed"

Outcomes  == {"waiting", "done", "failed", "cancelled"}
Removable == {"done", "failed", "cancelled"}

Init == status = [t \in Tasks |-> "unborn"]

Start(t) ==
    /\ status[t] = "unborn"
    /\ status' = [status EXCEPT ![t] = "running"]

Finish(t) ==
    /\ status[t] = "running"
    /\ \E s \in Outcomes : status' = [status EXCEPT ![t] = s]

Resume(t) ==
    /\ status[t] \in Outcomes
    /\ status' = [status EXCEPT ![t] = "running"]

Remove(S) ==
    /\ \A t \in S : status[t] \in Removable
    /\ status' = [t \in Tasks |-> IF t \in S THEN "removed" ELSE status[t]]

\* The process dies: every attempt under way has failed, a removal or a creation
\* under way may or may not have happened.
ProcessLost(S) ==
    /\ \A t \in S : status[t] \in Removable \cup {"unborn"}
    /\ status' = [t \in Tasks |-> IF t \in S THEN "removed"
                                  ELSE IF status[t] = "running" THEN "failed"
                                  ELSE status[t]]

Next ==
    \/ \E t \in Tasks : Start(t) \/ Finish(t) \/ Resume(t)
    \/ \E S \in SUBSET Tasks : Remove(S) \/ ProcessLost(S)

Spec == Init /\ [][Next]_status
=============================================================================
