----------------------------- MODULE MCChatTurn -----------------------------
(* Values for the model checker: two messages and an injected prompt of one chat. *)
EXTENDS ChatTurn

CONSTANTS m1, m2, i1, t1, t2, s1

\* The prompt is injected into the topic of one message; the other one has another lock.
TwoTopics == [u \in {m1, m2, i1} |-> IF u = m2 THEN t2 ELSE t1]
OneTopic == [u \in {m1} |-> t1]
=============================================================================
