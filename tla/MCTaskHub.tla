----------------------------- MODULE MCTaskHub -----------------------------
(* Values for the model checker: one or two tasks of one chat, and a chat without tasks. *)
EXTENDS TaskHub

CONSTANTS t1, t2, c1, c2, main, sub

OneChat  == [t \in Tasks |-> c1]
\* t2 is a task of a sub-agent.
TwoDirs  == [t \in Tasks |-> IF t = t2 THEN sub ELSE main]
=============================================================================
