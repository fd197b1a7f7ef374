----------------------------- MODULE MCSessions -----------------------------
(* Values for the model checker: the main session of a chat, with a message, a /new  *)
(* and a /model, and one of a topic that has a default model of its own, with an      *)
(* injected prompt and a /new.  Both have conversations already.                      *)
EXTENDS Sessions

CONSTANTS k1, k2, c1, c2, user, task, new1, new2, model, before

KeysOf     == [a \in Actors |-> IF a \in {task, new2} THEN k2 ELSE k1]
OwnDefault == [k \in {k1, k2} |-> IF k = k2 THEN c2 ELSE None]
FoundBoth  == [k \in {k1, k2} |->
                  [provider |-> IF k = k1 THEN c1 ELSE c2,
                   data     |-> [p \in {c1, c2} |-> IF k = k1 /\ p = c2 THEN [id |-> None, count |-> 0]
                                                    ELSE [id |-> before, count |-> 1]]]]
NoAsks     == [u \in Turns |-> None]
=============================================================================
