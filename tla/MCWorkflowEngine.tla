------------------------- MODULE MCWorkflowEngine -------------------------
(* Values for the model checker: runs of one chat, and a definition with every *)
(* strategy, a loop back to its question, and a dangling branch.               *)
EXTENDS WorkflowEngine

CONSTANT c1

Step(type, on_error, retries, fallback, goto, then, else) ==
    [type |-> type, on_error |-> on_error, retries |-> retries,
     fallback |-> fallback, goto |-> goto, then |-> then, else |-> else]

Review == <<
    Step("ask_agent",      "retry",    1, 0, 0, 0, 0),
    Step("wait_for_reply", "abort",    0, 0, 0, 0, 0),
    Step("condition",      "fallback", 0, 4, 0, 2, 9),
    Step("ask_agent",      "skip",     0, 0, 0, 0, 0)>>

OneChat == [r \in RunIds |-> c1]
=============================================================================
