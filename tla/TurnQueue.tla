----------------------------- MODULE TurnQueue -----------------------------
(***************************************************************************)
(* What the users of the per-session locks rely on: every session serves   *)
(* one user at a time, in the order in which they joined its line; a user  *)
(* that is not being served may leave the line.                            *)
(***************************************************************************)
EXTENDS FiniteSets

CONSTANTS Keys, Users

VARIABLES
    line,    \* per session: the users in line, the served one included
    before,  \* per user: who is served first
    served   \* per session: the users being served

turnVars == <<line, before, served>>

Init ==
    /\ line = [k \in Keys |-> {}]
    /\ before = [u \in Users |-> {}]
    /\ served = [k \in Keys |-> {}]

Behind(u) == [v \in Users |-> IF v = u THEN {} ELSE before[v] \ {u}]

Join(u, k) ==
    /\ \A j \in Keys : u \notin line[j]
    /\ line' = [line EXCEPT ![k] = @ \cup {u}]
    /\ before' = [before EXCEPT ![u] = line[k]]
    /\ \/ UNCHANGED served
       \/ line[k] = {} /\ served' = [served EXCEPT ![k] = {u}]

Serve(u, k) ==
    /\ served[k] = {}
    /\ u \in line[k]
    /\ before[u] = {}
    /\ served' = [served EXCEPT ![k] = {u}]
    /\ UNCHANGED <<line, before>>

Leave(u, k) ==
    /\ u \in line[k]
    /\ line' = [line EXCEPT ![k] = @ \ {u}]
    /\ before' = Behind(u)
    /\ served' = [served EXCEPT ![k] = @ \ {u}]

Next == \E u \in Users, k \in Keys : Join(u, k) \/ Serve(u, k) \/ Leave(u, k)

Spec == Init /\ [][Next]_turnVars
=============================================================================
