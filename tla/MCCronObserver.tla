--------------------------- MODULE MCCronObserver ---------------------------
(* Values for the model checker: a job with two or three tasks, and one with a *)
(* single task that competes with it for a dependency.                         *)
EXTENDS CronObserver, TLC

CONSTANTS j1, j2, d1, t1, t2, t3, t4

UserJob == [u \in Users |-> IF u = t4 THEN j2 ELSE j1]
Shared  == [j \in Jobs |-> d1]
=============================================================================
