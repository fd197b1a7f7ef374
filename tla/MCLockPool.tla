----------------------------- MODULE MCLockPool -----------------------------
(* Values for the model checker: two or three sessions, up to four users. *)
EXTENDS LockPool, TLC

CONSTANTS k1, k2, k3, u1, u2, u3, u4, l1, l2, l3, l4, l5, l6, l7
=============================================================================
