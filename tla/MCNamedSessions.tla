-------------------------- MODULE MCNamedSessions --------------------------
(* Values for the model checker: a session of the user and one of a peer, with two   *)
(* prompts, so that the prompt of an earlier call can be told from that of the next. *)
EXTENDS NamedSessions, TLC

CONSTANTS n1, ia, c1, c2, p1, p2

Symmetries == Permutations(Calls) \cup Permutations(Prompts)
=============================================================================
