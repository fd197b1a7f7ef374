---------------------------- MODULE MCSupervisor ----------------------------
(* Values for the model checker: the main agent and one or two sub-agents. *)
EXTENDS Supervisor

CONSTANTS agent0, sub1, sub2, v1, v2, watcher, cmd1, cmd2, shutdown
=============================================================================
