---------------------------- MODULE MCExecTasks ----------------------------
(* ExecTasks for TLC: as many commands and levels as the constants say.     *)
EXTENDS ExecTasks
=============================================================================
