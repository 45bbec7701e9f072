---------------------------- MODULE MCPlayerState ----------------------------
(* PlayerState for TLC: a change of map, a restart, two clients one after   *)
(* the other, each of which may download a file and issue a command of      *)
(* another kind, with and without "nextdl" in its text, one field set at a  *)
(* time; gamestates and packets are lost.                                   *)
EXTENDS PlayerState

PlayerKinds == {"download", "nextdl", "donedl", "say", "sayNextdl"}
==============================================================================
