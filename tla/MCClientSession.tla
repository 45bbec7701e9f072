-------------------------- MODULE MCClientSession --------------------------
(* ClientSession for TLC: two commands of any kind, a change of map, a      *)
(* restart, forged packets.  Its liveness is checked with PlayerState.      *)
EXTENDS ClientSession

AllKinds ==
    {"say", "sayNextdl", "download", "nextdl", "donedl", "cp", "disconnect"}
MCForged == {-1, 2}
=============================================================================
