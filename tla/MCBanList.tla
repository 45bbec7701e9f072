----------------------------- MODULE MCBanList -----------------------------
(* Two addresses, two slots, bans of no and two seconds and permanent ones   *)
(* over three seconds: an address is banned by number and by address while  *)
(* another client of it plays, leaves or connects.                          *)
EXTENDS BanList, TLC
CONSTANTS ip1, ip2, c1, c2

MCIps == {ip1, ip2}
MCClients == {c1, c2}
MCDurations == {0, 2}

\* slots and addresses each differ in nothing
Alike == Permutations(MCIps) \cup Permutations(MCClients)
=============================================================================
