---------------------------- MODULE MCChallenges ----------------------------
(* Challenges for TLC: three clients, one of them local, compete for a      *)
(* table of two entries.                                                    *)
EXTENDS Challenges
CONSTANTS a, b, c

MCAddresses == {a, b, c}
MCLan == {b}
=============================================================================
