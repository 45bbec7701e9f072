---------------------------- MODULE MCRateLimit ----------------------------
(* Instances of RateLimit for TLC.  MCRateLimit.cfg: three addresses        *)
(* compete for two buckets, on two chains, while intervals grow past an     *)
(* int.  MCBuckets.cfg: four addresses, three of them on one chain, compete *)
(* for three buckets while the clock is also set back, so that a bucket is  *)
(* taken out at the head, in the middle and at the end of a chain.          *)
EXTENDS RateLimit, TLC
CONSTANTS a1, a2, a3, a4, h1, h2

Three == {a1, a2, a3}
Four == {a1, a2, a3, a4}
MCHashes == {h1, h2}
HashOfThree == (a1 :> h1) @@ (a2 :> h1) @@ (a3 :> h2)
HashOfFour == (a1 :> h1) @@ (a2 :> h1) @@ (a3 :> h1) @@ (a4 :> h2)

\* addresses of one chain differ in nothing
AlikeOfThree == Permutations({a1, a2})
AlikeOfFour == Permutations({a1, a2, a3})
=============================================================================
