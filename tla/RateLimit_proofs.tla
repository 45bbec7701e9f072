--------------------------- MODULE RateLimit_proofs ---------------------------
(***************************************************************************)
(* The limits hold for every burst and period, every number of buckets and *)
(* of addresses, however long a bucket is left alone and even if the clock *)
(* is set back: an ideal level is never above what its bucket would count  *)
(* by now.  For the limit of an address this needs that it never has two   *)
(* buckets, and so that the search finds the one it has: that taking out   *)
(* and linking buckets keeps the hash chains whole.                        *)
(***************************************************************************)
EXTENDS RateLimit, WellFoundedInduction, TLAPS

PeriodOf(g) == IF g = "outbound" THEN OutPeriod ELSE Period

GlobalBucket == [lastTime : Int, burst : 0..Burst]
Levels == [strict : [Addrs -> Nat], all : [Addrs -> Nat], global : [Globals -> Nat]]

\* a bucket that leaks in periods of length p covers the ideal level l
Covers(bucket, l, p) ==
    IF now < bucket.lastTime THEN l = 0
    ELSE l = 0 \/ l <= (bucket.burst + 1) * p - (now - bucket.lastTime)

TypeGlobals ==
    now \in Nat /\ level \in Levels /\ global \in [Globals -> GlobalBucket]

IInv == TypeGlobals /\ \A g \in Globals : Covers(global[g], level.global[g], PeriodOf(g))

-------------------------------------------------------------------------------
(* Arithmetic.                                                              *)

LEMMA DivMod ==
    ASSUME NEW i \in Nat, NEW p \in Nat \ {0}
    PROVE  /\ i \div p \in Nat /\ i % p \in 0..p - 1
           /\ i = p * (i \div p) + (i % p)
    BY SMT

LEMMA Multiples ==
    ASSUME NEW a \in Int, NEW b \in Int, NEW p \in Nat
    PROVE  /\ (a + b) * p = a * p + b * p
           /\ (a - b) * p = a * p - b * p
           /\ a <= b => a * p <= b * p
           /\ p * a = a * p
    BY SMT

\* What fits an int is not changed by the truncation, which yields an integer anyhow.
LEMMA Truncated ==
    ASSUME NEW n \in Int
    PROVE  /\ Truncate(n) \in Int
           /\ n >= 0 /\ n < HalfInt => Truncate(n) = n
<1>1. HalfInt \in Nat \ {0}
  <2>1. /\ Burst \in Nat /\ Period \in Nat \ {0} /\ HalfInt \in Nat
        /\ (Burst + 1) * Period <= HalfInt
      BY RateLimitAssumption DEF RateLimitAssumption
  <2>2. 1 * Period <= (Burst + 1) * Period
      BY <2>1, Multiples
  <2> QED BY <2>1, <2>2
<1> DEFINE w == 2 * HalfInt
<1>2. w \in Nat \ {0}
    BY <1>1
<1>3. n % w \in 0..w - 1
    BY <1>2, SMT
<1>4. ASSUME n >= 0, n < HalfInt
      PROVE  n % w = n
    BY <1>1, <1>4, SMT
<1> QED
    BY <1>1, <1>3, <1>4 DEF Truncate

-------------------------------------------------------------------------------
(* A bucket.                                                                *)

\* Both periods are long enough to count and short enough for an int.
LEMMA Periods ==
    ASSUME NEW g \in Globals
    PROVE  /\ PeriodOf(g) \in Nat \ {0} /\ (Burst + 1) * PeriodOf(g) <= HalfInt
           /\ Burst \in Nat \ {0} /\ HalfInt \in Nat
    BY RateLimitAssumption DEF RateLimitAssumption, PeriodOf

\* An emptied bucket holds no ideal level any more: its interval is negative or truncated
\* only after a time in which every level has leaked away (iw1x.cpp 744-748).
LEMMA EmptiedInTime ==
    ASSUME now \in Nat, NEW g \in Globals, NEW b \in GlobalBucket, NEW l \in Nat,
           Covers(b, l, PeriodOf(g)),
           Emptied(b, PeriodOf(g)) \/ now < b.lastTime \/ now - b.lastTime >= HalfInt
    PROVE  l = 0
<1> DEFINE p == PeriodOf(g)
           d == now - b.lastTime
<1>1. /\ p \in Nat \ {0} /\ (Burst + 1) * p <= HalfInt /\ HalfInt \in Nat
      /\ b.burst \in 0..Burst /\ b.lastTime \in Int /\ d \in Int /\ Burst \in Nat
    BY Periods DEF GlobalBucket
<1>2. (b.burst + 1) * p <= (Burst + 1) * p /\ (b.burst + 1) * p \in Nat
    BY <1>1, Multiples
<1> HIDE DEF p
<1>3. CASE now < b.lastTime
    BY <1>3 DEF Covers
<1>4. CASE d >= HalfInt
  <2>1. l = 0 \/ l <= (b.burst + 1) * p - d
      BY <1>1, <1>4 DEF Covers, p
  <2> QED BY <1>1, <1>2, <1>4, <2>1
<1>5. CASE d >= 0 /\ d < HalfInt
  <2>1. Interval(b) = d
      BY <1>1, <1>5, Truncated DEF Interval
  <2>2. d \div p > b.burst
      BY <1>1, <1>5, <2>1 DEF Emptied, Expired, p
  <2> DEFINE q == d \div p
  <2>3. q \in Nat /\ d = p * q + (d % p) /\ d % p \in 0..p - 1
    <3>1. d \in Nat
        BY <1>1, <1>5
    <3> HIDE DEF d
    <3> QED BY <1>1, <3>1, DivMod
  <2>4. (b.burst + 1) * p <= q * p /\ p * q = q * p
    <3>1. q > b.burst
        BY <2>2
    <3> HIDE DEF q
    <3>2. b.burst + 1 \in Int /\ b.burst + 1 <= q
        BY <1>1, <2>3, <3>1
    <3> QED BY <1>1, <2>3, <3>2, Multiples
  <2> HIDE DEF q
  <2>5. (b.burst + 1) * p <= d
      BY <1>1, <1>2, <2>3, <2>4
  <2>6. l = 0 \/ l <= (b.burst + 1) * p - d
      BY <1>1, <1>5 DEF Covers, p
  <2> QED BY <1>1, <1>2, <2>5, <2>6
<1> QED BY <1>1, <1>3, <1>4, <1>5

\* Leaking keeps the cover, and what it leaves of the interval is less than a period
\* (iw1x.cpp 743-757).
LEMMA LeakCovers ==
    ASSUME now \in Nat, NEW g \in Globals, NEW b \in GlobalBucket, NEW l \in Nat,
           Covers(b, l, PeriodOf(g))
    PROVE  LET leaked == Leaked(b, PeriodOf(g))
               d == now - leaked.lastTime
           IN /\ leaked \in GlobalBucket
              /\ d \in 0..PeriodOf(g) - 1
              /\ l = 0 \/ l <= (leaked.burst + 1) * PeriodOf(g) - d
<1> DEFINE p == PeriodOf(g)
           leaked == Leaked(b, p)
           i == Interval(b)
           e == Expired(b, p)
<1>1. /\ p \in Nat \ {0} /\ Burst \in Nat /\ HalfInt \in Nat
      /\ b.burst \in 0..Burst /\ b.lastTime \in Int /\ b = [lastTime |-> b.lastTime, burst |-> b.burst]
    BY Periods DEF GlobalBucket
<1>2. CASE Emptied(b, p)
  <2>1. leaked = [lastTime |-> now, burst |-> 0]
      BY <1>1, <1>2 DEF Leaked
  <2>2. l = 0
      BY <1>2, EmptiedInTime
  <2> HIDE DEF leaked, p
  <2>3. leaked \in GlobalBucket /\ now - leaked.lastTime \in 0..p - 1
      BY <1>1, <2>1 DEF GlobalBucket
  <2> QED BY <2>2, <2>3 DEF leaked, p
<1>3. CASE ~Emptied(b, p)
  <2>1. i \in Int
      BY <1>1, Truncated DEF Interval
  <2>2. i >= 0 /\ e <= b.burst
      BY <1>1, <1>3, <2>1, DivMod DEF Emptied, Expired
  <2>3. e \in Nat /\ i % p \in 0..p - 1 /\ i = p * e + (i % p)
      BY <1>1, <2>1, <2>2, DivMod DEF Expired
  <2>4. leaked = [lastTime |-> now - (i % p), burst |-> b.burst - e]
      BY <1>1, <1>3 DEF Leaked
  <2>5. l = 0 \/ l <= (b.burst + 1) * p - i
    <3>1. CASE now < b.lastTime \/ now - b.lastTime >= HalfInt
        BY <3>1, EmptiedInTime
    <3>2. CASE now >= b.lastTime /\ now - b.lastTime < HalfInt
      <4>1. i = now - b.lastTime
          BY <1>1, <3>2, Truncated DEF Interval
      <4> QED BY <1>1, <3>2, <4>1 DEF Covers
    <3> QED BY <1>1, <3>1, <3>2
  <2>6. (b.burst - e + 1) * p = (b.burst + 1) * p - p * e
    <3>1. b.burst + 1 \in Int /\ e \in Int /\ b.burst - e + 1 = (b.burst + 1) - e
        BY <1>1, <2>3
    <3> QED BY <1>1, <3>1, Multiples
  <2> HIDE DEF leaked, p, i, e
  <2>7. leaked.lastTime = now - (i % p) /\ leaked.burst = b.burst - e
      BY <2>4
  <2>8. leaked \in GlobalBucket /\ now - leaked.lastTime = i % p
      BY <1>1, <2>2, <2>3, <2>4, <2>7 DEF GlobalBucket
  <2>9. (b.burst + 1) * p \in Int /\ p * e \in Int
      BY <1>1, <2>3
  <2>10. l = 0 \/ l <= (leaked.burst + 1) * p - (now - leaked.lastTime)
      BY <1>1, <2>1, <2>3, <2>5, <2>6, <2>7, <2>8, <2>9
  <2> QED BY <2>3, <2>8, <2>10 DEF leaked, p
<1> QED BY <1>2, <1>3

\* A request keeps the cover, whether it is counted or refused (iw1x.cpp 759-766).
LEMMA RequestCovers ==
    ASSUME now \in Nat, NEW g \in Globals, NEW b \in GlobalBucket, NEW l \in Nat,
           Covers(b, l, PeriodOf(g))
    PROVE  LET o == SVC_RateLimit(b, Burst, PeriodOf(g))
           IN /\ o.bucket \in GlobalBucket
              /\ Covers(o.bucket, IF o.limited THEN l ELSE l + PeriodOf(g), PeriodOf(g))
<1> DEFINE p == PeriodOf(g)
           leaked == Leaked(b, p)
           o == SVC_RateLimit(b, Burst, p)
<1>1. /\ p \in Nat \ {0} /\ Burst \in Nat
    BY Periods
<1>2. /\ leaked \in GlobalBucket
      /\ now - leaked.lastTime \in 0..p - 1
      /\ l = 0 \/ l <= (leaked.burst + 1) * p - (now - leaked.lastTime)
    BY LeakCovers
<1> HIDE DEF leaked, p
<1>3. leaked.lastTime \in Int /\ leaked.burst \in 0..Burst /\ ~(now < leaked.lastTime)
    BY <1>1, <1>2 DEF GlobalBucket
<1>4. CASE leaked.burst < Burst
  <2>1. o = [limited |-> FALSE, bucket |-> [leaked EXCEPT !.burst = @ + 1]]
      BY <1>4 DEF SVC_RateLimit, leaked, p
  <2> HIDE DEF o
  <2>2. /\ o.bucket \in GlobalBucket /\ ~o.limited
        /\ o.bucket.lastTime = leaked.lastTime /\ o.bucket.burst = leaked.burst + 1
    <3>1. [leaked EXCEPT !.burst = @ + 1]
              = [lastTime |-> leaked.lastTime, burst |-> leaked.burst + 1]
        BY <1>2 DEF GlobalBucket
    <3>2. ~o.limited /\ o.bucket = [lastTime |-> leaked.lastTime, burst |-> leaked.burst + 1]
        BY <2>1, <3>1
    <3>3. leaked.burst + 1 \in 0..Burst
        BY <1>1, <1>3, <1>4
    <3> QED BY <1>3, <3>2, <3>3 DEF GlobalBucket
  <2>3. (leaked.burst + 1 + 1) * p = (leaked.burst + 1) * p + 1 * p
      BY <1>1, <1>3, Multiples
  <2>4. (leaked.burst + 1) * p >= 1 * p /\ (leaked.burst + 1) * p \in Int
      BY <1>1, <1>3, Multiples
  <2>5. l + p <= (leaked.burst + 1 + 1) * p - (now - leaked.lastTime)
      BY <1>1, <1>2, <1>3, <2>3, <2>4
  <2> QED BY <1>3, <2>2, <2>5 DEF Covers, o, p
<1>5. CASE ~(leaked.burst < Burst)
  <2>1. o = [limited |-> TRUE, bucket |-> leaked]
      BY <1>5 DEF SVC_RateLimit, leaked, p
  <2> HIDE DEF o
  <2> QED BY <1>2, <1>3, <2>1 DEF Covers, o, p
<1> QED BY <1>4, <1>5

-------------------------------------------------------------------------------
(* The global buckets.                                                      *)

LEMMA InitIInv == Init => IInv
<1> SUFFICES ASSUME Init
             PROVE  IInv
    OBVIOUS
<1>1. now \in 0..1 /\ level = ZeroLevels
      /\ global = [g \in Globals |-> [lastTime |-> 0, burst |-> 0]]
    BY DEF Init
<1>2. Burst \in Nat
    BY RateLimitAssumption DEF RateLimitAssumption
<1>3. TypeGlobals
    BY <1>1, <1>2 DEF TypeGlobals, Levels, GlobalBucket, ZeroLevels
<1>4. \A g \in Globals : level.global[g] = 0
    BY <1>1 DEF ZeroLevels
<1> QED
    BY <1>3, <1>4 DEF IInv, Covers

\* What a counted request adds to the ideal levels of its address.
LEMMA CountedLevels ==
    ASSUME level \in Levels, NEW a \in Addrs, NEW burst
    PROVE  LET new == Counted(a, burst)
           IN /\ new \in Levels /\ new.global = level.global
              /\ new.strict = [level.strict EXCEPT ![a] = IF burst = Burst THEN @ + Period ELSE @]
              /\ new.all = [level.all EXCEPT ![a] = @ + Period]
<1> DEFINE strict == [level.strict EXCEPT ![a] = IF burst = Burst THEN @ + Period ELSE @]
           all == [level.all EXCEPT ![a] = @ + Period]
<1>1. Period \in Nat
    BY RateLimitAssumption DEF RateLimitAssumption
<1>2. Counted(a, burst) = [strict |-> strict, all |-> all, global |-> level.global]
  <2>1. [[level EXCEPT !.strict = strict] EXCEPT !.all = all]
            = [strict |-> strict, all |-> all, global |-> level.global]
    <3>1. level = [strict |-> level.strict, all |-> level.all, global |-> level.global]
        BY DEF Levels
    <3> HIDE DEF strict, all
    <3> DEFINE half == [level EXCEPT !.strict = strict]
    <3>2. half = [strict |-> strict, all |-> level.all, global |-> level.global]
        BY <3>1
    <3> HIDE DEF half
    <3>3. [half EXCEPT !.all = all] = [strict |-> strict, all |-> all, global |-> level.global]
        BY <3>2
    <3> QED BY <3>3 DEF half
  <2>2. Counted(a, burst) = [[level EXCEPT !.strict = strict] EXCEPT !.all = all]
      BY DEF Counted, Levels
  <2> QED BY <2>1, <2>2
<1>3. level.strict \in [Addrs -> Nat] /\ level.all \in [Addrs -> Nat]
      /\ level.global \in [Globals -> Nat]
    BY DEF Levels
<1>4. strict \in [Addrs -> Nat]
  <2>1. CASE burst = Burst
      BY <1>1, <1>3, <2>1
  <2>2. CASE burst # Burst
      BY <1>3, <2>2
  <2> QED BY <2>1, <2>2
<1>5. all \in [Addrs -> Nat]
    BY <1>1, <1>3
<1> HIDE DEF strict, all
<1> QED BY <1>2, <1>3, <1>4, <1>5 DEF Levels, strict, all

\* A request asks no global bucket or one with its own period, whatever bucket its
\* address has and whatever that decides.
LEMMA RequestKeepsIInv ==
    ASSUME IInv, NEW a \in Addrs, NEW burst, NEW asks, NEW period,
           asks = {} \/ \E g \in Globals : asks = {g} /\ period = PeriodOf(g),
           Request(a, burst, asks, period)
    PROVE  IInv'
<1>1. TypeGlobals /\ now' = now
    BY DEF IInv, Request
<1>2. Period \in Nat
    BY RateLimitAssumption DEF RateLimitAssumption
<1>3. Counted(a, burst) \in Levels /\ Counted(a, burst).global = level.global
    BY <1>1, CountedLevels DEF TypeGlobals
<1>4. CASE global' = global /\ level' \in {level, Counted(a, burst)}
  <2>1. level' \in Levels /\ level'.global = level.global
      BY <1>1, <1>3, <1>4 DEF TypeGlobals
  <2>2. TypeGlobals'
      BY <1>1, <1>4, <2>1 DEF TypeGlobals
  <2>3. ASSUME NEW g \in Globals
        PROVE  Covers(global[g], level.global[g], PeriodOf(g))'
      BY <1>1, <1>4, <2>1 DEF IInv, Covers, PeriodOf
  <2> QED BY <2>2, <2>3 DEF IInv
<1>5. ASSUME NEW g \in Globals, period = PeriodOf(g), NEW o,
             o = SVC_RateLimit(global[g], Burst, period),
             global' = [global EXCEPT ![g] = o.bucket],
             level' = IF o.limited THEN Counted(a, burst)
                      ELSE [Counted(a, burst) EXCEPT !.global[g] = @ + period]
      PROVE  IInv'
  <2>1. /\ now \in Nat /\ global[g] \in GlobalBucket /\ level.global[g] \in Nat
        /\ Covers(global[g], level.global[g], PeriodOf(g))
      BY <1>1 DEF IInv, TypeGlobals, Levels
  <2>2. /\ o.bucket \in GlobalBucket
        /\ Covers(o.bucket, IF o.limited THEN level.global[g] ELSE level.global[g] + period, period)
      BY <1>5, <2>1, RequestCovers
  <2>3. period \in Nat
      BY <1>5, Periods
  <2>4. /\ level' \in Levels
        /\ level'.global[g] = IF o.limited THEN level.global[g] ELSE level.global[g] + period
        /\ \A h \in Globals \ {g} : level'.global[h] = level.global[h]
      BY <1>3, <1>5, <2>1, <2>3 DEF Levels
  <2>5. /\ global' \in [Globals -> GlobalBucket] /\ global'[g] = o.bucket
        /\ \A h \in Globals \ {g} : global'[h] = global[h]
      BY <1>1, <1>5, <2>2 DEF TypeGlobals
  <2>6. TypeGlobals'
      BY <1>1, <2>4, <2>5 DEF TypeGlobals
  <2>7. ASSUME NEW h \in Globals
        PROVE  Covers(global[h], level.global[h], PeriodOf(h))'
    <3>1. CASE h = g
        BY <1>1, <1>5, <2>2, <2>4, <2>5, <3>1 DEF Covers, PeriodOf
    <3>2. CASE h # g
        BY <1>1, <2>4, <2>5, <3>2 DEF IInv, Covers, PeriodOf
    <3> QED BY <3>1, <3>2
  <2> QED BY <2>6, <2>7 DEF IInv
<1>6. CASE UNCHANGED <<global, level>>
    BY <1>4, <1>6
<1>7. CASE asks = {} /\ level' = Counted(a, burst) /\ UNCHANGED global
    BY <1>4, <1>7
<1>8. CASE \E g \in asks : \E o \in {SVC_RateLimit(global[g], Burst, period)} :
              /\ global' = [global EXCEPT ![g] = o.bucket]
              /\ level' = IF o.limited THEN Counted(a, burst)
                          ELSE [Counted(a, burst) EXCEPT !.global[g] = @ + period]
  <2>1. PICK g \in asks : \E o \in {SVC_RateLimit(global[g], Burst, period)} :
              /\ global' = [global EXCEPT ![g] = o.bucket]
              /\ level' = IF o.limited THEN Counted(a, burst)
                          ELSE [Counted(a, burst) EXCEPT !.global[g] = @ + period]
      BY <1>8
  <2>2. g \in Globals /\ period = PeriodOf(g)
      BY <2>1
  <2> QED BY <1>5, <2>1, <2>2
<1> QED
    BY <1>6, <1>7, <1>8 DEF Request

\* The bucket and the ideal one leak alike.
LEMMA TickKeepsIInv ==
    ASSUME IInv, NEW d \in 1..MaxTime, Tick(d)
    PROVE  IInv'
<1>1. MaxTime \in Nat /\ d \in Nat
    BY RateLimitAssumption DEF RateLimitAssumption
<1>2. /\ now \in Nat /\ now' = now + d /\ global' = global /\ level \in Levels
      /\ global \in [Globals -> GlobalBucket]
    BY DEF Tick, IInv, TypeGlobals
<1>3. level' = [strict |-> [a \in Addrs |-> Leak(level.strict[a], d)],
                all |-> [a \in Addrs |-> Leak(level.all[a], d)],
                global |-> [g \in Globals |-> Leak(level.global[g], d)]]
    BY DEF Tick
<1>4. \A n \in Int : Leak(n, d) \in Nat /\ (Leak(n, d) = 0 \/ Leak(n, d) = n - d)
    BY <1>1 DEF Leak
<1>5. level' \in Levels /\ \A g \in Globals : level'.global[g] = Leak(level.global[g], d)
  <2>1. /\ \A a \in Addrs : level.strict[a] \in Nat /\ level.all[a] \in Nat
        /\ \A g \in Globals : level.global[g] \in Nat
      BY <1>2 DEF Levels
  <2> QED BY <1>3, <1>4, <2>1 DEF Levels
<1>6. TypeGlobals'
    BY <1>1, <1>2, <1>5 DEF TypeGlobals
<1>7. ASSUME NEW g \in Globals
      PROVE  Covers(global[g], level.global[g], PeriodOf(g))'
  <2>1. /\ global[g].lastTime \in Int /\ global[g].burst \in Int /\ level.global[g] \in Nat
        /\ PeriodOf(g) \in Nat
      BY <1>2, Periods DEF Levels, GlobalBucket
  <2>2. (global[g].burst + 1) * PeriodOf(g) \in Int
      BY <2>1
  <2>3. Covers(global[g], level.global[g], PeriodOf(g))
      BY DEF IInv
  <2> DEFINE m == (global[g].burst + 1) * PeriodOf(g)
             n == level.global[g]
             last == global[g].lastTime
  <2>4. IF now < last THEN n = 0 ELSE n = 0 \/ n <= m - (now - last)
      BY <2>3 DEF Covers
  <2>5. n \in Nat /\ m \in Int /\ last \in Int
      BY <2>1, <2>2
  <2> HIDE DEF m, n, last
  <2>6. IF now + d < last THEN Leak(n, d) = 0
        ELSE Leak(n, d) = 0 \/ Leak(n, d) <= m - (now + d - last)
      BY <1>1, <1>2, <2>4, <2>5 DEF Leak
  <2>7. /\ now' = now + d /\ global'[g].lastTime = last /\ level'.global[g] = Leak(n, d)
        /\ (global'[g].burst + 1) * PeriodOf(g) = m
      BY <1>2, <1>5 DEF m, n, last
  <2>8. IF now' < global'[g].lastTime THEN level'.global[g] = 0
        ELSE \/ level'.global[g] = 0
             \/ level'.global[g] <= (global'[g].burst + 1) * PeriodOf(g)
                                        - (now' - global'[g].lastTime)
      BY <1>1, <1>2, <2>5, <2>6, <2>7
  <2> QED BY <2>8 DEF Covers, PeriodOf
<1> QED BY <1>6, <1>7 DEF IInv

LEMMA StepBackKeepsIInv ==
    ASSUME IInv, NEW t \in 0..MaxTime, StepBack(t)
    PROVE  IInv'
<1>1. /\ now' \in Nat /\ global' = global /\ level' = ZeroLevels
      /\ global \in [Globals -> GlobalBucket]
    BY DEF StepBack, IInv, TypeGlobals
<1>2. level' \in Levels /\ \A g \in Globals : level'.global[g] = 0
    BY <1>1 DEF ZeroLevels, Levels
<1>3. TypeGlobals'
    BY <1>1, <1>2 DEF TypeGlobals
<1> QED BY <1>2, <1>3 DEF IInv, Covers

\* The cover holds in every reachable state.
THEOREM Invariance == Spec => []IInv
<1>1. Init => IInv
    BY InitIInv
<1>2. IInv /\ [Next]_vars => IInv'
  <2> SUFFICES ASSUME IInv, [Next]_vars
               PROVE  IInv'
      OBVIOUS
  <2>1. ASSUME NEW a \in Addrs,
               \/ SVC_Status(a) \/ SVC_Info(a) \/ SV_GetChallenge(a)
               \/ SV_DirectConnect(a) \/ SV_AuthorizeIpPacket(a)
        PROVE  IInv'
    <3>1. "outbound" \in Globals /\ OutPeriod = PeriodOf("outbound")
        BY DEF Globals, PeriodOf
    <3>2. Request(a, Burst, {"outbound"}, OutPeriod) \/ Request(a, AuthBurst, {"outbound"}, OutPeriod)
        BY <2>1 DEF SVC_Status, SVC_ApplyStatusLimit, SVC_Info, SV_GetChallenge,
                    SV_DirectConnect, SV_AuthorizeIpPacket
    <3> QED BY <3>1, <3>2, RequestKeepsIInv
  <2>2. ASSUME NEW a \in Addrs, SVC_RemoteCommand(a)
        PROVE  IInv'
    <3>1. "rcon" \in Globals /\ Period = PeriodOf("rcon")
        BY DEF Globals, PeriodOf
    <3>2. Request(a, Burst, {"rcon"}, Period) \/ Request(a, Burst, {}, Period)
        BY <2>2 DEF SVC_RemoteCommand, SVC_ApplyRconLimit
    <3> QED BY <3>1, <3>2, RequestKeepsIInv
  <2>3. CASE UNCHANGED vars
      BY <2>3 DEF vars, IInv, TypeGlobals, Covers, PeriodOf
  <2> QED
      BY <2>1, <2>2, <2>3, TickKeepsIInv, StepBackKeepsIInv DEF Next
<1> QED
    BY <1>1, <1>2, PTL DEF Spec

\* In any interval of w milliseconds no more than Burst + 1 + w / OutPeriod replies are
\* sent, and as many wrong passwords looked at with Period, from all addresses together.
THEOREM GlobalBoundHolds == Spec => []GlobalBound
<1>1. IInv => GlobalBound
  <2> SUFFICES ASSUME IInv
               PROVE  GlobalBound
      OBVIOUS
  <2>1. ASSUME NEW g \in Globals
        PROVE  level.global[g] <= (Burst + 1) * PeriodOf(g)
    <3>1. /\ global[g].burst \in 0..Burst /\ global[g].lastTime \in Int /\ now \in Nat
          /\ level.global[g] \in Nat /\ PeriodOf(g) \in Nat /\ Burst \in Nat
        BY Periods DEF IInv, TypeGlobals, Levels, GlobalBucket
    <3>2. /\ (global[g].burst + 1) * PeriodOf(g) <= (Burst + 1) * PeriodOf(g)
          /\ (global[g].burst + 1) * PeriodOf(g) \in Nat /\ (Burst + 1) * PeriodOf(g) \in Nat
        BY <3>1, Multiples
    <3>3. Covers(global[g], level.global[g], PeriodOf(g))
        BY DEF IInv
    <3> QED BY <3>1, <3>2, <3>3 DEF Covers
  <2> QED BY <2>1 DEF GlobalBound, Globals, PeriodOf
<1> QED
    BY <1>1, Invariance, PTL

-------------------------------------------------------------------------------
(* The table.                                                               *)

AnyBucket == [adr : Addrs \cup {NoAddr}, lastTime : Int, burst : 0..AuthBurst,
              hash : Hashes, next : Slots \cup {Null}, prev : Slots \cup {Null}]
Table == [Slots -> AnyBucket]
Heads == [Hashes -> Slots \cup {Null}]

\* the buckets of table t that are in use with hash h
Users(t, h) == {b \in Slots : t[b].adr \in Addrs /\ HashOf[t[b].adr] = h}

\* a walk over the chain of h does not leave S
Closed(t, heads, h, S) ==
    /\ heads[h] # Null => heads[h] \in S
    /\ \A s \in S : t[s].next # Null => t[s].next \in S

\* what ChainsOK says, and that a bucket not in use is zero, of any table
Whole(t, heads) ==
    /\ t \in Table /\ heads \in Heads
    /\ \A b \in Slots : IF t[b].adr = NoAddr THEN t[b] = Free ELSE t[b].hash = HashOf[t[b].adr]
    /\ \A h \in Hashes : Closed(t, heads, h, Users(t, h))
    /\ \A h \in Hashes : \A S \in SUBSET Slots : Closed(t, heads, h, S) => Users(t, h) \subseteq S
    /\ \A h \in Hashes : heads[h] # Null => t[heads[h]].prev = Null
    /\ \A b, c \in Slots : t[b].next = c <=> t[c].prev = b

\* The null pointer is no bucket.
LEMMA SlotsNotNull == Null \notin Slots
    BY RateLimitAssumption DEF RateLimitAssumption, Slots, Null

\* A zeroed bucket has the type of a bucket.
LEMMA FreeBucket == Free \in AnyBucket
<1>1. (CHOOSE h \in Hashes : TRUE) \in Hashes
    BY RateLimitAssumption DEF RateLimitAssumption
<1>2. AuthBurst \in Nat
    BY RateLimitAssumption DEF RateLimitAssumption
<1> HIDE DEF Free
<1> QED BY <1>1, <1>2 DEF Free, AnyBucket

\* A bucket in use is the head of its chain or has a predecessor in it: else the walk would
\* stay among the other buckets of the chain.  Its successor is in the chain too.
LEMMA Neighbours ==
    ASSUME NEW t, NEW heads, Whole(t, heads), NEW h \in Hashes, NEW b \in Users(t, h)
    PROVE  /\ t[b].prev = Null <=> heads[h] = b
           /\ t[b].prev # Null => t[b].prev \in Users(t, h) /\ t[b].prev # b
           /\ t[b].next # Null => t[b].next \in Users(t, h) /\ t[b].next # b
           /\ t[b].hash = h
<1>1. /\ t \in Table /\ heads \in Heads /\ b \in Slots /\ Null \notin Slots
      /\ Users(t, h) \subseteq Slots
    BY SlotsNotNull DEF Whole, Users
<1>2. Closed(t, heads, h, Users(t, h))
    BY DEF Whole
<1>3. \A s \in Slots : t[s].next = b <=> t[b].prev = s
    BY <1>1 DEF Whole
<1>4. ASSUME heads[h] # b, \A s \in Users(t, h) \ {b} : t[s].next # b
      PROVE  FALSE
  <2>1. Closed(t, heads, h, Users(t, h) \ {b})
      BY <1>2, <1>4 DEF Closed
  <2>2. Users(t, h) \subseteq Users(t, h) \ {b}
    <3>1. Users(t, h) \ {b} \in SUBSET Slots
        BY <1>1
    <3> QED BY <2>1, <3>1 DEF Whole
  <2> QED BY <2>2
<1>5. t[b].prev = Null <=> heads[h] = b
  <2>1. ASSUME heads[h] = b PROVE t[b].prev = Null
      BY <1>1, <2>1 DEF Whole
  <2>2. ASSUME t[b].prev = Null PROVE heads[h] = b
      BY <1>1, <1>3, <1>4, <2>2
  <2> QED BY <2>1, <2>2
<1>6. t[b].prev \in Slots \cup {Null} /\ t[b].next \in Slots \cup {Null}
    BY <1>1 DEF Table, AnyBucket
<1>7. ASSUME t[b].prev # Null
      PROVE  t[b].prev \in Users(t, h) /\ t[b].prev # b
  <2>1. heads[h] # b
      BY <1>5, <1>7
  <2>2. PICK s \in Users(t, h) \ {b} : t[s].next = b
      BY <1>4, <2>1
  <2> QED BY <1>1, <1>3, <2>2
<1>8. ASSUME t[b].next # Null
      PROVE  t[b].next \in Users(t, h) /\ t[b].next # b
  <2>1. t[b].next \in Users(t, h)
      BY <1>2, <1>8 DEF Closed
  <2>2. ASSUME t[b].next = b PROVE FALSE
    <3>1. t[b].prev = b
        BY <1>1, <1>3, <2>2
    <3> QED BY <1>1, <1>7, <3>1
  <2> QED BY <2>1, <2>2
<1>9. t[b].hash = h
  <2>1. t[b].adr # NoAddr /\ HashOf[t[b].adr] = h
      BY RateLimitAssumption DEF RateLimitAssumption, Users
  <2> QED BY <1>1, <2>1 DEF Whole
<1> QED BY <1>5, <1>7, <1>8, <1>9

\* Two tables differ in no more than links, but for bucket b.
AlikeBut(t, u, b) ==
    \A s \in Slots \ {b} : /\ u[s].adr = t[s].adr /\ u[s].hash = t[s].hash
                           /\ u[s].lastTime = t[s].lastTime /\ u[s].burst = t[s].burst

\* A link of one bucket is all that SetNext and SetPrev change.
LEMMA SetNextLinks ==
    ASSUME NEW t \in Table, NEW b \in Slots \cup {Null}, NEW to \in Slots \cup {Null}
    PROVE  /\ SetNext(t, b, to) \in Table /\ AlikeBut(t, SetNext(t, b, to), Null)
           /\ \A s \in Slots : /\ SetNext(t, b, to)[s].next = IF s = b THEN to ELSE t[s].next
                               /\ SetNext(t, b, to)[s].prev = t[s].prev
<1>1. Null \notin Slots
    BY SlotsNotNull
<1>2. CASE b = Null
    BY <1>1, <1>2 DEF SetNext, AlikeBut
<1>3. CASE b \in Slots
  <2> DEFINE v == [t[b] EXCEPT !.next = to]
             u == [t EXCEPT ![b] = v]
  <2>1. t[b] \in AnyBucket
      BY <1>3 DEF Table
  <2>2. /\ v \in AnyBucket /\ v.adr = t[b].adr /\ v.hash = t[b].hash
        /\ v.lastTime = t[b].lastTime /\ v.burst = t[b].burst /\ v.next = to /\ v.prev = t[b].prev
      BY <2>1 DEF AnyBucket
  <2> HIDE DEF v
  <2>3. u \in Table /\ u[b] = v /\ \A s \in Slots \ {b} : u[s] = t[s]
      BY <1>3, <2>2 DEF Table
  <2>4. SetNext(t, b, to) = u
      BY <1>1, <1>3 DEF SetNext, v
  <2> HIDE DEF u
  <2> QED BY <1>3, <2>2, <2>3, <2>4 DEF AlikeBut
<1> QED BY <1>2, <1>3

\* The same for the link back.
LEMMA SetPrevLinks ==
    ASSUME NEW t \in Table, NEW b \in Slots \cup {Null}, NEW to \in Slots \cup {Null}
    PROVE  /\ SetPrev(t, b, to) \in Table /\ AlikeBut(t, SetPrev(t, b, to), Null)
           /\ \A s \in Slots : /\ SetPrev(t, b, to)[s].prev = IF s = b THEN to ELSE t[s].prev
                               /\ SetPrev(t, b, to)[s].next = t[s].next
<1>1. Null \notin Slots
    BY SlotsNotNull
<1>2. CASE b = Null
    BY <1>1, <1>2 DEF SetPrev, AlikeBut
<1>3. CASE b \in Slots
  <2> DEFINE v == [t[b] EXCEPT !.prev = to]
             u == [t EXCEPT ![b] = v]
  <2>1. t[b] \in AnyBucket
      BY <1>3 DEF Table
  <2>2. /\ v \in AnyBucket /\ v.adr = t[b].adr /\ v.hash = t[b].hash
        /\ v.lastTime = t[b].lastTime /\ v.burst = t[b].burst /\ v.prev = to /\ v.next = t[b].next
      BY <2>1 DEF AnyBucket
  <2> HIDE DEF v
  <2>3. u \in Table /\ u[b] = v /\ \A s \in Slots \ {b} : u[s] = t[s]
      BY <1>3, <2>2 DEF Table
  <2>4. SetPrev(t, b, to) = u
      BY <1>1, <1>3 DEF SetPrev, v
  <2> HIDE DEF u
  <2> QED BY <1>3, <2>2, <2>3, <2>4 DEF AlikeBut
<1> QED BY <1>2, <1>3

\* The table after a bucket in use is taken out of its chain (iw1x.cpp 700-712).
LEMMA Unlinked ==
    ASSUME buckets \in Table, bucketHashes \in Heads, NEW b \in Slots, buckets[b].adr # NoAddr,
           buckets[b].prev # b, buckets[b].next # b
    PROVE  LET u == Unlink(b)
               p == buckets[b].prev
               n == buckets[b].next
           IN /\ u.table \in Table /\ u.heads \in Heads /\ u.table[b] = Free
              /\ AlikeBut(buckets, u.table, b)
              /\ \A s \in Slots \ {b} :
                    /\ u.table[s].next = IF s = p THEN n ELSE buckets[s].next
                    /\ u.table[s].prev = IF s = n THEN p ELSE buckets[s].prev
              /\ \A h \in Hashes : u.heads[h] = IF p = Null /\ h = buckets[b].hash THEN n
                                                ELSE bucketHashes[h]
<1> DEFINE p == buckets[b].prev
           n == buckets[b].next
           t1 == SetNext(buckets, p, n)
           t2 == SetPrev(t1, n, p)
           u == [t2 EXCEPT ![b] = Free]
           heads == IF p = Null THEN [bucketHashes EXCEPT ![buckets[b].hash] = n] ELSE bucketHashes
<1>1. Unlink(b) = [heads |-> heads, table |-> u]
    BY DEF Unlink
<1>2. p \in Slots \cup {Null} /\ n \in Slots \cup {Null} /\ buckets[b].hash \in Hashes
    BY DEF Table, AnyBucket
<1>3. /\ t1 \in Table /\ AlikeBut(buckets, t1, Null)
      /\ \A s \in Slots : /\ t1[s].next = IF s = p THEN n ELSE buckets[s].next
                          /\ t1[s].prev = buckets[s].prev
  <2> HIDE DEF n, p
  <2> QED BY <1>2, SetNextLinks
<1>4. /\ t2 \in Table /\ AlikeBut(t1, t2, Null)
      /\ \A s \in Slots : /\ t2[s].prev = IF s = n THEN p ELSE t1[s].prev
                          /\ t2[s].next = t1[s].next
  <2> HIDE DEF t1, n, p
  <2> QED BY <1>2, <1>3, SetPrevLinks
<1>5. heads \in Heads /\ \A h \in Hashes : heads[h] = IF p = Null /\ h = buckets[b].hash THEN n
                                                     ELSE bucketHashes[h]
    BY <1>2 DEF Heads
<1> HIDE DEF t1, t2, heads
<1>6. u \in Table /\ u[b] = Free /\ \A s \in Slots \ {b} : u[s] = t2[s]
    BY <1>4, FreeBucket DEF Table
<1>8. ASSUME NEW s \in Slots \ {b}
      PROVE  /\ u[s].adr = buckets[s].adr /\ u[s].hash = buckets[s].hash
             /\ u[s].lastTime = buckets[s].lastTime /\ u[s].burst = buckets[s].burst
             /\ u[s].next = IF s = p THEN n ELSE buckets[s].next
             /\ u[s].prev = IF s = n THEN p ELSE buckets[s].prev
  <2> HIDE DEF p, n, u
  <2>1. s \in Slots \ {Null}
      BY SlotsNotNull
  <2> QED BY <1>3, <1>4, <1>6, <2>1 DEF AlikeBut
<1> HIDE DEF u
<1> QED BY <1>1, <1>5, <1>6, <1>8 DEF AlikeBut

\* Taking a bucket out keeps the table whole.
LEMMA UnlinkWhole ==
    ASSUME Whole(buckets, bucketHashes), NEW b \in Slots
    PROVE  LET u == Unlink(b)
           IN /\ Whole(u.table, u.heads) /\ u.table[b] = Free
              /\ AlikeBut(buckets, u.table, b)
<1> DEFINE t == buckets
           heads == bucketHashes
           p == t[b].prev
           n == t[b].next
           t2 == Unlink(b).table
           heads2 == Unlink(b).heads
<1>1. t \in Table /\ heads \in Heads /\ Null \notin Slots
    BY SlotsNotNull DEF Whole
<1>2. CASE t[b].adr = NoAddr
  <2>1. t[b] = Free /\ p = Null /\ n = Null
      BY <1>1, <1>2 DEF Whole, Free
  <2>2. t2 = t /\ heads2 = heads
      BY <1>1, <1>2, <2>1 DEF Unlink, SetNext, SetPrev, Table
  <2> QED BY <2>1, <2>2 DEF AlikeBut
<1>3. CASE t[b].adr # NoAddr
  <2> DEFINE h == HashOf[t[b].adr]
  <2>1. h \in Hashes /\ b \in Users(t, h) /\ t[b].hash = h
      BY <1>1, <1>3, RateLimitAssumption DEF RateLimitAssumption, Table, AnyBucket, Users, Whole
  <2>2. /\ p = Null <=> heads[h] = b
        /\ p # Null => p \in Users(t, h) /\ p # b
        /\ n # Null => n \in Users(t, h) /\ n # b
      BY <2>1, Neighbours
  <2> HIDE DEF t2, heads2
  <2>3. /\ t2 \in Table /\ heads2 \in Heads /\ t2[b] = Free /\ AlikeBut(t, t2, b)
        /\ \A s \in Slots \ {b} : /\ t2[s].next = IF s = p THEN n ELSE t[s].next
                                  /\ t2[s].prev = IF s = n THEN p ELSE t[s].prev
        /\ \A k \in Hashes : heads2[k] = IF p = Null /\ k = h THEN n ELSE heads[k]
      BY <1>1, <1>3, <2>1, <2>2, Unlinked DEF t2, heads2
  <2>4. \A x, y \in Slots : t[x].next = y <=> t[y].prev = x
      BY DEF Whole
  <2>5. Free.next = Null /\ Free.prev = Null /\ Free.adr = NoAddr
      BY DEF Free
  <2>6. \A k \in Hashes : Users(t2, k) = Users(t, k) \ {b}
      BY <2>3, <2>5, RateLimitAssumption DEF RateLimitAssumption, Users, AlikeBut
  <2>7. \A k \in Hashes : b \in Users(t, k) => k = h
      BY DEF Users
  <2>8. \A k \in Hashes : p \in Users(t, k) => k = h
      BY <1>1, <2>2 DEF Users
  <2> HIDE DEF h, p, n, t, heads
  <2>9. ASSUME NEW s \in Slots
        PROVE  IF t2[s].adr = NoAddr THEN t2[s] = Free ELSE t2[s].hash = HashOf[t2[s].adr]
    <3>1. CASE s = b
        BY <2>3, <2>5, <3>1
    <3>2. CASE s # b
      <4>1. IF t[s].adr = NoAddr THEN t[s] = Free ELSE t[s].hash = HashOf[t[s].adr]
          BY DEF Whole, t
      <4>2. t2[s].adr = t[s].adr /\ t2[s].hash = t[s].hash
          BY <2>3, <3>2 DEF AlikeBut
      <4>3. CASE t[s].adr = NoAddr
        <5>1. t[s].next = Null /\ t[s].prev = Null
            BY <2>5, <4>1, <4>3
        <5>2. s # p /\ s # n
          <6>1. \A c \in Users(t, h) : c \in Slots /\ t[c].adr # NoAddr
              BY RateLimitAssumption DEF RateLimitAssumption, Users
          <6> QED BY <1>1, <2>2, <4>3, <6>1
        <5>3. t2[s] \in AnyBucket /\ t[s] \in AnyBucket
            BY <1>1, <2>3 DEF Table, t
        <5>4. t2[s].next = t[s].next /\ t2[s].prev = t[s].prev
            BY <2>3, <3>2, <5>2
        <5>5. t2[s].lastTime = t[s].lastTime /\ t2[s].burst = t[s].burst
            BY <2>3, <3>2 DEF AlikeBut
        <5>6. t2[s] = t[s]
            BY <4>2, <5>3, <5>4, <5>5 DEF AnyBucket
        <5> QED BY <4>1, <5>6
      <4> QED BY <4>1, <4>2, <4>3
    <3> QED BY <3>1, <3>2
  <2>10. ASSUME NEW k \in Hashes
         PROVE  /\ Closed(t2, heads2, k, Users(t2, k))
                /\ \A S \in SUBSET Slots : Closed(t2, heads2, k, S) => Users(t2, k) \subseteq S
                /\ heads2[k] # Null => t2[heads2[k]].prev = Null
    <3>1. /\ Closed(t, heads, k, Users(t, k))
          /\ \A S \in SUBSET Slots : Closed(t, heads, k, S) => Users(t, k) \subseteq S
          /\ heads[k] # Null => t[heads[k]].prev = Null
          /\ heads[k] \in Slots \cup {Null}
        BY <1>1 DEF Whole, t, heads, Heads
    <3>2. Users(t, k) \subseteq Slots /\ Users(t, h) \subseteq Slots
        BY DEF Users
    <3>3. heads[k] = b => k = h /\ p = Null
      <4>1. heads[k] = b => b \in Users(t, k)
          BY <1>1, <3>1 DEF Closed
      <4> QED BY <2>2, <2>7, <4>1
    <3>4. Closed(t2, heads2, k, Users(t2, k))
      <4>1. heads2[k] # Null => heads2[k] \in Users(t, k) \ {b}
          BY <2>2, <2>3, <3>1, <3>3 DEF Closed
      <4>2. ASSUME NEW s \in Users(t, k) \ {b}, t2[s].next # Null
            PROVE  t2[s].next \in Users(t, k) \ {b}
        <5>1. CASE s = p
            BY <2>2, <2>3, <2>8, <3>2, <4>2, <5>1
        <5>2. CASE s # p
          <6>1. t2[s].next = t[s].next
              BY <2>3, <3>2, <5>2
          <6>2. t[s].next # b
              BY <2>4, <3>2, <5>2 DEF p
          <6> QED BY <3>1, <4>2, <6>1, <6>2 DEF Closed
        <5> QED BY <5>1, <5>2
      <4> QED BY <2>6, <4>1, <4>2 DEF Closed
    <3>5. ASSUME NEW S \in SUBSET Slots, Closed(t2, heads2, k, S)
          PROVE  Users(t2, k) \subseteq S
      <4>1. CASE p \in S \/ (p = Null /\ k = h)
        <5>1. n # Null => n \in S
          <6>1. CASE p \in S
            <7>1. p # b /\ p \in Slots \ {b}
                BY <1>1, <2>2, <3>2, <6>1
            <7>2. t2[p].next = n
                BY <2>3, <7>1
            <7> QED BY <3>5, <6>1, <7>2 DEF Closed
          <6>2. CASE p = Null /\ k = h
            <7>1. heads2[k] = n
                BY <2>3, <6>2
            <7> QED BY <3>5, <7>1 DEF Closed
          <6> QED BY <4>1, <6>1, <6>2
        <5>2. Closed(t, heads, k, S \cup {b})
          <6>1. heads[k] # Null => heads[k] \in S \cup {b}
              BY <2>2, <2>3, <3>5 DEF Closed
          <6>2. ASSUME NEW s \in S \cup {b}, t[s].next # Null
                PROVE  t[s].next \in S \cup {b}
            <7>1. CASE s = b
                BY <5>1, <6>2, <7>1 DEF n
            <7>2. CASE s # b
              <8>1. t[s].next = b \/ s # p
                  BY <1>1, <2>4, <7>2 DEF p
              <8>2. s # p => t2[s].next = t[s].next
                  BY <2>3, <7>2
              <8> QED BY <3>5, <6>2, <7>2, <8>1, <8>2 DEF Closed
            <7> QED BY <7>1, <7>2
          <6> QED BY <6>1, <6>2 DEF Closed
        <5> QED BY <2>6, <3>1, <5>2
      <4>2. CASE p \notin S /\ ~(p = Null /\ k = h)
        <5>1. Closed(t, heads, k, S \ {b})
          <6>1. heads[k] # Null => heads[k] \in S \ {b}
              BY <2>3, <3>3, <3>5, <4>2 DEF Closed
          <6>2. ASSUME NEW s \in S \ {b}, t[s].next # Null
                PROVE  t[s].next \in S \ {b}
            <7>1. s # p /\ t[s].next # b
                BY <2>4, <4>2 DEF p
            <7>2. t2[s].next = t[s].next
                BY <2>3, <7>1
            <7> QED BY <3>5, <6>2, <7>1, <7>2 DEF Closed
          <6> QED BY <6>1, <6>2 DEF Closed
        <5> QED BY <2>6, <3>1, <5>1
      <4> QED BY <4>1, <4>2
    <3>6. ASSUME heads2[k] # Null
          PROVE  t2[heads2[k]].prev = Null
      <4>1. CASE p = Null /\ k = h
        <5>1. heads2[k] = n /\ n # Null
            BY <2>3, <3>6, <4>1
        <5>2. n \in Slots \ {b}
            BY <2>2, <3>2, <5>1
        <5>3. t2[n].prev = p
            BY <2>3, <5>2
        <5> QED BY <4>1, <5>1, <5>3
      <4>2. CASE ~(p = Null /\ k = h)
        <5>1. heads2[k] = heads[k] /\ heads[k] # b /\ heads[k] \in Slots
            BY <2>3, <3>1, <3>3, <3>6, <4>2
        <5>2. heads[k] # n
            BY <1>1, <2>4, <3>1, <5>1 DEF n
        <5> QED BY <1>1, <2>3, <3>1, <5>1, <5>2
      <4> QED BY <4>1, <4>2
    <3> QED BY <3>4, <3>5, <3>6
  <2>11. ASSUME NEW x \in Slots, NEW y \in Slots
         PROVE  t2[x].next = y <=> t2[y].prev = x
    <3>1. /\ t[b].next = n /\ t[b].prev = p
          /\ \A s \in Slots : t[s].next = b <=> s = p
          /\ \A s \in Slots : t[s].prev = b <=> s = n
        BY <2>4 DEF n, p
    <3>2. CASE x = b
        BY <1>1, <2>2, <2>3, <2>5, <3>1, <3>2
    <3>3. CASE x # b /\ y = b
        BY <1>1, <2>2, <2>3, <2>5, <3>1, <3>3
    <3>4. CASE x # b /\ y # b
        BY <2>2, <2>3, <2>4, <3>1, <3>4
    <3> QED BY <3>2, <3>3, <3>4
  <2>12. Whole(t2, heads2)
      BY <2>3, <2>9, <2>10, <2>11 DEF Whole
  <2> QED BY <2>3, <2>12 DEF t2, heads2, t
<1> QED BY <1>2, <1>3

\* Putting a zeroed bucket at the head of the chain of an address keeps the table whole
\* (iw1x.cpp 714-731).
LEMMA LinkWhole ==
    ASSUME NEW t, NEW heads, Whole(t, heads), NEW b \in Slots, t[b] = Free,
           NEW a \in Addrs, now \in Nat
    PROVE  LET u == Link([table |-> t, heads |-> heads], b, a)
           IN /\ Whole(u.table, u.heads) /\ u.slot = b /\ AlikeBut(t, u.table, b)
              /\ u.table[b].adr = a /\ u.table[b].lastTime = now /\ u.table[b].burst = 0
<1> DEFINE h == HashOf[a]
           q == heads[h]
           new == New(a, q)
           t1 == SetPrev(t, q, b)
           t2 == [t1 EXCEPT ![b] = new]
           heads2 == [heads EXCEPT ![h] = b]
<1>1. /\ t \in Table /\ heads \in Heads /\ Null \notin Slots /\ AuthBurst \in Nat
      /\ h \in Hashes /\ NoAddr \notin Addrs /\ q \in Slots \cup {Null}
    BY SlotsNotNull, RateLimitAssumption DEF RateLimitAssumption, Whole, Heads
<1>2. Link([table |-> t, heads |-> heads], b, a) = [slot |-> b, heads |-> heads2, table |-> t2]
    BY DEF Link
<1>3. /\ new \in AnyBucket /\ new.adr = a /\ new.lastTime = now /\ new.burst = 0
      /\ new.hash = h /\ new.next = q /\ new.prev = Null
  <2> HIDE DEF q, h
  <2> QED BY <1>1 DEF New, AnyBucket, h
<1>4. /\ t1 \in Table /\ AlikeBut(t, t1, Null)
      /\ \A s \in Slots : /\ t1[s].prev = IF s = q THEN b ELSE t[s].prev
                          /\ t1[s].next = t[s].next
  <2> HIDE DEF q
  <2> QED BY <1>1, SetPrevLinks
<1>5. heads2 \in Heads /\ heads2[h] = b /\ \A k \in Hashes \ {h} : heads2[k] = heads[k]
  <2> HIDE DEF h
  <2> QED BY <1>1 DEF Heads
<1> HIDE DEF t1, new, heads2
<1>6. t2 \in Table /\ t2[b] = new /\ \A s \in Slots \ {b} : t2[s] = t1[s]
    BY <1>3, <1>4 DEF Table
<1> HIDE DEF t2
<1>7. /\ AlikeBut(t, t2, b)
      /\ \A s \in Slots \ {b} : /\ t2[s].prev = IF s = q THEN b ELSE t[s].prev
                                /\ t2[s].next = t[s].next
    BY <1>1, <1>4, <1>6 DEF AlikeBut
<1>8. \A x, y \in Slots : t[x].next = y <=> t[y].prev = x
    BY DEF Whole
<1>9. /\ t[b].next = Null /\ t[b].prev = Null /\ t[b].adr = NoAddr
      /\ \A s \in Slots : t[s].next # b /\ t[s].prev # b
  <2>1. t[b].next = Null /\ t[b].prev = Null /\ t[b].adr = NoAddr
      BY DEF Free
  <2> QED BY <1>1, <1>8, <2>1
<1>10. \A k \in Hashes : /\ Users(t2, k) = IF k = h THEN Users(t, k) \cup {b} ELSE Users(t, k)
                         /\ b \notin Users(t, k) /\ Users(t, k) \subseteq Slots
    BY <1>1, <1>3, <1>6, <1>7, <1>9 DEF Users, AlikeBut
<1>11. \A k \in Hashes : Closed(t, heads, k, Users(t, k)) /\ (heads[k] # Null => t[heads[k]].prev = Null)
    BY DEF Whole
<1>12. q # b /\ (q # Null => q \in Users(t, h) /\ t[q].prev = Null)
    BY <1>1, <1>10, <1>11 DEF Closed
<1> HIDE DEF q, h
<1>13. ASSUME NEW s \in Slots
       PROVE  IF t2[s].adr = NoAddr THEN t2[s] = Free ELSE t2[s].hash = HashOf[t2[s].adr]
  <2>1. CASE s = b
      BY <1>1, <1>3, <1>6, <2>1 DEF h
  <2>2. CASE s # b
    <3>1. IF t[s].adr = NoAddr THEN t[s] = Free ELSE t[s].hash = HashOf[t[s].adr]
        BY DEF Whole
    <3>2. t2[s].adr = t[s].adr /\ t2[s].hash = t[s].hash
        BY <1>7, <2>2 DEF AlikeBut
    <3>3. CASE t[s].adr = NoAddr
      <4>1. s # q
          BY <1>1, <1>12, <3>3 DEF Users
      <4>2. t2[s] \in AnyBucket /\ t[s] \in AnyBucket
          BY <1>1, <1>6 DEF Table
      <4>3. t2[s].next = t[s].next /\ t2[s].prev = t[s].prev
          BY <1>7, <2>2, <4>1
      <4>4. t2[s].lastTime = t[s].lastTime /\ t2[s].burst = t[s].burst
          BY <1>7, <2>2 DEF AlikeBut
      <4>5. t2[s] = t[s]
          BY <3>2, <4>2, <4>3, <4>4 DEF AnyBucket
      <4> QED BY <3>1, <4>5
    <3> QED BY <3>1, <3>2, <3>3
  <2> QED BY <2>1, <2>2
<1>14. ASSUME NEW k \in Hashes
       PROVE  /\ Closed(t2, heads2, k, Users(t2, k))
              /\ \A S \in SUBSET Slots : Closed(t2, heads2, k, S) => Users(t2, k) \subseteq S
              /\ heads2[k] # Null => t2[heads2[k]].prev = Null
  <2>1. Users(t, k) \subseteq Slots /\ b \notin Users(t, k) /\ heads[k] \in Slots \cup {Null}
      BY <1>1, <1>10 DEF Heads
  <2>2. Closed(t2, heads2, k, Users(t2, k))
    <3>1. heads2[k] # Null => heads2[k] \in Users(t2, k)
        BY <1>5, <1>10, <1>11 DEF Closed
    <3>2. ASSUME NEW s \in Users(t2, k), t2[s].next # Null
          PROVE  t2[s].next \in Users(t2, k)
      <4>1. CASE s = b
        <5>1. k = h /\ t2[s].next = q
            BY <1>3, <1>6, <1>10, <2>1, <4>1
        <5> QED BY <1>10, <1>12, <3>2, <5>1
      <4>2. CASE s # b
        <5>1. s \in Users(t, k) /\ t2[s].next = t[s].next
            BY <1>7, <1>10, <2>1, <4>2
        <5> QED BY <1>10, <1>11, <3>2, <5>1 DEF Closed
      <4> QED BY <4>1, <4>2
    <3> QED BY <3>1, <3>2 DEF Closed
  <2>3. ASSUME NEW S \in SUBSET Slots, Closed(t2, heads2, k, S)
        PROVE  Users(t2, k) \subseteq S
    <3>1. k = h => b \in S /\ (q # Null => q \in S)
        BY <1>1, <1>3, <1>5, <1>6, <2>3 DEF Closed
    <3>2. Closed(t, heads, k, S \ {b})
      <4>1. heads[k] # Null => heads[k] \in S \ {b}
          BY <1>5, <1>10, <1>11, <2>1, <2>3, <3>1 DEF Closed, q
      <4>2. ASSUME NEW s \in S \ {b}, t[s].next # Null
            PROVE  t[s].next \in S \ {b}
          BY <1>7, <1>9, <2>3, <4>2 DEF Closed
      <4> QED BY <4>1, <4>2 DEF Closed
    <3>3. Users(t, k) \subseteq S \ {b}
      <4>1. S \ {b} \in SUBSET Slots
          OBVIOUS
      <4> QED BY <3>2, <4>1 DEF Whole
    <3> QED BY <1>10, <3>1, <3>3
  <2>4. ASSUME heads2[k] # Null
        PROVE  t2[heads2[k]].prev = Null
    <3>1. CASE k = h
        BY <1>3, <1>5, <1>6, <3>1
    <3>2. CASE k # h
      <4>1. heads2[k] = heads[k] /\ heads[k] \in Users(t, k) /\ t[heads[k]].prev = Null
          BY <1>5, <1>11, <2>4, <3>2 DEF Closed
      <4>2. heads[k] # q
          BY <1>1, <1>12, <3>2, <4>1 DEF Users
      <4> QED BY <1>7, <2>1, <4>1, <4>2
    <3> QED BY <3>1, <3>2
  <2> QED BY <2>2, <2>3, <2>4
<1>15. ASSUME NEW x \in Slots, NEW y \in Slots
       PROVE  t2[x].next = y <=> t2[y].prev = x
  <2>1. t2[b].next = q /\ t2[b].prev = Null
      BY <1>3, <1>6
  <2>2. \A s \in Slots : t[s].next # q \/ q = Null
      BY <1>1, <1>8, <1>10, <1>12
  <2>3. CASE x = b
      BY <1>1, <1>7, <1>9, <1>12, <2>1, <2>3
  <2>4. CASE x # b /\ y = b
      BY <1>1, <1>7, <1>9, <2>1, <2>4
  <2>5. CASE x # b /\ y # b
      BY <1>1, <1>7, <1>8, <2>2, <2>5
  <2> QED BY <2>3, <2>4, <2>5
<1>16. Whole(t2, heads2)
    BY <1>5, <1>6, <1>13, <1>14, <1>15 DEF Whole
<1> QED BY <1>2, <1>3, <1>6, <1>7, <1>16

\* The walk over a chain visits the buckets of its hash.
LEMMA ChainOfUsers ==
    ASSUME Whole(buckets, bucketHashes), NEW h \in Hashes
    PROVE  OnChain(h) = Users(buckets, h)
<1>1. OnChain(h) = {b \in Slots : \A S \in SUBSET Slots : Closed(buckets, bucketHashes, h, S) => b \in S}
    BY DEF OnChain, Closed
<1>2. Users(buckets, h) \in SUBSET Slots /\ Closed(buckets, bucketHashes, h, Users(buckets, h))
    BY DEF Whole, Users
<1>3. \A S \in SUBSET Slots : Closed(buckets, bucketHashes, h, S) => Users(buckets, h) \subseteq S
    BY DEF Whole
<1> QED BY <1>1, <1>2, <1>3

OneEach(t) == \A b, c \in Slots : t[b].adr = t[c].adr /\ t[b].adr # NoAddr => b = c
TableInv == Whole(buckets, bucketHashes) /\ OneEach(buckets)

\* What SVC_BucketForAddress returns (iw1x.cpp 682-738): the bucket the address has, or one
\* that was free or reclaimable and is now the only bucket of the address, or none.  The
\* other buckets keep their address, their time and their burst.
LEMMA BucketForAddress ==
    ASSUME TableInv, now \in Nat, NEW a \in Addrs, NEW burst
    PROVE  LET t == SVC_BucketForAddress(a, burst)
           IN /\ Whole(t.table, t.heads) /\ OneEach(t.table)
              /\ \/ t.slot = Null /\ t.table = buckets /\ t.heads = bucketHashes
                 \/ t.slot \in Slots /\ t.table = buckets /\ buckets[t.slot].adr = a
                 \/ /\ t.slot \in Usable(burst) /\ AlikeBut(buckets, t.table, t.slot)
                    /\ \A b \in Slots : buckets[b].adr # a
                    /\ t.table[t.slot].adr = a
                    /\ t.table[t.slot].lastTime = now /\ t.table[t.slot].burst = 0
<1> DEFINE t == SVC_BucketForAddress(a, burst)
<1>1. Whole(buckets, bucketHashes) /\ OneEach(buckets)
    BY DEF TableInv
<1>2. CASE Found(a) # {}
  <2> DEFINE b == CHOOSE c \in Found(a) : TRUE
  <2>1. b \in Found(a)
      BY <1>2
  <2>2. t = [slot |-> b, table |-> buckets, heads |-> bucketHashes]
      BY <1>2 DEF SVC_BucketForAddress
  <2> HIDE DEF b
  <2>3. b \in Slots /\ buckets[b].adr = a
      BY <2>1 DEF Found, OnChain
  <2> QED BY <1>1, <2>2, <2>3
<1>3. CASE Found(a) = {} /\ Usable(burst) = {}
  <2>1. t = [slot |-> Null, table |-> buckets, heads |-> bucketHashes]
      BY <1>3 DEF SVC_BucketForAddress
  <2> QED BY <1>1, <2>1
<1>4. CASE Found(a) = {} /\ Usable(burst) # {}
  <2> DEFINE usable == Usable(burst)
             b == CHOOSE x \in usable : \A c \in usable : x <= c
             u == Unlink(b)
  <2>1. t = Link(u, b, a)
      BY <1>4 DEF SVC_BucketForAddress
  <2>2. b \in Usable(burst)
    <3>1. usable \subseteq Nat /\ usable # {}
        BY <1>4 DEF Usable, Slots
    <3> HIDE DEF usable
    <3>2. \E x \in usable : \A c \in usable : x <= c
      <4>1. PICK x \in usable : \A c \in usable : <<c, x>> \notin OpToRel(<, Nat)
          BY <3>1, NatLessThanWellFounded, WFMin
      <4>2. \A c \in usable : ~(c < x)
          BY <3>1, <4>1 DEF OpToRel
      <4> QED
        BY <3>1, <4>2
    <3>3. b \in usable
        BY <3>2
    <3> QED BY <3>3 DEF usable
  <2> HIDE DEF b
  <2>3. b \in Slots
      BY <2>2 DEF Usable
  <2>4. Whole(u.table, u.heads) /\ u.table[b] = Free /\ AlikeBut(buckets, u.table, b)
      BY <1>1, <2>3, UnlinkWhole
  <2>5. u = [table |-> u.table, heads |-> u.heads]
      BY DEF Unlink
  <2> HIDE DEF u, t
  <2>6. /\ Whole(t.table, t.heads) /\ t.slot = b /\ AlikeBut(u.table, t.table, b)
        /\ t.table[b].adr = a /\ t.table[b].lastTime = now /\ t.table[b].burst = 0
      BY <2>1, <2>3, <2>4, <2>5, LinkWhole
  <2>7. \A c \in Slots : buckets[c].adr # a
    <3>1. HashOf[a] \in Hashes
        BY RateLimitAssumption DEF RateLimitAssumption
    <3> QED BY <1>1, <1>4, <3>1, ChainOfUsers DEF Found, Users
  <2>8. AlikeBut(buckets, t.table, b)
      BY <2>4, <2>6 DEF AlikeBut
  <2>9. OneEach(t.table)
    <3>1. \A c \in Slots \ {b} : t.table[c].adr = buckets[c].adr
        BY <2>8 DEF AlikeBut
    <3> QED BY <1>1, <2>3, <2>6, <2>7, <3>1 DEF OneEach
  <2> QED BY <2>2, <2>6, <2>7, <2>8, <2>9 DEF t
<1> QED BY <1>2, <1>3, <1>4

\* No link and no address depends on what a bucket counts.
LEMMA CountWhole ==
    ASSUME NEW t, NEW heads, Whole(t, heads), OneEach(t), NEW b \in Slots, t[b].adr # NoAddr,
           NEW r \in AnyBucket, r.adr = t[b].adr, r.hash = t[b].hash,
           r.next = t[b].next, r.prev = t[b].prev
    PROVE  LET u == [t EXCEPT ![b] = r]
           IN Whole(u, heads) /\ OneEach(u)
<1> DEFINE u == [t EXCEPT ![b] = r]
<1>1. t \in Table /\ heads \in Heads
    BY DEF Whole
<1>2. u \in Table /\ u[b] = r /\ \A s \in Slots \ {b} : u[s] = t[s]
    BY <1>1 DEF Table
<1> HIDE DEF u
<1>3. \A s \in Slots : /\ u[s].adr = t[s].adr /\ u[s].hash = t[s].hash
                       /\ u[s].next = t[s].next /\ u[s].prev = t[s].prev
    BY <1>2
<1>4. \A h \in Hashes : Users(u, h) = Users(t, h) /\ Users(u, h) \in SUBSET Slots
    BY <1>3 DEF Users
<1>5. \A h \in Hashes : \A S \in SUBSET Slots : Closed(u, heads, h, S) <=> Closed(t, heads, h, S)
    BY <1>3 DEF Closed
<1>6. ASSUME NEW h \in Hashes
      PROVE  /\ Closed(u, heads, h, Users(u, h))
             /\ \A S \in SUBSET Slots : Closed(u, heads, h, S) => Users(u, h) \subseteq S
             /\ heads[h] # Null => u[heads[h]].prev = Null
  <2>1. /\ Closed(t, heads, h, Users(t, h))
        /\ \A S \in SUBSET Slots : Closed(t, heads, h, S) => Users(t, h) \subseteq S
        /\ heads[h] # Null => t[heads[h]].prev = Null
      BY DEF Whole
  <2>2. heads[h] \in Slots \cup {Null}
      BY <1>1 DEF Heads
  <2> QED BY <1>3, <1>4, <1>5, <2>1, <2>2
<1>7. \A s \in Slots : IF u[s].adr = NoAddr THEN u[s] = Free ELSE u[s].hash = HashOf[u[s].adr]
  <2>1. \A s \in Slots : IF t[s].adr = NoAddr THEN t[s] = Free ELSE t[s].hash = HashOf[t[s].adr]
      BY DEF Whole
  <2> QED BY <1>2, <1>3, <2>1
<1>8. \A x, y \in Slots : u[x].next = y <=> u[y].prev = x
  <2>1. \A x, y \in Slots : t[x].next = y <=> t[y].prev = x
      BY DEF Whole
  <2> QED BY <1>3, <2>1
<1>9. Whole(u, heads)
    BY <1>1, <1>2, <1>6, <1>7, <1>8 DEF Whole
<1>10. OneEach(u)
    BY <1>3 DEF OneEach
<1> QED BY <1>9, <1>10 DEF u


-------------------------------------------------------------------------------
(* The bucket of an address.                                                *)

\* an AuthBurst request may fill a bucket beyond Burst; the requests limited to Burst
\* find it as full as one of Burst
Held(n) == IF n <= Burst THEN n ELSE Burst
ForBurst(bucket) == [lastTime |-> bucket.lastTime, burst |-> Held(bucket.burst)]

\* a bucket counts no more than the ideal level l of all its requests
Counts(bucket, l) == l >= bucket.burst * Period - (now - bucket.lastTime)

SameLinks(r, b) == r.adr = b.adr /\ r.hash = b.hash /\ r.next = b.next /\ r.prev = b.prev

\* The constants of an address's bucket, whose period is that of the rcon bucket.
LEMMA Bursts ==
    /\ Burst \in Nat \ {0} /\ AuthBurst \in Nat /\ Burst <= AuthBurst /\ HalfInt \in Nat
    /\ Period \in Nat \ {0} /\ (Burst + 1) * Period <= HalfInt
    /\ "rcon" \in Globals /\ PeriodOf("rcon") = Period
    BY RateLimitAssumption DEF RateLimitAssumption, PeriodOf, Globals

\* Leaking empties a bucket or takes off the whole periods of the interval (743-757).
LEMMA LeakedBucket ==
    ASSUME now \in Nat, NEW b \in AnyBucket
    PROVE  LET l == Leaked(b, Period)
               i == Interval(b)
               e == i \div Period
           IN /\ l \in AnyBucket /\ SameLinks(l, b)
              /\ \/ Emptied(b, Period) /\ l.burst = 0 /\ l.lastTime = now
                 \/ /\ ~Emptied(b, Period) /\ i \in Nat
                    /\ e \in Nat /\ i % Period \in 0..Period - 1 /\ i = Period * e + (i % Period)
                    /\ e <= b.burst /\ l.burst = b.burst - e /\ l.lastTime = now - (i % Period)
<1> DEFINE l == Leaked(b, Period)
           i == Interval(b)
           e == i \div Period
<1>1. /\ b.lastTime \in Int /\ b.burst \in 0..AuthBurst /\ AuthBurst \in Nat /\ Period \in Nat \ {0}
    BY Bursts DEF AnyBucket
<1>2. CASE Emptied(b, Period)
  <2>1. l = [b EXCEPT !.burst = 0, !.lastTime = now]
      BY <1>2 DEF Leaked
  <2> DEFINE half == [b EXCEPT !.burst = 0]
  <2>2. l = [half EXCEPT !.lastTime = now]
      BY <2>1 DEF AnyBucket
  <2>3. 0 \in 0..AuthBurst /\ now \in Int
      BY <1>1
  <2>4. half \in AnyBucket /\ SameLinks(half, b) /\ half.burst = 0
      BY <2>3 DEF AnyBucket, SameLinks
  <2> HIDE DEF l, half
  <2>5. l \in AnyBucket /\ SameLinks(l, b) /\ l.burst = 0 /\ l.lastTime = now
      BY <2>2, <2>3, <2>4 DEF AnyBucket, SameLinks
  <2> QED BY <1>2, <2>5 DEF l
<1>3. CASE ~Emptied(b, Period)
  <2>1. i \in Nat /\ e <= b.burst
    <3>1. i \in Int
        BY <1>1, Truncated DEF Interval
    <3> QED BY <1>1, <1>3, <3>1, DivMod DEF Emptied, Expired
  <2> HIDE DEF i
  <2>2. e \in Nat /\ i % Period \in 0..Period - 1 /\ i = Period * e + (i % Period)
      BY <1>1, <2>1, DivMod
  <2>3. l = [b EXCEPT !.burst = @ - e, !.lastTime = now - (i % Period)]
      BY <1>3 DEF Leaked, Expired, i
  <2> DEFINE n == b.burst - e
             last == now - (i % Period)
  <2>4. n \in 0..AuthBurst /\ last \in Int
      BY <1>1, <2>1, <2>2
  <2>5. l = [b EXCEPT !.burst = n, !.lastTime = last]
      BY <2>3 DEF AnyBucket
  <2> HIDE DEF l, e, n, last
  <2>6. l \in AnyBucket /\ SameLinks(l, b) /\ l.burst = n /\ l.lastTime = last
      BY <2>4, <2>5 DEF AnyBucket, SameLinks
  <2> QED BY <1>3, <2>1, <2>2, <2>6 DEF l, e, n, last, i
<1> QED BY <1>2, <1>3

\* A request is counted if the leaked bucket has room for it (759-766).
LEMMA LimitedBucket ==
    ASSUME now \in Nat, NEW b \in AnyBucket, NEW burst \in {Burst, AuthBurst}
    PROVE  LET l == Leaked(b, Period)
               r == SVC_RateLimit(b, burst, Period)
           IN /\ r.bucket \in AnyBucket /\ SameLinks(r.bucket, b)
              /\ r.bucket.lastTime = l.lastTime
              /\ \/ r.limited /\ l.burst >= burst /\ r.bucket.burst = l.burst
                 \/ ~r.limited /\ l.burst < burst /\ r.bucket.burst = l.burst + 1
<1> DEFINE l == Leaked(b, Period)
           r == SVC_RateLimit(b, burst, Period)
<1>1. l \in AnyBucket /\ SameLinks(l, b)
    BY LeakedBucket
<1> HIDE DEF l
<1>2. l.burst \in 0..AuthBurst /\ burst \in Nat /\ burst <= AuthBurst
    BY <1>1, Bursts DEF AnyBucket
<1>3. CASE l.burst < burst
  <2>1. r = [limited |-> FALSE, bucket |-> [l EXCEPT !.burst = @ + 1]]
      BY <1>3 DEF SVC_RateLimit, l
  <2> DEFINE v == [l EXCEPT !.burst = @ + 1]
  <2>2. l.burst + 1 \in 0..AuthBurst
      BY <1>2, <1>3, Bursts
  <2>3. v \in AnyBucket /\ SameLinks(v, b) /\ v.lastTime = l.lastTime /\ v.burst = l.burst + 1
      BY <1>1, <2>2 DEF AnyBucket, SameLinks
  <2> HIDE DEF v
  <2>4. r.bucket = v /\ ~r.limited
      BY <2>1 DEF v
  <2> QED BY <1>3, <2>3, <2>4 DEF l
<1>4. CASE ~(l.burst < burst)
  <2>1. r = [limited |-> TRUE, bucket |-> l]
      BY <1>4 DEF SVC_RateLimit, l
  <2> HIDE DEF r
  <2> QED BY <1>1, <1>2, <1>4, <2>1 DEF l, r
<1> QED BY <1>3, <1>4

\* A bucket that its time empties, or that may be reclaimed because its time is past or not
\* yet come, holds no ideal level any more, or less than a request (701, 748).
LEMMA EmptiedForBurst ==
    ASSUME now \in Nat, NEW b \in AnyBucket, NEW l \in Nat, Covers(ForBurst(b), l, Period)
    PROVE  /\ Emptied(b, Period) => l = 0
           /\ now < b.lastTime \/ now - b.lastTime >= HalfInt => l = 0
           /\ Interval(b) < 0 \/ Interval(b) > Burst * Period => l <= Period
<1> DEFINE c == ForBurst(b)
<1>1. /\ b.lastTime \in Int /\ b.burst \in Nat /\ Held(b.burst) \in 0..Burst /\ Held(b.burst) <= b.burst
      /\ Burst \in Nat /\ HalfInt \in Nat /\ Period \in Nat \ {0}
    BY Bursts DEF AnyBucket, Held
<1>2. c \in GlobalBucket /\ c.lastTime = b.lastTime /\ c.burst = Held(b.burst)
    BY <1>1 DEF ForBurst, GlobalBucket
<1> HIDE DEF c
<1>3. Interval(c) = Interval(b) /\ Interval(b) \in Int
    BY <1>1, <1>2, Truncated DEF Interval
<1>4. Emptied(c, Period) \/ now < c.lastTime \/ now - c.lastTime >= HalfInt => l = 0
    BY <1>2, Bursts, EmptiedInTime DEF c
<1>5. ASSUME Emptied(b, Period) PROVE Emptied(c, Period)
  <2>1. CASE Interval(b) < 0
      BY <1>3, <2>1 DEF Emptied
  <2>2. CASE ~(Interval(b) < 0)
    <3>1. Expired(b, Period) > b.burst /\ Expired(c, Period) = Expired(b, Period)
          /\ Expired(b, Period) \in Int
        BY <1>1, <1>3, <1>5, <2>2, DivMod DEF Emptied, Expired
    <3> QED BY <1>1, <1>2, <3>1 DEF Emptied
  <2> QED BY <2>1, <2>2
<1>6. ASSUME Interval(b) > Burst * Period, now >= b.lastTime, now - b.lastTime < HalfInt
      PROVE  l <= Period
  <2>1. Interval(b) = now - b.lastTime
      BY <1>1, <1>6, Truncated DEF Interval
  <2>2. l = 0 \/ l <= (c.burst + 1) * Period - (now - b.lastTime)
      BY <1>1, <1>2, <1>6 DEF Covers, c
  <2>3. (c.burst + 1) * Period <= (Burst + 1) * Period /\ (Burst + 1) * Period = Burst * Period + 1 * Period
        /\ (c.burst + 1) * Period \in Int /\ Burst * Period \in Int
      BY <1>1, <1>2, Multiples
  <2> QED BY <1>1, <1>6, <2>1, <2>2, <2>3
<1>7. Interval(b) < 0 => Emptied(b, Period)
    BY DEF Emptied
<1> QED BY <1>1, <1>2, <1>4, <1>5, <1>6, <1>7

\* A request keeps the cover of the requests of its address limited to Burst.
LEMMA StrictCovered ==
    ASSUME now \in Nat, NEW b \in AnyBucket, NEW l \in Nat, Covers(ForBurst(b), l, Period),
           NEW burst \in {Burst, AuthBurst}
    PROVE  LET r == SVC_RateLimit(b, burst, Period)
           IN Covers(ForBurst(r.bucket),
                     IF r.limited \/ burst # Burst THEN l ELSE l + Period, Period)
<1> DEFINE k == Leaked(b, Period)
           r == SVC_RateLimit(b, burst, Period)
           i == Interval(b)
           e == i \div Period
           d == now - k.lastTime
<1>1. /\ Burst \in Nat \ {0} /\ Period \in Nat \ {0} /\ AuthBurst \in Nat /\ Burst <= AuthBurst
      /\ b.lastTime \in Int /\ b.burst \in Nat
    BY Bursts DEF AnyBucket
<1>2. /\ k \in AnyBucket
      /\ \/ Emptied(b, Period) /\ k.burst = 0 /\ k.lastTime = now
         \/ /\ ~Emptied(b, Period) /\ i \in Nat
            /\ e \in Nat /\ i % Period \in 0..Period - 1 /\ i = Period * e + (i % Period)
            /\ e <= b.burst /\ k.burst = b.burst - e /\ k.lastTime = now - (i % Period)
    BY LeakedBucket
<1>3. /\ r.bucket.lastTime = k.lastTime
      /\ \/ r.limited /\ k.burst >= burst /\ r.bucket.burst = k.burst
         \/ ~r.limited /\ k.burst < burst /\ r.bucket.burst = k.burst + 1
    BY LimitedBucket
<1> HIDE DEF k, r, i, e
<1>4. k.lastTime \in Int /\ k.burst \in Nat
    BY <1>2 DEF AnyBucket
\* the leaked bucket covers the level
<1>5. d \in 0..Period - 1 /\ (l = 0 \/ l <= (Held(k.burst) + 1) * Period - d)
  <2>1. CASE Emptied(b, Period)
      BY <1>1, <1>2, <2>1, EmptiedForBurst
  <2>2. CASE ~Emptied(b, Period)
    <3>1. l = 0 \/ l <= (Held(b.burst) + 1) * Period - i
      <4>1. CASE now < b.lastTime \/ now - b.lastTime >= HalfInt
          BY <4>1, EmptiedForBurst
      <4>2. CASE ~(now < b.lastTime \/ now - b.lastTime >= HalfInt)
        <5>1. i = now - b.lastTime
            BY <1>1, <4>2, Truncated, Bursts DEF Interval, i
        <5> QED BY <1>1, <4>2, <5>1 DEF Covers, ForBurst
      <4> QED BY <4>1, <4>2
    <3>2. Held(b.burst) + 1 <= (Held(k.burst) + 1) + e /\ Held(b.burst) \in Nat /\ Held(k.burst) \in Nat
        BY <1>1, <1>2, <1>4, <2>2 DEF Held
    <3> DEFINE m == Held(b.burst) + 1
               n == Held(k.burst) + 1
    <3>3. m \in Nat /\ n \in Nat /\ e \in Nat /\ m <= n + e
        BY <1>2, <2>2, <3>2
    <3> HIDE DEF m, n
    <3>4. m * Period <= n * Period + Period * e /\ m * Period \in Int /\ n * Period \in Int
      <4>1. m * Period <= (n + e) * Period /\ (n + e) * Period = n * Period + e * Period
            /\ Period * e = e * Period
          BY <1>1, <3>3, Multiples
      <4> QED BY <1>1, <3>3, <4>1
    <3>5. d = i % Period /\ i % Period \in 0..Period - 1 /\ i = Period * e + (i % Period)
          /\ Period * e \in Int
        BY <1>1, <1>2, <2>2
    <3>6. l = 0 \/ l <= m * Period - i
        BY <3>1 DEF m
    <3>7. l = 0 \/ l <= n * Period - d
        BY <1>1, <3>4, <3>5, <3>6
    <3> QED BY <3>5, <3>7 DEF n
  <2> QED BY <2>1, <2>2
<1>6. now >= k.lastTime /\ now >= r.bucket.lastTime /\ now - r.bucket.lastTime = d
    BY <1>1, <1>3, <1>4, <1>5
<1> HIDE DEF d
<1> DEFINE n == Held(k.burst) + 1
<1>7. n \in Nat /\ n * Period \in Int /\ (n + 1) * Period = n * Period + 1 * Period
      /\ 1 * Period <= n * Period
  <2>1. n \in Nat /\ 1 <= n
      BY <1>1, <1>4 DEF Held
  <2> HIDE DEF n
  <2> QED BY <1>1, <2>1, Multiples
<1>8. d \in Nat /\ d <= Period
    BY <1>1, <1>5
<1>9. CASE r.limited
  <2>1. Covers(ForBurst(r.bucket), l, Period)
      BY <1>3, <1>4, <1>5, <1>6, <1>9 DEF Covers, ForBurst
  <2> QED BY <1>9, <2>1 DEF r
<1>10. CASE ~r.limited /\ burst # Burst
  <2>1. Held(r.bucket.burst) + 1 = n \/ Held(r.bucket.burst) + 1 = n + 1
      BY <1>1, <1>3, <1>4, <1>10 DEF Held
  <2> HIDE DEF n
  <2>2. l = 0 \/ l <= (Held(r.bucket.burst) + 1) * Period - d
      BY <1>1, <1>5, <1>7, <1>8, <2>1 DEF n
  <2>3. Covers(ForBurst(r.bucket), l, Period)
      BY <1>3, <1>4, <1>6, <2>2 DEF Covers, ForBurst
  <2> QED BY <1>10, <2>3 DEF r
<1>11. CASE ~r.limited /\ burst = Burst
  <2>1. Held(r.bucket.burst) + 1 = n + 1
      BY <1>1, <1>3, <1>4, <1>11 DEF Held
  <2>2. l = 0 \/ l <= n * Period - d
      BY <1>5
  <2> HIDE DEF n
  <2>3. l + Period <= (n + 1) * Period - d
      BY <1>1, <1>7, <1>8, <2>2
  <2>4. Covers(ForBurst(r.bucket), l + Period, Period)
      BY <1>3, <1>4, <1>6, <2>1, <2>3 DEF Covers, ForBurst
  <2> QED BY <1>11, <2>4 DEF r
<1> QED BY <1>9, <1>10, <1>11

\* The part of an interval that is kept does not date a bucket before the first reading.
LEMMA KeptDate ==
    ASSUME now \in Nat, NEW last \in 0..now, NEW p \in Nat \ {0}, Truncate(now - last) >= 0
    PROVE  now - (Truncate(now - last) % p) \in 0..now
<1> DEFINE d == now - last
           i == Truncate(d)
<1>1. d \in 0..now /\ HalfInt \in Nat /\ 1 * Period <= (Burst + 1) * Period /\ HalfInt > 0
  <2>1. 1 * Period <= (Burst + 1) * Period /\ (Burst + 1) * Period \in Int
      BY Bursts, Multiples
  <2> QED BY <2>1, Bursts
<1>2. i \in Nat /\ i <= d
  <2>1. i \in Int
      BY <1>1, Truncated
  <2> DEFINE w == 2 * HalfInt
  <2>2. w \in Nat \ {0}
      BY <1>1
  <2>3. d % w <= d /\ d % w \in Nat
    <3>1. /\ d \div w \in Nat /\ d % w \in 0..w - 1
          /\ d = w * (d \div w) + (d % w)
      <4>1. d \in Nat
          BY <1>1
      <4> HIDE DEF d, w
      <4> QED BY <2>2, <4>1, DivMod
    <3> HIDE DEF d, w
    <3>2. w * (d \div w) >= 0 /\ w * (d \div w) \in Int
        BY <2>2, <3>1
    <3> QED BY <1>1, <2>2, <3>1, <3>2
  <2>4. i = d % w \/ i = (d % w) - w
      BY DEF Truncate
  <2> HIDE DEF w, d, i
  <2>5. i >= 0
      BY DEF i, d
  <2> QED BY <1>1, <2>1, <2>2, <2>3, <2>4, <2>5
<1> HIDE DEF d, i
<1>3. i % p \in 0..i
    BY <1>2, SMT
<1> QED BY <1>1, <1>2, <1>3 DEF i, d

\* Until 2^32 ms have passed every interval of a bucket is its own or negative as an int,
\* so that a bucket, leaked, counts no more than the ideal level.
LEMMA LeakedCounts ==
    ASSUME now \in Nat, now < 2 * HalfInt, NEW b \in AnyBucket, b.lastTime \in 0..now,
           NEW l \in Nat, Counts(b, l)
    PROVE  LET k == Leaked(b, Period)
           IN Counts(k, l) /\ now - k.lastTime \in 0..Period - 1
<1> DEFINE k == Leaked(b, Period)
           i == Interval(b)
           e == i \div Period
           d == now - b.lastTime
<1>1. Period \in Nat \ {0} /\ b.burst \in Nat /\ d \in Nat /\ HalfInt \in Nat /\ d < 2 * HalfInt
    BY Bursts DEF AnyBucket
<1>2. /\ k \in AnyBucket
      /\ \/ Emptied(b, Period) /\ k.burst = 0 /\ k.lastTime = now
         \/ /\ ~Emptied(b, Period) /\ i \in Nat
            /\ e \in Nat /\ i % Period \in 0..Period - 1 /\ i = Period * e + (i % Period)
            /\ e <= b.burst /\ k.burst = b.burst - e /\ k.lastTime = now - (i % Period)
    BY LeakedBucket
<1> HIDE DEF k, e
<1>3. CASE Emptied(b, Period)
    BY <1>1, <1>2, <1>3 DEF Counts, k
<1>4. CASE ~Emptied(b, Period)
  <2>1. i = d
    <3>1. i >= 0 /\ i = Truncate(d)
        BY <1>2, <1>4 DEF Interval
    <3> HIDE DEF i, d
    <3>2. d % (2 * HalfInt) = d
        BY <1>1, SMT
    <3> QED BY <1>1, <3>1, <3>2 DEF Truncate
  <2> HIDE DEF i, d
  <2>2. (b.burst - e) * Period = b.burst * Period - e * Period /\ Period * e = e * Period
        /\ b.burst * Period \in Int /\ e * Period \in Int
    <3>1. e \in Int /\ b.burst \in Int /\ Period \in Nat
        BY <1>1, <1>2, <1>4
    <3> QED BY <3>1, Multiples
  <2>3. l >= b.burst * Period - d
      BY DEF Counts, d
  <2>4. now - k.lastTime = i % Period /\ k.burst * Period = b.burst * Period - e * Period
      BY <1>1, <1>2, <1>4, <2>2
  <2>5. l >= k.burst * Period - (now - k.lastTime)
      BY <1>1, <1>2, <1>4, <2>1, <2>2, <2>3, <2>4
  <2> QED BY <1>2, <1>4, <2>4, <2>5 DEF Counts, k
<1> QED BY <1>3, <1>4

-------------------------------------------------------------------------------
(* The levels of the addresses.                                             *)

StrictInv ==
    \A a \in Addrs :
        /\ \A b \in Slots : buckets[b].adr = a =>
              Covers(ForBurst(buckets[b]), level.strict[a], Period)
        /\ (\A b \in Slots : buckets[b].adr # a) => level.strict[a] <= Period

DatesInv ==
    /\ \A b \in Slots : buckets[b].lastTime \in 0..now
    /\ \A g \in Globals : global[g].lastTime \in 0..now

CountInv ==
    now < 2 * HalfInt =>
        \A b \in Slots : buckets[b].adr # NoAddr => Counts(buckets[b], level.all[buckets[b].adr])

AddressInv ==
    /\ now <= MaxTime /\ TableInv /\ StrictInv
    /\ ~ClockStepsBack => DatesInv /\ CountInv

\* What a request does to the table and the levels of the addresses: nothing, or it is
\* counted in or refused by the bucket its address has or gets.
LEMMA RequestEffect ==
    ASSUME TypeGlobals, TableInv, NEW a \in Addrs, NEW burst \in {Burst, AuthBurst},
           NEW asks, NEW period, Request(a, burst, asks, period)
    PROVE  /\ TableInv' /\ now' = now
           /\ \/ /\ UNCHANGED buckets
                 /\ level'.strict = level.strict /\ level'.all = level.all
              \/ \E b \in Slots, old \in AnyBucket :
                    LET r == SVC_RateLimit(old, burst, Period)
                    IN /\ \/ old = buckets[b]
                          \/ /\ b \in Usable(burst) /\ \A c \in Slots : buckets[c].adr # a
                             /\ old.lastTime = now /\ old.burst = 0
                       /\ old.adr = a
                       /\ buckets'[b] = r.bucket /\ AlikeBut(buckets, buckets', b)
                       /\ level'.strict = IF r.limited \/ burst # Burst THEN level.strict
                                          ELSE [level.strict EXCEPT ![a] = @ + Period]
                       /\ level'.all = IF r.limited THEN level.all
                                       ELSE [level.all EXCEPT ![a] = @ + Period]
<1> DEFINE t == SVC_BucketForAddress(a, burst)
           r == SVC_RateLimit(t.table[t.slot], burst, Period)
           new == Counted(a, burst)
<1>1. /\ Whole(t.table, t.heads) /\ OneEach(t.table)
      /\ \/ t.slot = Null /\ t.table = buckets /\ t.heads = bucketHashes
         \/ t.slot \in Slots /\ t.table = buckets /\ buckets[t.slot].adr = a
         \/ /\ t.slot \in Usable(burst) /\ AlikeBut(buckets, t.table, t.slot)
            /\ \A b \in Slots : buckets[b].adr # a
            /\ t.table[t.slot].adr = a
            /\ t.table[t.slot].lastTime = now /\ t.table[t.slot].burst = 0
    BY BucketForAddress DEF TypeGlobals
<1>2. level \in Levels /\ now \in Nat /\ now' = now
    BY DEF TypeGlobals, Request
<1>3. /\ new \in Levels
      /\ new.strict = [level.strict EXCEPT ![a] = IF burst = Burst THEN @ + Period ELSE @]
      /\ new.all = [level.all EXCEPT ![a] = @ + Period]
    BY <1>2, CountedLevels
<1>4. new.strict = IF burst # Burst THEN level.strict ELSE [level.strict EXCEPT ![a] = @ + Period]
    BY <1>2, <1>3 DEF Levels
<1>5. \A g, x : [new EXCEPT !.global[g] = x].strict = new.strict
                /\ [new EXCEPT !.global[g] = x].all = new.all
  <2> HIDE DEF new
  <2> QED BY <1>3 DEF Levels
<1> DEFINE out == IF t.slot = Null THEN [limited |-> TRUE] ELSE r
<1>6. /\ bucketHashes' = t.heads
      /\ buckets' = IF t.slot = Null THEN t.table ELSE [t.table EXCEPT ![t.slot] = out.bucket]
      /\ \/ out.limited /\ UNCHANGED level
         \/ ~out.limited /\ level'.strict = new.strict /\ level'.all = new.all
  <2> HIDE DEF t, new
  <2>1. /\ bucketHashes' = t.heads
        /\ buckets' = IF t.slot = Null THEN t.table ELSE [t.table EXCEPT ![t.slot] = out.bucket]
        /\ \/ out.limited /\ UNCHANGED <<global, level>>
           \/ ~out.limited /\ asks = {} /\ level' = new /\ UNCHANGED global
           \/ /\ ~out.limited
              /\ \E g \in asks : \E o \in {SVC_RateLimit(global[g], Burst, period)} :
                   level' = IF o.limited THEN new ELSE [new EXCEPT !.global[g] = @ + period]
      BY DEF Request, t, new
  <2>2. CASE out.limited /\ UNCHANGED level
      BY <2>1, <2>2
  <2>3. CASE ~out.limited /\ level' = new
      BY <2>1, <2>3
  <2>4. ASSUME ~out.limited, NEW g, NEW x, level' = [new EXCEPT !.global[g] = x]
        PROVE  ~out.limited /\ level'.strict = new.strict /\ level'.all = new.all
      BY <1>5, <2>4
  <2>5. CASE ~out.limited /\ \E g \in asks : \E o \in {SVC_RateLimit(global[g], Burst, period)} :
                   level' = IF o.limited THEN new ELSE [new EXCEPT !.global[g] = @ + period]
    <3>1. PICK g \in asks : \E o \in {SVC_RateLimit(global[g], Burst, period)} :
                   level' = IF o.limited THEN new ELSE [new EXCEPT !.global[g] = @ + period]
        BY <2>5
    <3> DEFINE x == new.global[g] + period
    <3>2. level' = new \/ level' = [new EXCEPT !.global[g] = x]
        BY <3>1
    <3> HIDE DEF x, out
    <3> QED BY <2>1, <2>3, <2>4, <2>5, <3>2
  <2> HIDE DEF out
  <2> QED BY <2>1, <2>2, <2>3, <2>5
<1> HIDE DEF t, new
<1>7. CASE t.slot = Null
  <2>1. Null \notin Slots
      BY SlotsNotNull
  <2>2. t.table = buckets /\ t.heads = bucketHashes /\ out = [limited |-> TRUE]
      BY <1>1, <1>7, <2>1 DEF Usable
  <2>3. UNCHANGED <<buckets, bucketHashes, level>>
      BY <1>6, <1>7, <2>2
  <2>4. TableInv'
      BY <2>3 DEF TableInv, Whole, OneEach, Closed, Users
  <2> QED BY <1>2, <2>3, <2>4
<1>8. CASE t.slot # Null
  <2> DEFINE b == t.slot
             old == t.table[b]
  <2>1. b \in Slots /\ old.adr = a /\ old.adr # NoAddr
      BY <1>1, <1>8, RateLimitAssumption DEF RateLimitAssumption, Usable
  <2>2. old \in AnyBucket /\ t.table \in Table
      BY <1>1, <2>1 DEF Whole, Table
  <2>3. r.bucket \in AnyBucket /\ SameLinks(r.bucket, old)
      BY <1>2, <2>2, LimitedBucket
  <2>4. out = r
      BY <1>8
  <2> HIDE DEF out, r
  <2>5. buckets' = [t.table EXCEPT ![b] = r.bucket] /\ bucketHashes' = t.heads
      BY <1>6, <1>8, <2>4
  <2>6. Whole([t.table EXCEPT ![b] = r.bucket], t.heads) /\ OneEach([t.table EXCEPT ![b] = r.bucket])
      BY <1>1, <2>1, <2>3, CountWhole DEF SameLinks
  <2>7. TableInv'
      BY <2>5, <2>6 DEF TableInv, Whole, OneEach, Closed, Users
  <2>8. buckets'[b] = r.bucket /\ AlikeBut(buckets, buckets', b)
    <3>1. AlikeBut(buckets, t.table, b)
        BY <1>1, <1>8 DEF AlikeBut
    <3>2. buckets'[b] = r.bucket /\ \A s \in Slots \ {b} : buckets'[s] = t.table[s]
        BY <2>1, <2>2, <2>5 DEF Table
    <3> QED BY <3>1, <3>2 DEF AlikeBut
  <2>9. \/ old = buckets[b]
        \/ /\ b \in Usable(burst) /\ \A c \in Slots : buckets[c].adr # a
           /\ old.lastTime = now /\ old.burst = 0
      BY <1>1, <1>8
  <2>10. /\ level'.strict = IF r.limited \/ burst # Burst THEN level.strict
                            ELSE [level.strict EXCEPT ![a] = @ + Period]
         /\ level'.all = IF r.limited THEN level.all ELSE [level.all EXCEPT ![a] = @ + Period]
      BY <1>3, <1>4, <1>6, <2>4
  <2> HIDE DEF b, old
  <2>11. r = SVC_RateLimit(old, burst, Period)
      BY DEF r, old, b
  <2> QED BY <1>2, <2>1, <2>2, <2>7, <2>8, <2>9, <2>10, <2>11
<1> QED BY <1>7, <1>8

\* A table without buckets in use is whole.
LEMMA InitAddressInv == Init => AddressInv
<1> SUFFICES ASSUME Init
             PROVE  AddressInv
    OBVIOUS
<1>1. /\ now \in 0..1 /\ level = ZeroLevels /\ buckets = [i \in Slots |-> Free]
      /\ bucketHashes = [h \in Hashes |-> Null]
      /\ global = [g \in Globals |-> [lastTime |-> 0, burst |-> 0]]
    BY DEF Init
<1>2. /\ Free \in AnyBucket /\ Free.adr = NoAddr /\ Free.next = Null /\ Free.prev = Null
      /\ Free.lastTime = 0 /\ NoAddr \notin Addrs /\ Null \notin Slots
      /\ MaxTime \in Nat \ {0} /\ Period \in Nat
    BY FreeBucket, SlotsNotNull, RateLimitAssumption DEF RateLimitAssumption, Free
<1>3. \A b \in Slots : buckets[b] = Free
    BY <1>1
<1>4. \A h \in Hashes : Users(buckets, h) = {} /\ bucketHashes[h] = Null
    BY <1>1, <1>2, <1>3 DEF Users
<1>5. buckets \in Table /\ bucketHashes \in Heads
    BY <1>1, <1>2 DEF Table, Heads
<1> HIDE DEF Free
<1>6. Whole(buckets, bucketHashes)
    BY <1>2, <1>3, <1>4, <1>5 DEF Whole, Closed
<1>7. OneEach(buckets)
    BY <1>2, <1>3 DEF OneEach
<1>8. StrictInv
    BY <1>1, <1>2, <1>3 DEF StrictInv, ZeroLevels
<1>9. DatesInv /\ CountInv
    BY <1>1, <1>2, <1>3 DEF DatesInv, CountInv
<1> QED
    BY <1>1, <1>2, <1>6, <1>7, <1>8, <1>9 DEF AddressInv, TableInv

\* A global bucket is dated when it is asked or before.
LEMMA GlobalDated ==
    ASSUME now \in Nat, NEW g \in Globals, NEW b \in GlobalBucket, b.lastTime \in 0..now
    PROVE  SVC_RateLimit(b, Burst, PeriodOf(g)).bucket.lastTime \in 0..now
<1> DEFINE p == PeriodOf(g)
           k == Leaked(b, p)
           last == now - (Interval(b) % p)
<1>1. p \in Nat \ {0} /\ b = [lastTime |-> b.lastTime, burst |-> b.burst]
    BY Periods DEF GlobalBucket
<1>2. k.lastTime \in 0..now /\ k = [lastTime |-> k.lastTime, burst |-> k.burst]
  <2>1. CASE Emptied(b, p)
    <3>1. k = [lastTime |-> now, burst |-> 0]
        BY <1>1, <2>1 DEF Leaked
    <3> HIDE DEF k
    <3> QED BY <3>1
  <2>2. CASE ~Emptied(b, p)
    <3>1. k = [lastTime |-> last, burst |-> b.burst - Expired(b, p)]
        BY <1>1, <2>2 DEF Leaked
    <3>2. last \in 0..now
      <4>1. Truncate(now - b.lastTime) \in Int /\ Interval(b) = Truncate(now - b.lastTime)
          BY Truncated DEF Interval
      <4>2. Truncate(now - b.lastTime) >= 0
          BY <2>2, <4>1 DEF Emptied
      <4> HIDE DEF p
      <4> QED BY <1>1, <4>1, <4>2, KeptDate
    <3> HIDE DEF k, last
    <3> QED BY <3>1, <3>2
  <2> QED BY <2>1, <2>2
<1> HIDE DEF k
<1>3. CASE k.burst < Burst
  <2>1. SVC_RateLimit(b, Burst, p).bucket = [k EXCEPT !.burst = @ + 1]
      BY <1>3 DEF SVC_RateLimit, k
  <2>2. [k EXCEPT !.burst = @ + 1].lastTime = k.lastTime
      BY <1>2
  <2> QED BY <1>2, <2>1, <2>2
<1>4. CASE ~(k.burst < Burst)
    BY <1>2, <1>4 DEF SVC_RateLimit, k
<1> QED BY <1>3, <1>4

\* The levels of the addresses stay covered by a request of any of them.
LEMMA RequestKeepsAddressInv ==
    ASSUME IInv, AddressInv, NEW a \in Addrs, NEW burst \in {Burst, AuthBurst},
           NEW asks, NEW period,
           asks = {} \/ \E g \in Globals : asks = {g} /\ period = PeriodOf(g),
           Request(a, burst, asks, period)
    PROVE  AddressInv'
<1>1. /\ TypeGlobals /\ TableInv /\ now \in Nat /\ level \in Levels /\ now <= MaxTime
      /\ buckets \in Table
    BY DEF IInv, AddressInv, TypeGlobals, TableInv, Whole
<1>2. TableInv' /\ now' = now
    BY <1>1, RequestEffect
<1>3. /\ Period \in Nat \ {0} /\ Burst \in Nat /\ AuthBurst \in Nat /\ Burst <= AuthBurst
      /\ NoAddr \notin Addrs /\ Null \notin Slots /\ HalfInt \in Nat
    BY Bursts, SlotsNotNull, RateLimitAssumption DEF RateLimitAssumption
<1>4. /\ level.strict \in [Addrs -> Nat] /\ level.all \in [Addrs -> Nat]
      /\ \A s \in Slots : buckets[s] \in AnyBucket
    BY <1>1 DEF Levels, Table
<1>5. ~ClockStepsBack => \A g \in Globals : global'[g].lastTime \in 0..now'
  <2> SUFFICES ASSUME ~ClockStepsBack, NEW h \in Globals
               PROVE  global'[h].lastTime \in 0..now
      BY <1>2
  <2>1. global \in [Globals -> GlobalBucket] /\ \A g \in Globals : global[g].lastTime \in 0..now
      BY <1>1 DEF TypeGlobals, AddressInv, DatesInv
  <2>2. UNCHANGED global \/ \E g \in asks : \E o \in {SVC_RateLimit(global[g], Burst, period)} :
                                global' = [global EXCEPT ![g] = o.bucket]
      BY DEF Request
  <2>3. CASE UNCHANGED global
      BY <2>1, <2>3
  <2>4. CASE \E g \in asks : \E o \in {SVC_RateLimit(global[g], Burst, period)} :
                                global' = [global EXCEPT ![g] = o.bucket]
    <3>1. PICK g \in asks : global' = [global EXCEPT ![g] = SVC_RateLimit(global[g], Burst, period).bucket]
        BY <2>4
    <3>2. g \in Globals /\ period = PeriodOf(g)
        BY <3>1
    <3>3. SVC_RateLimit(global[g], Burst, period).bucket.lastTime \in 0..now
        BY <1>1, <2>1, <3>2, GlobalDated
    <3>4. global'[h] = global[h] \/ (h = g /\ global'[h] = SVC_RateLimit(global[g], Burst, period).bucket)
        BY <2>1, <3>1, <3>2
    <3> QED BY <2>1, <3>3, <3>4
  <2> QED BY <2>2, <2>3, <2>4
<1>6. CASE UNCHANGED buckets /\ level'.strict = level.strict /\ level'.all = level.all
  <2>1. StrictInv'
      BY <1>2, <1>6 DEF AddressInv, StrictInv, Covers
  <2>2. ~ClockStepsBack => DatesInv' /\ CountInv'
      BY <1>2, <1>5, <1>6 DEF AddressInv, DatesInv, CountInv, Counts
  <2> QED BY <1>1, <1>2, <2>1, <2>2 DEF AddressInv
<1>7. ASSUME NEW b \in Slots, NEW old \in AnyBucket, NEW r, r = SVC_RateLimit(old, burst, Period),
             \/ old = buckets[b]
             \/ /\ b \in Usable(burst) /\ \A c \in Slots : buckets[c].adr # a
                /\ old.lastTime = now /\ old.burst = 0,
             old.adr = a, buckets'[b] = r.bucket, AlikeBut(buckets, buckets', b),
             level'.strict = IF r.limited \/ burst # Burst THEN level.strict
                             ELSE [level.strict EXCEPT ![a] = @ + Period],
             level'.all = IF r.limited THEN level.all ELSE [level.all EXCEPT ![a] = @ + Period]
      PROVE  AddressInv'
  <2>1. r.bucket \in AnyBucket /\ r.bucket.adr = a
      BY <1>1, <1>7, LimitedBucket DEF SameLinks
  <2>2. \A s \in Slots \ {b} : /\ buckets'[s].adr = buckets[s].adr
                               /\ buckets'[s].lastTime = buckets[s].lastTime
                               /\ buckets'[s].burst = buckets[s].burst
      BY <1>7 DEF AlikeBut
  \* a has no other bucket, before or after
  <2>3. \A s \in Slots \ {b} : buckets[s].adr # a /\ buckets'[s].adr # a
    <3>1. \A s \in Slots : buckets'[s].adr = buckets'[b].adr /\ buckets'[s].adr # NoAddr => s = b
        BY <1>2 DEF TableInv, OneEach
    <3> QED BY <1>3, <1>7, <2>1, <2>2, <3>1
  \* the bucket was of a, or of nobody, or of an address whose level had leaked away
  <2>4. ASSUME NEW c \in Addrs \ {a}, buckets[b].adr = c
        PROVE  level.strict[c] <= Period
    <3>1. b \in Usable(burst) /\ buckets[b].adr # NoAddr
        BY <1>3, <1>7, <2>4
    <3>2. Interval(buckets[b]) > burst * Period \/ Interval(buckets[b]) < 0
        BY <3>1 DEF Usable, Reclaimable
    <3>3. Interval(buckets[b]) \in Int /\ Burst * Period <= burst * Period
          /\ Burst * Period \in Int /\ burst * Period \in Int
        BY <1>1, <1>3, <1>4, Truncated, Multiples DEF Interval, AnyBucket
    <3>4. Interval(buckets[b]) > Burst * Period \/ Interval(buckets[b]) < 0
        BY <3>2, <3>3
    <3>5. Covers(ForBurst(buckets[b]), level.strict[c], Period)
        BY <2>4 DEF AddressInv, StrictInv
    <3> QED BY <1>1, <1>4, <3>4, <3>5, EmptiedForBurst
  <2>5. StrictInv'
    <3>1. ASSUME NEW c \in Addrs \ {a}
          PROVE  /\ \A s \in Slots : buckets'[s].adr = c =>
                        Covers(ForBurst(buckets[s]), level.strict[c], Period)'
                 /\ (\A s \in Slots : buckets'[s].adr # c) => level'.strict[c] <= Period
      <4>1. level'.strict[c] = level.strict[c]
          BY <1>4, <1>7
      <4>2. ASSUME NEW s \in Slots, buckets'[s].adr = c
            PROVE  Covers(ForBurst(buckets[s]), level.strict[c], Period)'
        <5>1. s # b
            BY <1>7, <2>1, <4>2
        <5>2. buckets[s].adr = c /\ ForBurst(buckets'[s]) = ForBurst(buckets[s])
            BY <2>2, <4>2, <5>1 DEF ForBurst
        <5>3. Covers(ForBurst(buckets[s]), level.strict[c], Period)
            BY <5>2 DEF AddressInv, StrictInv
        <5> QED BY <1>2, <4>1, <5>2, <5>3 DEF Covers
      <4>3. ASSUME \A s \in Slots : buckets'[s].adr # c
            PROVE  level'.strict[c] <= Period
        <5>1. \A s \in Slots \ {b} : buckets[s].adr # c
            BY <2>2, <4>3
        <5>2. CASE buckets[b].adr = c
            BY <2>4, <4>1, <5>2
        <5>3. CASE buckets[b].adr # c
            BY <4>1, <5>1, <5>3 DEF AddressInv, StrictInv
        <5> QED BY <5>2, <5>3
      <4> QED BY <4>2, <4>3
    <3>2. /\ \A s \in Slots : buckets'[s].adr = a =>
                 Covers(ForBurst(buckets[s]), level.strict[a], Period)'
          /\ (\A s \in Slots : buckets'[s].adr # a) => level'.strict[a] <= Period
      <4> DEFINE l == level.strict[a]
      <4>1. l \in Nat /\ Covers(ForBurst(old), l, Period)
        <5>1. CASE old = buckets[b]
            BY <1>4, <1>7, <5>1 DEF AddressInv, StrictInv
        <5>2. CASE old # buckets[b]
          <6>1. l <= Period /\ l \in Nat
              BY <1>4, <1>7, <5>2 DEF AddressInv, StrictInv
          <6>2. ForBurst(old) = [lastTime |-> now, burst |-> 0]
              BY <1>3, <1>7, <5>2 DEF ForBurst, Held
          <6> HIDE DEF l
          <6>3. Covers([lastTime |-> now, burst |-> 0], l, Period)
              BY <1>1, <1>3, <6>1 DEF Covers
          <6> QED BY <6>1, <6>2, <6>3
        <5> QED BY <5>1, <5>2
      <4>2. level'.strict[a] = IF r.limited \/ burst # Burst THEN l ELSE l + Period
          BY <1>4, <1>7
      <4> HIDE DEF l
      <4>3. Covers(ForBurst(r.bucket), IF r.limited \/ burst # Burst THEN l ELSE l + Period, Period)
          BY <1>1, <1>7, <4>1, StrictCovered
      <4>4. Covers(ForBurst(buckets[b]), level.strict[a], Period)'
          BY <1>2, <1>7, <4>2, <4>3 DEF Covers, ForBurst
      <4> QED BY <1>7, <2>1, <2>3, <4>4
    <3> QED BY <3>1, <3>2 DEF StrictInv
  <2>6. ASSUME ~ClockStepsBack PROVE DatesInv'
    <3>1. old.lastTime \in 0..now
        BY <1>1, <1>7, <2>6 DEF AddressInv, DatesInv
    <3>2. r.bucket.lastTime = Leaked(old, Period).lastTime
        BY <1>1, <1>7, LimitedBucket
    <3>3. \/ Leaked(old, Period).lastTime = now
          \/ Interval(old) \in Nat /\ Leaked(old, Period).lastTime = now - (Interval(old) % Period)
        BY <1>1, LeakedBucket
    <3>4. Leaked(old, Period).lastTime \in 0..now
        BY <1>1, <1>3, <3>1, <3>3, KeptDate DEF Interval
    <3>5. \A s \in Slots \ {b} : buckets'[s].lastTime \in 0..now
        BY <2>2, <2>6 DEF AddressInv, DatesInv
    <3> QED BY <1>2, <1>5, <1>7, <2>6, <3>2, <3>4, <3>5 DEF DatesInv
  <2>7. ASSUME ~ClockStepsBack PROVE CountInv'
    <3> SUFFICES ASSUME now < 2 * HalfInt, NEW s \in Slots, buckets'[s].adr # NoAddr
                 PROVE  Counts(buckets[s], level.all[buckets[s].adr])'
        BY <1>2 DEF CountInv
    <3>1. CASE s # b
      <4>1. buckets[s].adr # NoAddr /\ buckets[s].adr \in Addrs \ {a}
          BY <1>4, <2>2, <2>3, <3>1 DEF AnyBucket
      <4>2. level'.all[buckets[s].adr] = level.all[buckets[s].adr]
          BY <1>4, <1>7, <4>1
      <4>3. Counts(buckets[s], level.all[buckets[s].adr])
          BY <2>7, <4>1 DEF AddressInv, CountInv
      <4> QED BY <1>2, <2>2, <3>1, <4>2, <4>3 DEF Counts
    <3>2. CASE s = b
      <4> DEFINE l == level.all[a]
                 k == Leaked(old, Period)
      <4>1. l \in Nat /\ Counts(old, l) /\ old.lastTime \in 0..now
        <5>1. CASE old = buckets[b]
            BY <1>3, <1>4, <1>7, <2>7, <5>1 DEF AddressInv, CountInv, DatesInv
        <5>2. CASE old # buckets[b]
            BY <1>1, <1>3, <1>4, <1>7, <5>2 DEF Counts
        <5> QED BY <5>1, <5>2
      <4>2. level'.all[a] = IF r.limited THEN l ELSE l + Period
          BY <1>4, <1>7
      <4> HIDE DEF l
      <4>3. Counts(k, l) /\ now - k.lastTime \in 0..Period - 1
          BY <1>1, <4>1, LeakedCounts
      <4>4. k \in AnyBucket
          BY <1>1, LeakedBucket
      <4> HIDE DEF k
      <4>5. /\ r.bucket.lastTime = k.lastTime
            /\ \/ r.limited /\ r.bucket.burst = k.burst
               \/ ~r.limited /\ r.bucket.burst = k.burst + 1
          BY <1>1, <1>7, LimitedBucket DEF k
      <4>6. k.burst \in Nat /\ k.lastTime \in Int /\ (k.burst + 1) * Period = k.burst * Period + 1 * Period
            /\ k.burst * Period \in Int
        <5>1. k.burst \in Nat /\ k.lastTime \in Int
            BY <1>3, <4>4 DEF AnyBucket
        <5> QED BY <1>3, <5>1, Multiples
      <4>7. Counts(r.bucket, level'.all[a])
          BY <1>1, <1>3, <4>1, <4>2, <4>3, <4>5, <4>6 DEF Counts
      <4> QED BY <1>2, <1>7, <2>1, <3>2, <4>7 DEF Counts
    <3> QED BY <3>1, <3>2
  <2> QED BY <1>1, <1>2, <2>5, <2>6, <2>7 DEF AddressInv
<1> QED
  <2>1. \/ UNCHANGED buckets /\ level'.strict = level.strict /\ level'.all = level.all
        \/ \E b \in Slots, old \in AnyBucket :
              LET r == SVC_RateLimit(old, burst, Period)
              IN /\ \/ old = buckets[b]
                    \/ /\ b \in Usable(burst) /\ \A c \in Slots : buckets[c].adr # a
                       /\ old.lastTime = now /\ old.burst = 0
                 /\ old.adr = a
                 /\ buckets'[b] = r.bucket /\ AlikeBut(buckets, buckets', b)
                 /\ level'.strict = IF r.limited \/ burst # Burst THEN level.strict
                                    ELSE [level.strict EXCEPT ![a] = @ + Period]
                 /\ level'.all = IF r.limited THEN level.all
                                 ELSE [level.all EXCEPT ![a] = @ + Period]
      BY <1>1, RequestEffect
  <2> QED BY <1>6, <1>7, <2>1

\* The buckets and the ideal levels leak alike.
LEMMA TickKeepsAddressInv ==
    ASSUME IInv, AddressInv, NEW d \in 1..MaxTime, Tick(d)
    PROVE  AddressInv'
<1>1. /\ now \in Nat /\ level \in Levels /\ d \in Nat /\ now' = now + d /\ now' <= MaxTime
      /\ UNCHANGED <<buckets, bucketHashes, global>> /\ buckets \in Table
      /\ Period \in Nat /\ AuthBurst \in Nat /\ Burst \in Nat /\ HalfInt \in Nat
  <2>1. MaxTime \in Nat
      BY RateLimitAssumption DEF RateLimitAssumption
  <2> QED BY <2>1, Bursts DEF Tick, IInv, TypeGlobals, AddressInv, TableInv, Whole
<1>2. /\ \A a \in Addrs : /\ level.strict[a] \in Nat /\ level'.strict[a] = Leak(level.strict[a], d)
                          /\ level.all[a] \in Nat /\ level'.all[a] = Leak(level.all[a], d)
  <2>1. level' = [strict |-> [a \in Addrs |-> Leak(level.strict[a], d)],
                  all |-> [a \in Addrs |-> Leak(level.all[a], d)],
                  global |-> [g \in Globals |-> Leak(level.global[g], d)]]
      BY DEF Tick
  <2> QED BY <1>1, <2>1 DEF Levels
<1>3. \A n \in Nat : Leak(n, d) \in Nat /\ Leak(n, d) >= n - d /\ (Leak(n, d) = 0 \/ Leak(n, d) = n - d)
    BY <1>1 DEF Leak
<1>4. \A s \in Slots : /\ buckets[s].lastTime \in Int /\ buckets[s].burst \in Nat
                       /\ Held(buckets[s].burst) \in Nat /\ buckets[s].adr \in Addrs \cup {NoAddr}
    BY <1>1 DEF Table, AnyBucket, Held
<1>5. TableInv'
    BY <1>1 DEF AddressInv, TableInv, Whole, OneEach, Closed, Users
<1>6. StrictInv'
  <2>1. ASSUME NEW a \in Addrs, NEW b \in Slots, buckets[b].adr = a
        PROVE  Covers(ForBurst(buckets[b]), level.strict[a], Period)'
    <3> DEFINE n == level.strict[a]
               last == buckets[b].lastTime
               m == (Held(buckets[b].burst) + 1) * Period
    <3>1. n \in Nat /\ last \in Int /\ m \in Int /\ Leak(n, d) \in Nat
      <4>1. Held(buckets[b].burst) \in Nat
          BY <1>4
      <4> QED BY <1>1, <1>2, <1>3, <1>4, <4>1
    <3>2. IF now < last THEN n = 0 ELSE n = 0 \/ n <= m - (now - last)
        BY <2>1 DEF AddressInv, StrictInv, Covers, ForBurst
    <3>3. level'.strict[a] = Leak(n, d)
        BY <1>2
    <3> HIDE DEF n, last, m
    <3>4. IF now + d < last THEN Leak(n, d) = 0
          ELSE Leak(n, d) = 0 \/ Leak(n, d) <= m - (now + d - last)
        BY <1>1, <1>3, <3>1, <3>2
    <3>5. /\ now' = now + d /\ buckets'[b].lastTime = last
          /\ level'.strict[a] = Leak(n, d) /\ (Held(buckets'[b].burst) + 1) * Period = m
        BY <1>1, <3>3 DEF m, last
    <3>6. IF now' < buckets'[b].lastTime THEN level'.strict[a] = 0
          ELSE \/ level'.strict[a] = 0
               \/ level'.strict[a] <= (Held(buckets'[b].burst) + 1) * Period
                                          - (now' - buckets'[b].lastTime)
        BY <1>1, <3>1, <3>4, <3>5
    <3> QED BY <3>6 DEF Covers, ForBurst
  <2>2. ASSUME NEW a \in Addrs, \A b \in Slots : buckets[b].adr # a
        PROVE  level'.strict[a] <= Period
    <3>1. level.strict[a] <= Period /\ level.strict[a] \in Nat
        BY <1>2, <2>2 DEF AddressInv, StrictInv
    <3> QED BY <1>1, <1>2, <1>3, <3>1
  <2> QED BY <1>1, <2>1, <2>2 DEF StrictInv
<1>7. ASSUME ~ClockStepsBack PROVE DatesInv'
    BY <1>1, <1>7 DEF AddressInv, DatesInv
<1>8. ASSUME ~ClockStepsBack PROVE CountInv'
  <2> SUFFICES ASSUME now + d < 2 * HalfInt, NEW s \in Slots, buckets[s].adr # NoAddr
               PROVE  Counts(buckets[s], level.all[buckets[s].adr])'
      BY <1>1 DEF CountInv
  <2> DEFINE a == buckets[s].adr
             n == level.all[a]
             last == buckets[s].lastTime
             m == buckets[s].burst * Period
  <2>1. a \in Addrs /\ n \in Nat /\ last \in Int /\ m \in Int /\ level'.all[a] = Leak(n, d)
      BY <1>1, <1>2, <1>4
  <2>2. n >= m - (now - last)
      BY <1>1, <1>8 DEF AddressInv, CountInv, Counts
  <2> HIDE DEF a, n, last, m
  <2>3. Leak(n, d) >= m - (now + d - last)
      BY <1>1, <1>3, <2>1, <2>2
  <2> QED BY <1>1, <2>1, <2>3 DEF Counts, a, last, m
<1> QED BY <1>1, <1>5, <1>6, <1>7, <1>8 DEF AddressInv

\* Setting the clock back restarts the ideal levels.
LEMMA StepBackKeepsAddressInv ==
    ASSUME IInv, AddressInv, NEW t \in 0..MaxTime, StepBack(t)
    PROVE  AddressInv'
<1>1. /\ ClockStepsBack /\ now' = t /\ level' = ZeroLevels
      /\ UNCHANGED <<buckets, bucketHashes, global>> /\ Period \in Nat /\ MaxTime \in Nat
    BY Bursts, RateLimitAssumption DEF RateLimitAssumption, StepBack
<1>2. TableInv'
    BY <1>1 DEF AddressInv, TableInv, Whole, OneEach, Closed, Users
<1>3. \A a \in Addrs : level'.strict[a] = 0
    BY <1>1 DEF ZeroLevels
<1>4. StrictInv'
    BY <1>1, <1>3 DEF StrictInv, Covers
<1> QED BY <1>1, <1>2, <1>4 DEF AddressInv

\* The chains stay whole and the levels of the addresses covered.
THEOREM AddressInvariance == Spec => []AddressInv
<1>1. Init => AddressInv
    BY InitAddressInv
<1>2. IInv /\ AddressInv /\ [Next]_vars => AddressInv'
  <2> SUFFICES ASSUME IInv, AddressInv, [Next]_vars
               PROVE  AddressInv'
      OBVIOUS
  <2>1. ASSUME NEW a \in Addrs,
               \/ SVC_Status(a) \/ SVC_Info(a) \/ SV_GetChallenge(a)
               \/ SV_DirectConnect(a) \/ SV_AuthorizeIpPacket(a)
        PROVE  AddressInv'
    <3>1. "outbound" \in Globals /\ OutPeriod = PeriodOf("outbound")
        BY DEF Globals, PeriodOf
    <3>2. Request(a, Burst, {"outbound"}, OutPeriod) \/ Request(a, AuthBurst, {"outbound"}, OutPeriod)
        BY <2>1 DEF SVC_Status, SVC_ApplyStatusLimit, SVC_Info, SV_GetChallenge,
                    SV_DirectConnect, SV_AuthorizeIpPacket
    <3> QED BY <3>1, <3>2, RequestKeepsAddressInv
  <2>2. ASSUME NEW a \in Addrs, SVC_RemoteCommand(a)
        PROVE  AddressInv'
    <3>1. "rcon" \in Globals /\ Period = PeriodOf("rcon")
        BY DEF Globals, PeriodOf
    <3>2. Request(a, Burst, {"rcon"}, Period) \/ Request(a, Burst, {}, Period)
        BY <2>2 DEF SVC_RemoteCommand, SVC_ApplyRconLimit
    <3> QED BY <3>1, <3>2, RequestKeepsAddressInv
  <2>3. CASE UNCHANGED vars
    <3>1. UNCHANGED <<now, buckets, bucketHashes, global, level>>
        BY <2>3 DEF vars
    <3>2. TableInv'
        BY <3>1 DEF AddressInv, TableInv, Whole, OneEach, Closed, Users
    <3>3. StrictInv'
        BY <3>1 DEF AddressInv, StrictInv, Covers, ForBurst
    <3>4. ~ClockStepsBack => DatesInv' /\ CountInv'
        BY <3>1 DEF AddressInv, DatesInv, CountInv, Counts
    <3> QED BY <3>1, <3>2, <3>3, <3>4 DEF AddressInv
  <2> QED
      BY <2>1, <2>2, <2>3, TickKeepsAddressInv, StepBackKeepsAddressInv DEF Next
<1> QED
    BY <1>1, <1>2, Invariance, PTL DEF Spec

\* A chain holds exactly the buckets in use of its hash, linked in both directions, however
\* they are reclaimed and linked (iw1x.cpp 682-738).
THEOREM ChainsOKHolds == Spec => []ChainsOK
<1>1. AddressInv => ChainsOK
  <2> SUFFICES ASSUME Whole(buckets, bucketHashes)
               PROVE  ChainsOK
      BY DEF AddressInv, TableInv
  <2>1. \A h \in Hashes : OnChain(h) = {b \in Slots : buckets[b].adr \in Addrs
                                                    /\ HashOf[buckets[b].adr] = h}
      BY ChainOfUsers DEF Users
  <2>2. \A h \in Hashes : bucketHashes[h] # Null => buckets[bucketHashes[h]].prev = Null
      BY DEF Whole
  <2>3. \A b, c \in Slots : buckets[b].next = c <=> buckets[c].prev = b
      BY DEF Whole
  <2> QED BY <2>1, <2>2, <2>3 DEF ChainsOK
<1> QED BY <1>1, AddressInvariance, PTL

\* An address never has two buckets, whose bursts it could spend one after the other.
THEOREM OneBucketHolds == Spec => []OneBucketPerAddress
<1>1. AddressInv => OneBucketPerAddress
    BY DEF AddressInv, TableInv, OneEach, OneBucketPerAddress
<1> QED BY <1>1, AddressInvariance, PTL

\* In any interval of w milliseconds no address gets more than Burst + 1 + w / Period requests
\* through, although its bucket is reclaimed for others and an interval wraps.
THEOREM AddressBoundHolds == Spec => []AddressBound
<1>1. IInv /\ AddressInv => AddressBound
  <2> SUFFICES ASSUME IInv, AddressInv, NEW a \in Addrs
               PROVE  level.strict[a] <= (Burst + 1) * Period
      BY DEF AddressBound
  <2>1. /\ now \in Nat /\ level.strict[a] \in Nat /\ Burst \in Nat /\ Period \in Nat /\ buckets \in Table
      BY Bursts DEF IInv, TypeGlobals, Levels, AddressInv, TableInv, Whole
  <2>2. 1 * Period <= (Burst + 1) * Period /\ (Burst + 1) * Period \in Nat
      BY <2>1, Multiples
  <2>3. CASE \A b \in Slots : buckets[b].adr # a
    <3>1. level.strict[a] <= Period
        BY <2>3 DEF AddressInv, StrictInv
    <3> QED BY <2>1, <2>2, <3>1
  <2>4. ASSUME NEW b \in Slots, buckets[b].adr = a
        PROVE  level.strict[a] <= (Burst + 1) * Period
    <3> DEFINE n == Held(buckets[b].burst)
               last == buckets[b].lastTime
    <3>1. n \in 0..Burst /\ last \in Int
        BY <2>1, Bursts DEF Table, AnyBucket, Held
    <3>2. Covers(ForBurst(buckets[b]), level.strict[a], Period)
        BY <2>4 DEF AddressInv, StrictInv
    <3>3. IF now < last THEN level.strict[a] = 0
          ELSE level.strict[a] = 0 \/ level.strict[a] <= (n + 1) * Period - (now - last)
        BY <3>2 DEF Covers, ForBurst
    <3> HIDE DEF n, last
    <3>4. (n + 1) * Period <= (Burst + 1) * Period /\ (n + 1) * Period \in Int
        BY <2>1, <3>1, Multiples
    <3> QED BY <2>1, <2>2, <3>1, <3>3, <3>4
  <2> QED BY <2>3, <2>4
<1> QED BY <1>1, Invariance, AddressInvariance, PTL

\* While the clock is not set back and 2^32 ms have not passed, nobody is refused whose
\* requests have leaked away.
THEOREM RefusedForCauseHolds == Spec => []RefusedForCause
<1>1. IInv /\ AddressInv => RefusedForCause
  <2> SUFFICES ASSUME IInv, AddressInv, ~ClockStepsBack, now < 2 * HalfInt, NEW b \in Slots,
                      NEW burst \in {Burst, AuthBurst}, buckets[b].adr # NoAddr,
                      SVC_RateLimit(buckets[b], burst, Period).limited
               PROVE  level.all[buckets[b].adr] > (burst - 1) * Period
      BY DEF RefusedForCause
  <2> DEFINE k == Leaked(buckets[b], Period)
             l == level.all[buckets[b].adr]
  <2>1. /\ now \in Nat /\ level \in Levels /\ buckets[b] \in AnyBucket
        /\ Period \in Nat \ {0} /\ burst \in Nat
      BY Bursts DEF IInv, TypeGlobals, AddressInv, TableInv, Whole, Table
  <2>2. l \in Nat /\ Counts(buckets[b], l) /\ buckets[b].lastTime \in 0..now
      BY <2>1 DEF Levels, AnyBucket, AddressInv, CountInv, DatesInv
  <2> HIDE DEF l
  <2>3. Counts(k, l) /\ now - k.lastTime \in 0..Period - 1
      BY <2>1, <2>2, LeakedCounts
  <2>4. k \in AnyBucket
      BY <2>1, LeakedBucket
  <2>5. k.burst >= burst
      BY <2>1, LimitedBucket
  <2> HIDE DEF k
  <2>6. k.burst \in Nat
      BY <2>4, Bursts DEF AnyBucket
  <2>7. burst * Period <= k.burst * Period /\ (burst - 1) * Period = burst * Period - 1 * Period
        /\ burst * Period \in Int /\ k.burst * Period \in Int
      BY <2>1, <2>5, <2>6, Multiples
  <2>8. l > (burst - 1) * Period
      BY <2>1, <2>2, <2>3, <2>7 DEF Counts
  <2> QED BY <2>8 DEF l
<1> QED BY <1>1, Invariance, AddressInvariance, PTL

\* The variables keep their types: a burst never leaves its signed char, and no bucket is
\* dated later than now unless the clock is set back.
THEOREM TypeCorrect == Spec => []TypeOK
<1>1. IInv /\ AddressInv => TypeOK
  <2> SUFFICES ASSUME IInv, AddressInv
               PROVE  TypeOK
      OBVIOUS
  <2>1. /\ now \in 0..MaxTime /\ level \in Levels /\ global \in [Globals -> GlobalBucket]
        /\ buckets \in Table /\ bucketHashes \in Heads /\ MaxTime \in Nat
    <3>1. MaxTime \in Nat
        BY RateLimitAssumption DEF RateLimitAssumption
    <3> QED BY <3>1 DEF IInv, TypeGlobals, AddressInv, TableInv, Whole
  <2>2. \A b \in Slots : buckets[b].lastTime \in LastTimes
    <3>1. CASE ClockStepsBack
        BY <2>1, <3>1 DEF LastTimes, Table, AnyBucket
    <3>2. CASE ~ClockStepsBack
        BY <2>1, <3>2 DEF LastTimes, AddressInv, DatesInv
    <3> QED BY <3>1, <3>2
  <2>3. \A g \in Globals : global[g].lastTime \in LastTimes
    <3>1. CASE ClockStepsBack
        BY <2>1, <3>1 DEF LastTimes, GlobalBucket
    <3>2. CASE ~ClockStepsBack
        BY <2>1, <3>2 DEF LastTimes, AddressInv, DatesInv
    <3> QED BY <3>1, <3>2
  <2>4. buckets \in [Slots -> Bucket]
      BY <2>1, <2>2 DEF Table, AnyBucket, Bucket
  <2>5. global \in [Globals -> [lastTime : LastTimes, burst : 0..Burst]]
      BY <2>1, <2>3 DEF GlobalBucket
  <2> QED BY <2>1, <2>4, <2>5 DEF TypeOK, Levels, Heads
<1> QED BY <1>1, Invariance, AddressInvariance, PTL
===============================================================================
