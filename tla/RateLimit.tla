------------------------------ MODULE RateLimit ------------------------------
(***************************************************************************)
(* The leaky buckets that limit connectionless requests (iw1x.cpp, 660-770 *)
(* and their callers).  A table of MaxBuckets buckets is hashed by address *)
(* into doubly linked chains; two global buckets limit all replies and all *)
(* wrong rcon passwords.  Time is the wall clock in milliseconds since the *)
(* first reading; an interval is truncated to a C int (where a long has 32 *)
(* bits the time itself wraps too, which changes no interval).             *)
(***************************************************************************)
EXTENDS Integers, FiniteSets

CONSTANTS
    Addrs,          \* IP addresses requests come from
    NoAddr,         \* the address of a bucket that is not in use
    Hashes,         \* values of SVC_HashForAddress
    HashOf,         \* the hash of each address
    MaxBuckets,     \* buckets in the table (16384 in the code)
    Burst,          \* burst of most requests (10)
    AuthBurst,      \* burst of ipAuthorize (20)
    Period,         \* milliseconds a request takes to leak away (1000)
    OutPeriod,      \* the same for the outbound bucket (100)
    HalfInt,        \* 2^31: an int holds -HalfInt .. HalfInt - 1
    ClockStepsBack, \* whether the wall clock may be set back
    MaxTime         \* bound on the clock

ASSUME RateLimitAssumption ==
    /\ NoAddr \notin Addrs
    /\ HashOf \in [Addrs -> Hashes] /\ Hashes # {}
    /\ MaxBuckets \in Nat \ {0}
    /\ Burst \in Nat \ {0} /\ AuthBurst \in Nat /\ Burst <= AuthBurst
    /\ AuthBurst <= 127                      \* burst is a signed char
    /\ Period \in Nat \ {0} /\ OutPeriod \in Nat \ {0}
    /\ HalfInt \in Nat
    /\ (Burst + 1) * Period <= HalfInt /\ (Burst + 1) * OutPeriod <= HalfInt
    /\ ClockStepsBack \in BOOLEAN
    /\ MaxTime \in Nat \ {0}

Slots == 1..MaxBuckets
Null == 0
Globals == {"outbound", "rcon"}

VARIABLES
    now,           \* Sys_Milliseconds64()
    buckets,       \* the table; a bucket of address NoAddr has type 0
    bucketHashes,  \* the head of each chain
    global,        \* outboundLeakyBucket and the static bucket of bad passwords
    level          \* history: the requests an ideal leaky bucket would hold
vars == <<now, buckets, bucketHashes, global, level>>

(***************************************************************************)
(* level.strict[a] is the content, in milliseconds, of an ideal leaky      *)
(* bucket fed with the requests of a that passed the address limit with    *)
(* burst Burst; level.all[a] of one fed with all that passed it;           *)
(* level.global[g] of one fed with those that passed the global bucket g.  *)
(***************************************************************************)
Free == [adr |-> NoAddr, lastTime |-> 0, burst |-> 0, hash |-> CHOOSE h \in Hashes : TRUE,
         next |-> Null, prev |-> Null]
ZeroLevels == [strict |-> [a \in Addrs |-> 0], all |-> [a \in Addrs |-> 0],
               global |-> [g \in Globals |-> 0]]

Init ==
    /\ now \in 0..1   \* the first reading: only the milliseconds within a second
    /\ buckets = [i \in Slots |-> Free]
    /\ bucketHashes = [h \in Hashes |-> Null]
    /\ global = [g \in Globals |-> [lastTime |-> 0, burst |-> 0]]
    /\ level = ZeroLevels

------------------------------------------------------------------------------
(* The table.                                                               *)

\* int interval = now - lastTime: the low 32 bits, as a signed number
Truncate(n) == LET r == n % (2 * HalfInt) IN IF r < HalfInt THEN r ELSE r - 2 * HalfInt
Interval(bucket) == Truncate(now - bucket.lastTime)

\* the buckets the walk over the chain of hash h visits
OnChain(h) ==
    {b \in Slots : \A S \in SUBSET Slots :
        /\ bucketHashes[h] # Null => bucketHashes[h] \in S
        /\ \A s \in S : buckets[s].next # Null => buckets[s].next \in S
        => b \in S}

Found(a) == {b \in OnChain(HashOf[a]) : buckets[b].adr = a}

Reclaimable(b, burst) ==
    /\ buckets[b].lastTime # 0   \* it is unsigned
    /\ Interval(buckets[b]) > burst * Period \/ Interval(buckets[b]) < 0

Usable(burst) == {b \in Slots : buckets[b].adr = NoAddr \/ Reclaimable(b, burst)}

SetNext(t, b, to) == IF b = Null THEN t ELSE [t EXCEPT ![b].next = to]
\* mutant: the neighbour still points back to the bucket taken out
KeepPrev(t, b, to) == t

SetPrev(t, b, to) == IF b = Null THEN t ELSE [t EXCEPT ![b].prev = to]

\* the table with a reclaimed bucket taken out of its chain and zeroed
Unlink(b) ==
    LET p == buckets[b].prev
        n == buckets[b].next
    IN [heads |-> IF p = Null /\ buckets[b].adr # NoAddr
                  THEN [bucketHashes EXCEPT ![buckets[b].hash] = n] ELSE bucketHashes,
        table |-> [SetPrev(SetNext(buckets, p, n), n, p) EXCEPT ![b] = Free]]

\* mutant: the old head of the chain is forgotten
NewAlone(a, head) ==
    [adr |-> a, lastTime |-> now, burst |-> 0, hash |-> HashOf[a], next |-> Null, prev |-> Null]

New(a, head) ==
    [adr |-> a, lastTime |-> now, burst |-> 0, hash |-> HashOf[a], next |-> head, prev |-> Null]

\* a free bucket given to address a and put at the head of its chain
Link(t, b, a) ==
    LET h == HashOf[a]
    IN [slot |-> b, heads |-> [t.heads EXCEPT ![h] = b],
        table |-> [SetPrev(t.table, t.heads[h], b) EXCEPT ![b] = New(a, t.heads[h])]]

\* SVC_BucketForAddress: the bucket (Null: none could be had) and the table after it
SVC_BucketForAddress(a, burst) ==
    LET found == Found(a)
        usable == Usable(burst)
        first == CHOOSE b \in usable : \A c \in usable : b <= c
    IN IF found # {}
       THEN [slot |-> CHOOSE b \in found : TRUE, table |-> buckets, heads |-> bucketHashes]
       ELSE IF usable = {}
       THEN [slot |-> Null, table |-> buckets, heads |-> bucketHashes]
       ELSE Link(Unlink(first), first, a)

Expired(bucket, period) == Interval(bucket) \div period
Emptied(bucket, period) == Interval(bucket) < 0 \/ Expired(bucket, period) > bucket.burst

\* mutant: what leaks is taken off, but the same interval leaks again
LeakAgain(bucket, period) ==
    IF Emptied(bucket, period) THEN [bucket EXCEPT !.burst = 0, !.lastTime = now]
    ELSE [bucket EXCEPT !.burst = @ - Expired(bucket, period)]

\* mutant: the part of an interval that is no whole period never leaks
ForgetRemainder(bucket, period) ==
    IF Emptied(bucket, period) THEN [bucket EXCEPT !.burst = 0, !.lastTime = now]
    ELSE [bucket EXCEPT !.burst = @ - Expired(bucket, period), !.lastTime = now]

\* the whole periods of the interval leak, the rest of it is kept for the next time
Leaked(bucket, period) ==
    IF Emptied(bucket, period) THEN [bucket EXCEPT !.burst = 0, !.lastTime = now]
    ELSE [bucket EXCEPT !.burst = @ - Expired(bucket, period),
                        !.lastTime = now - (Interval(bucket) % period)]

\* mutant: every request is counted and let through
NeverLimited(bucket, burst, period) ==
    [limited |-> FALSE, bucket |-> [Leaked(bucket, period) EXCEPT !.burst = @ + 1]]

\* SVC_RateLimit: the bucket leaks, then the request is counted if it fits
SVC_RateLimit(bucket, burst, period) ==
    LET leaked == Leaked(bucket, period)
    IN IF leaked.burst < burst
       THEN [limited |-> FALSE, bucket |-> [leaked EXCEPT !.burst = @ + 1]]
       ELSE [limited |-> TRUE, bucket |-> leaked]

------------------------------------------------------------------------------
(* The requests.  Each asks the address's bucket first, then a global one.  *)

Counted(a, burst) ==
    [level EXCEPT !.strict[a] = IF burst = Burst THEN @ + Period ELSE @,
                  !.all[a] = @ + Period]

Request(a, burst, asks, period) ==
    \E t \in {SVC_BucketForAddress(a, burst)} :
    \E r \in {IF t.slot = Null THEN [limited |-> TRUE]
              ELSE SVC_RateLimit(t.table[t.slot], burst, Period)} :
       /\ bucketHashes' = t.heads
       /\ buckets' = IF t.slot = Null THEN t.table ELSE [t.table EXCEPT ![t.slot] = r.bucket]
       /\ \/ r.limited /\ UNCHANGED <<global, level>>
          \/ ~r.limited /\ asks = {} /\ level' = Counted(a, burst) /\ UNCHANGED global
          \/ /\ ~r.limited
             /\ \E g \in asks : \E o \in {SVC_RateLimit(global[g], Burst, period)} :
                  /\ global' = [global EXCEPT ![g] = o.bucket]
                  /\ level' = IF o.limited THEN Counted(a, burst)
                              ELSE [Counted(a, burst) EXCEPT !.global[g] = @ + period]
       /\ UNCHANGED now

\* the four requests anyone may make, each answered once both limits let it through
SVC_ApplyStatusLimit(a) == Request(a, Burst, {"outbound"}, OutPeriod)
SVC_Status(a) == SVC_ApplyStatusLimit(a)
SVC_Info(a) == Request(a, Burst, {"outbound"}, OutPeriod)
SV_GetChallenge(a) == Request(a, Burst, {"outbound"}, OutPeriod)
SV_DirectConnect(a) == Request(a, Burst, {"outbound"}, OutPeriod)

\* the authorize server's answer, of which more are let through
SV_AuthorizeIpPacket(a) == Request(a, AuthBurst, {"outbound"}, OutPeriod)

\* an rcon command: only one with a wrong password asks the global bucket
SVC_ApplyRconLimit(a, badRconPassword) ==
    Request(a, Burst, IF badRconPassword THEN {"rcon"} ELSE {}, Period)
SVC_RemoteCommand(a) == \E bad \in BOOLEAN : SVC_ApplyRconLimit(a, bad)

\* the ideal buckets leak one millisecond a millisecond
Leak(n, d) == IF n > d THEN n - d ELSE 0
Tick(d) ==
    /\ now + d <= MaxTime
    /\ now' = now + d
    /\ level' = [strict |-> [a \in Addrs |-> Leak(level.strict[a], d)],
                 all |-> [a \in Addrs |-> Leak(level.all[a], d)],
                 global |-> [g \in Globals |-> Leak(level.global[g], d)]]
    /\ UNCHANGED <<buckets, bucketHashes, global>>

\* the administrator or a time daemon sets the clock back; the ideal buckets restart
StepBack(t) ==
    /\ ClockStepsBack
    /\ t < now
    /\ now' = t
    /\ level' = ZeroLevels
    /\ UNCHANGED <<buckets, bucketHashes, global>>

Next ==
    \/ \E a \in Addrs :
          \/ SVC_Status(a) \/ SVC_Info(a) \/ SV_GetChallenge(a) \/ SV_DirectConnect(a)
          \/ SV_AuthorizeIpPacket(a) \/ SVC_RemoteCommand(a)
    \/ \E d \in 1..MaxTime : Tick(d)
    \/ \E t \in 0..MaxTime : StepBack(t)

Spec == Init /\ [][Next]_vars
------------------------------------------------------------------------------
\* once the clock was set back by more than an int holds, a bucket may be dated before 0
LastTimes == IF ClockStepsBack THEN Int ELSE 0..MaxTime
Bucket == [adr : Addrs \cup {NoAddr}, lastTime : LastTimes, burst : 0..AuthBurst,
           hash : Hashes, next : Slots \cup {Null}, prev : Slots \cup {Null}]

\* The variables have their types; a level is never negative (iw1x.cpp 666-670).
TypeOK ==
    /\ now \in 0..MaxTime
    /\ buckets \in [Slots -> Bucket]
    /\ bucketHashes \in [Hashes -> Slots \cup {Null}]
    /\ global \in [Globals -> [lastTime : LastTimes, burst : 0..Burst]]
    /\ level \in [strict : [Addrs -> Nat], all : [Addrs -> Nat], global : [Globals -> Nat]]

\* The reclaiming and linking of SVC_BucketForAddress keeps the chains whole: a chain
\* holds exactly the buckets in use of its hash, linked in both directions, so that
\* no bucket is lost to the search or reached from two chains.
ChainsOK ==
    /\ \A h \in Hashes : OnChain(h) = {b \in Slots : buckets[b].adr \in Addrs
                                                   /\ HashOf[buckets[b].adr] = h}
    /\ \A h \in Hashes : bucketHashes[h] # Null => buckets[bucketHashes[h]].prev = Null
    /\ \A b, c \in Slots : buckets[b].next = c <=> buckets[c].prev = b

\* An address never has two buckets: it could then spend the burst of each.
OneBucketPerAddress ==
    \A b, c \in Slots : buckets[b].adr = buckets[c].adr /\ buckets[b].adr # NoAddr => b = c

\* What the limiter is for: the requests limited to Burst that an address gets through
\* in any interval of w milliseconds are at most Burst + 1 + w / Period, although its
\* bucket is shared with ipAuthorize, reclaimed for others, and leaks in whole periods.
AddressBound == \A a \in Addrs : level.strict[a] <= (Burst + 1) * Period

\* The same for the two global buckets, which all addresses share.
GlobalBound ==
    /\ level.global["outbound"] <= (Burst + 1) * OutPeriod
    /\ level.global["rcon"] <= (Burst + 1) * Period

\* The limiter refuses nobody without cause: the bucket of an address refuses its next
\* request only if more than burst - 1 of its requests have not leaked away yet, as long
\* as the clock is not set back and the server has not run for 2^32 ms (50 days).  Then
\* the interval of a bucket left alone that long is as small an int as that of one just
\* filled (744), and so is what leaks.
RefusedForCause ==
    ~ClockStepsBack /\ now < 2 * HalfInt =>
    \A b \in Slots, burst \in {Burst, AuthBurst} :
        buckets[b].adr # NoAddr /\ SVC_RateLimit(buckets[b], burst, Period).limited
            => level.all[buckets[b].adr] > (burst - 1) * Period
==============================================================================
