---------------------------- MODULE Sprint_proofs ----------------------------
(***************************************************************************)
(* Theorems about Sprint.  One inductive invariant carries them all: a     *)
(* player who sprints has no request pending and a timer within some       *)
(* player_sprintTime, and a player who used up the stamina has a timer     *)
(* that falls no faster than the rest grows, whatever the cvars become.    *)
(***************************************************************************)
EXTENDS Sprint, TLAPS

\* A player who sprints has no request pending: the next command would otherwise end the
\* sprint and a later landing start it again unasked.
NeverBoth == ~(sprintActive /\ sprintRequestPending)

ActiveWithinTime == sprintActive => \E t \in SprintTimes : sprintTimer <= t

StaminaReturns == exhausted => ~sprintActive /\ sprintTimer + rest > usedUp

IInv == TypeOK /\ NeverBoth /\ ActiveWithinTime /\ TimerBounded /\ StaminaReturns

\* The timer after a step of msec milliseconds, a natural number that is at most msec
\* more, and at most msec less, than before (iw1x.cpp 2975-2990).
LEMMA TimerStep ==
    ASSUME sprintTimer \in Nat, sprintActive \in BOOLEAN, NEW msec \in 1..MaxMsec
    PROVE  /\ Timer(msec) \in Nat
           /\ Timer(msec) <= sprintTimer + msec
           /\ Timer(msec) >= sprintTimer - msec
           /\ ~sprintActive => Timer(msec) <= sprintTimer
<1>1. msec \in Nat \ {0}
    BY SprintAssumption DEF SprintAssumption
<1> QED
    BY <1>1 DEF Timer

\* A timer of 0 is within every player_sprintTime.
LEMMA ZeroWithin ==
    ASSUME sprintTime \in SprintTimes
    PROVE  \E t \in SprintTimes : 0 <= t + MaxMsec
<1>1. sprintTime \in Nat /\ MaxMsec \in Nat
    BY SprintAssumption DEF SprintAssumption
<1>2. 0 <= sprintTime + MaxMsec
    BY <1>1
<1> QED
    BY <1>2

\* Every state a player starts from satisfies the invariant.
LEMMA InitIInv == Init => IInv
<1> SUFFICES ASSUME Init PROVE IInv
    OBVIOUS
<1>1. TypeOK /\ NeverBoth /\ ActiveWithinTime /\ StaminaReturns
    BY DEF Init, TypeOK, NeverBoth, ActiveWithinTime, StaminaReturns
<1>2. TimerBounded
    BY ZeroWithin DEF Init, TimerBounded
<1> QED
    BY <1>1, <1>2 DEF IInv

\* The commands, the spawn and the administrator keep the invariant.
LEMMA CommandsKeepIInv ==
    ASSUME IInv, Spawn \/ RequestSprint \/ SetSprintTime \/ SetSprintMinTime
    PROVE  IInv'
<1> USE SprintAssumption DEF SprintAssumption
<1>1. CASE Spawn
  <2>1. TypeOK' /\ NeverBoth' /\ ActiveWithinTime' /\ StaminaReturns'
      BY <1>1 DEF Spawn, Recovered, cvars, IInv, TypeOK, NeverBoth, ActiveWithinTime,
                  StaminaReturns
  <2>2. TimerBounded'
    <3>1. \E t \in SprintTimes : 0 <= t + MaxMsec
        BY ZeroWithin DEF IInv, TypeOK
    <3> QED BY <1>1, <3>1 DEF Spawn, TimerBounded
  <2> QED BY <2>1, <2>2 DEF IInv
<1>2. CASE RequestSprint
    BY <1>2 DEF RequestSprint, cvars, history, IInv, TypeOK, NeverBoth, ActiveWithinTime,
                TimerBounded, StaminaReturns
<1>3. CASE SetSprintTime \/ SetSprintMinTime
    BY <1>3 DEF SetSprintTime, SetSprintMinTime, history, IInv, TypeOK, NeverBoth,
                ActiveWithinTime, TimerBounded, StaminaReturns
<1> QED
    BY <1>1, <1>2, <1>3

\* What the timer loses in a step the rest gains.
LEMMA RestGains ==
    ASSUME NEW timer \in Nat, NEW next \in Nat, NEW rested \in Nat, NEW used \in Nat,
           NEW msec \in Nat, next >= timer - msec
    PROVE  /\ timer + rested > used => next + (rested + msec) > used
           /\ rested > used => next + rested > used
OBVIOUS

\* A step of the rest keeps the invariant of a player who does not start to sprint.
LEMMA RestStep ==
    ASSUME IInv, NEW msec \in 1..MaxMsec, Rested(msec),
           UNCHANGED exhausted, ~sprintActive',
           \/ UNCHANGED sprintTimer
           \/ sprintTimer' = Timer(msec)
    PROVE  rest' \in Nat /\ StaminaReturns'
<1>1. msec \in Nat \ {0} /\ usedUp \in Nat
    BY SprintAssumption DEF SprintAssumption, IInv, TypeOK
<1>2. rest \in Nat /\ sprintTimer \in Nat /\ sprintActive \in BOOLEAN /\ exhausted \in BOOLEAN
    BY DEF IInv, TypeOK
<1>3. rest' = (IF exhausted /\ rest <= usedUp THEN rest + msec ELSE rest) /\ usedUp' = usedUp
    BY DEF Rested
<1>4. sprintTimer' \in Nat /\ sprintTimer' >= sprintTimer - msec
    BY <1>1, <1>2, TimerStep
<1>5. exhausted => sprintTimer + rest > usedUp
    BY DEF IInv, StaminaReturns
<1>6. rest' \in Nat
    BY <1>1, <1>2, <1>3
<1>7. ASSUME exhausted PROVE sprintTimer' + rest' > usedUp
  <2>1. sprintTimer + rest > usedUp
      BY <1>5, <1>7
  <2>2. CASE rest <= usedUp
    <3>1. rest' = rest + msec
        BY <1>3, <1>7, <2>2
    <3> QED BY <1>1, <1>2, <1>4, <2>1, <3>1, RestGains
  <2>3. CASE ~(rest <= usedUp)
    <3>1. rest' = rest
        BY <1>3, <2>3
    <3>2. rest > usedUp
        BY <1>1, <1>2, <2>3
    <3> QED BY <1>1, <1>2, <1>4, <3>1, <3>2, RestGains
  <2> QED BY <2>2, <2>3
<1> QED
    BY <1>3, <1>6, <1>7 DEF StaminaReturns

\* Every branch of PM_UpdateSprint keeps the invariant.
LEMMA UpdateKeepsIInv ==
    ASSUME IInv, NEW forward \in BOOLEAN, NEW low \in BOOLEAN, NEW air \in BOOLEAN,
           NEW msec \in 1..MaxMsec, PM_UpdateSprint(forward, low, air, msec)
    PROVE  IInv'
<1> USE SprintAssumption DEF SprintAssumption
<1>t. /\ sprintTime \in SprintTimes /\ sprintTime \in Nat /\ sprintTimer \in Nat /\ rest \in Nat
      /\ sprintActive \in BOOLEAN /\ sprintRequestPending \in BOOLEAN /\ exhausted \in BOOLEAN
      /\ msec \in Nat \ {0} /\ msec <= MaxMsec /\ SprintTimes \subseteq Nat
      /\ sprintMinTime \in MinTimes /\ sprintMinTime \in Nat /\ usedUp \in Nat
    BY DEF IInv, TypeOK
<1>c. UNCHANGED cvars
    BY DEF PM_UpdateSprint, Disabled, NotReady, Airborne, Landed, Continue
<1>s. /\ Timer(msec) \in Nat /\ Timer(msec) <= sprintTimer + msec
      /\ Timer(msec) >= sprintTimer - msec /\ (~sprintActive => Timer(msec) <= sprintTimer)
    BY <1>t, TimerStep
\* whatever the branch, the new timer is within MaxMsec of some player_sprintTime
<1>b. \E t \in SprintTimes : Timer(msec) <= t + MaxMsec
  <2>1. CASE sprintActive
    <3>1. PICK t \in SprintTimes : sprintTimer <= t
        BY <2>1 DEF IInv, ActiveWithinTime
    <3>2. t \in Nat /\ Timer(msec) <= t + MaxMsec
        BY <1>t, <1>s, <3>1
    <3> QED BY <3>2
  <2>2. CASE ~sprintActive
    <3>1. PICK t \in SprintTimes : sprintTimer <= t + MaxMsec
        BY DEF IInv, TimerBounded
    <3>2. t \in Nat /\ Timer(msec) <= t + MaxMsec
        BY <1>t, <1>s, <2>2, <3>1
    <3> QED BY <3>2
  <2> QED BY <1>t, <2>1, <2>2
<1>1. CASE Disabled
  <2>1. TypeOK' /\ NeverBoth' /\ ActiveWithinTime' /\ StaminaReturns'
      BY <1>1, <1>t DEF Disabled, Recovered, cvars, IInv, TypeOK, NeverBoth, ActiveWithinTime,
                        StaminaReturns
  <2>2. \E t \in SprintTimes : 0 <= t + MaxMsec
      BY ZeroWithin DEF IInv, TypeOK
  <2>3. TimerBounded'
      BY <1>1, <2>2 DEF Disabled, TimerBounded
  <2> QED BY <2>1, <2>3 DEF IInv
<1>2. CASE NotReady(forward, low, msec)
  <2>1. ~sprintActive /\ ~sprintActive'
      BY <1>2, <1>t DEF NotReady, IInv, NeverBoth
  <2>2. rest' \in Nat /\ StaminaReturns'
      BY <1>2, <2>1, RestStep DEF NotReady
  <2>3. TypeOK'
      BY <1>2, <1>c, <1>t, <2>2 DEF NotReady, Rested, cvars, TypeOK
  <2>4. TimerBounded'
      BY <1>2 DEF NotReady, IInv, TimerBounded
  <2> QED
      BY <2>1, <2>2, <2>3, <2>4 DEF IInv, NeverBoth, ActiveWithinTime
<1>3. CASE Airborne(forward, low, msec)
  <2>1. ~sprintActive /\ ~sprintActive'
      BY <1>3, <1>t DEF Airborne, IInv, NeverBoth
  <2>2. rest' \in Nat /\ StaminaReturns'
      BY <1>3, <2>1, RestStep DEF Airborne
  <2>3. TypeOK'
      BY <1>3, <1>c, <1>t, <1>s, <2>2 DEF Airborne, Rested, cvars, TypeOK
  <2>4. TimerBounded'
      BY <1>3, <1>b DEF Airborne, TimerBounded
  <2> QED
      BY <2>1, <2>2, <2>3, <2>4 DEF IInv, NeverBoth, ActiveWithinTime
<1>4. CASE Landed(forward, low, msec)
  <2>1. ~sprintActive
      BY <1>4, <1>t DEF Landed, IInv, NeverBoth
  <2>2. rest' \in Nat /\ StaminaReturns'
    <3>1. CASE Granted(msec)
      <4>1. ~exhausted' /\ rest' \in Nat
          BY <1>4, <1>t, <3>1 DEF Landed, Rested
      <4> QED BY <4>1 DEF StaminaReturns
    <3>2. CASE ~Granted(msec)
      <4>1. ~sprintActive' /\ UNCHANGED exhausted
          BY <1>4, <1>t, <2>1, <3>2 DEF Landed
      <4> QED BY <1>4, <4>1, RestStep DEF Landed
    <3> QED BY <3>1, <3>2
  <2>3. TypeOK'
      BY <1>4, <1>c, <1>t, <1>s, <2>2 DEF Landed, Granted, Rested, cvars, TypeOK
  <2>4. TimerBounded'
      BY <1>4, <1>b DEF Landed, TimerBounded
  <2>5. ActiveWithinTime'
    <3>1. sprintActive' => Timer(msec) <= sprintTime
        BY <1>4, <1>t, <1>s, <2>1 DEF Landed, Granted
    <3> QED BY <1>4, <1>t, <3>1 DEF Landed, ActiveWithinTime
  <2>6. NeverBoth'
      BY <1>4 DEF Landed, NeverBoth
  <2> QED
      BY <2>2, <2>3, <2>4, <2>5, <2>6 DEF IInv
<1>5. CASE Continue(forward, low, msec)
  <2>1. rest' \in Nat /\ StaminaReturns'
    <3>1. CASE sprintActive /\ Exhausted(msec)
        BY <1>5, <1>t, <1>s, <3>1 DEF Continue, Exhausted, StaminaReturns
    <3>2. CASE sprintActive /\ ~Exhausted(msec)
      <4>1. ~exhausted /\ ~exhausted' /\ Rested(msec)
          BY <1>5, <1>t, <3>2 DEF Continue, IInv, StaminaReturns
      <4> QED BY <1>t, <4>1 DEF Rested, StaminaReturns
    <3>3. CASE ~sprintActive
      <4>1. ~sprintActive' /\ UNCHANGED exhausted /\ Rested(msec)
          BY <1>5, <1>t, <3>3 DEF Continue
      <4> QED BY <1>5, <4>1, RestStep DEF Continue
    <3> QED BY <1>t, <3>1, <3>2, <3>3
  <2>2. TypeOK'
    <3>1. exhausted' \in BOOLEAN /\ sprintActive' \in BOOLEAN /\ usedUp' \in Nat
        BY <1>5, <1>t DEF Continue, Rested
    <3> QED BY <1>5, <1>c, <1>t, <1>s, <2>1, <3>1 DEF Continue, cvars, TypeOK
  <2>3. TimerBounded'
      BY <1>5, <1>b DEF Continue, TimerBounded
  <2>4. ActiveWithinTime'
    <3>1. sprintActive' => Timer(msec) <= sprintTime
        BY <1>5, <1>t, <1>s DEF Continue, Exhausted
    <3> QED BY <1>5, <1>t, <3>1 DEF Continue, ActiveWithinTime
  <2>5. NeverBoth'
      BY <1>5 DEF Continue, NeverBoth
  <2> QED
      BY <2>1, <2>2, <2>3, <2>4, <2>5 DEF IInv
<1> QED
    BY <1>1, <1>2, <1>3, <1>4, <1>5 DEF PM_UpdateSprint

\* The invariant is inductive.
THEOREM Invariance == Spec => []IInv
<1>1. IInv /\ [Next]_vars => IInv'
  <2> SUFFICES ASSUME IInv, [Next]_vars PROVE IInv'
      OBVIOUS
  <2>1. CASE Next
    <3>1. CASE Spawn \/ RequestSprint \/ SetSprintTime \/ SetSprintMinTime
        BY <3>1, CommandsKeepIInv
    <3>2. CASE \E forward, low, air \in BOOLEAN, msec \in 1..MaxMsec :
                  PM_UpdateSprint(forward, low, air, msec)
        BY <3>2, UpdateKeepsIInv
    <3> QED BY <2>1, <3>1, <3>2 DEF Next
  <2>2. CASE UNCHANGED vars
      BY <2>2 DEF vars, cvars, history, IInv, TypeOK, NeverBoth, ActiveWithinTime, TimerBounded,
                  StaminaReturns
  <2> QED BY <2>1, <2>2
<1> QED BY InitIInv, <1>1, PTL DEF Spec

\* The fields of customPlayerState_t keep their types.
THEOREM TypeCorrect == Spec => []TypeOK
    BY Invariance, PTL DEF IInv

\* No sprint outlasts every player_sprintTime by more than one movement step.
THEOREM TimerBoundedHolds == Spec => []TimerBounded
    BY Invariance, PTL DEF IInv

\* Who used up the stamina sprints again only after a rest that, with what was added to
\* player_sprintTime meanwhile, is longer than player_sprintMinTime.
THEOREM RestBeforeSprintHolds == Spec => RestBeforeSprint
<1> DEFINE Rests == exhausted /\ ~sprintActive /\ sprintActive'
                      => rest' + (sprintTime - usedUp) > sprintMinTime
<1>1. IInv /\ [Next]_vars => [Rests]_vars
  <2> SUFFICES ASSUME IInv, Next, exhausted, ~sprintActive, sprintActive'
               PROVE  rest' + (sprintTime - usedUp) > sprintMinTime
      OBVIOUS
  <2>1. PICK forward \in BOOLEAN, low \in BOOLEAN, air \in BOOLEAN, msec \in 1..MaxMsec :
            PM_UpdateSprint(forward, low, air, msec)
      BY DEF Next, Spawn, RequestSprint, SetSprintTime, SetSprintMinTime
  <2>2. Landed(forward, low, msec) /\ Granted(msec)
      BY <2>1 DEF PM_UpdateSprint, Disabled, NotReady, Airborne, Landed, Continue
  <2>3. /\ sprintTime \in Nat /\ sprintTimer \in Nat /\ rest \in Nat /\ sprintActive \in BOOLEAN
        /\ msec \in Nat \ {0} /\ sprintMinTime \in Nat /\ usedUp \in Nat
      BY SprintAssumption DEF SprintAssumption, IInv, TypeOK
  <2>4. Timer(msec) \in Nat /\ Timer(msec) >= sprintTimer - msec
      BY <2>3, TimerStep
  <2>5. sprintTimer + rest > usedUp
      BY DEF IInv, StaminaReturns
  <2>6. Timer(msec) < sprintTime - sprintMinTime
      BY <2>2 DEF Granted
  <2>7. rest' = IF rest <= usedUp THEN rest + msec ELSE rest
      BY <2>2 DEF Landed, Rested
  <2> QED BY <2>3, <2>4, <2>5, <2>6, <2>7
<1> QED BY Invariance, <1>1, PTL DEF Spec, RestBeforeSprint
===============================================================================
