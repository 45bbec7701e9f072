-------------------------------- MODULE Sprint --------------------------------
(***************************************************************************)
(* A player's sprint (iw1x.cpp 2562-2604, 2936-3016, 3160-3178): the       *)
(* client's "sprint" command asks for it, every player movement updates    *)
(* it, a stamina timer in milliseconds ends it and delays the next one.    *)
(***************************************************************************)
EXTENDS Integers

CONSTANTS
    SprintTimes,  \* values of player_sprintTime, in milliseconds
    MinTimes,     \* values of player_sprintMinTime, in milliseconds
    MaxMsec       \* longest movement step (pml->msec)

ASSUME SprintAssumption ==
    SprintTimes \subseteq Nat /\ MinTimes \subseteq Nat /\ MaxMsec \in Nat \ {0}

VARIABLES
    sprintTime, sprintMinTime,   \* the cvars
    sprintActive,                \* the fields of customPlayerState
    sprintRequestPending,
    sprintTimer,
    exhausted,  \* history: the last sprint ended because the stamina ran out
    usedUp,     \* history: player_sprintTime when it did
    rest        \* history: the time since then, until it exceeds usedUp
cvars == <<sprintTime, sprintMinTime>>
history == <<exhausted, usedUp, rest>>
vars == <<cvars, sprintActive, sprintRequestPending, sprintTimer, history>>

\* a player whose stamina is whole again
Recovered == exhausted' = FALSE /\ usedUp' = 0 /\ rest' = 0

Init ==
    /\ sprintTime \in SprintTimes /\ sprintMinTime \in MinTimes
    /\ sprintActive = FALSE /\ sprintRequestPending = FALSE /\ sprintTimer = 0
    /\ exhausted = FALSE /\ usedUp = 0 /\ rest = 0

\* custom_ClientSpawn, custom_SV_SendClientGameState
Spawn ==
    /\ sprintActive' = FALSE /\ sprintRequestPending' = FALSE /\ sprintTimer' = 0
    /\ Recovered
    /\ UNCHANGED cvars

\* UCMD_custom_sprint, when player_sprint is set; otherwise it only sends a message
RequestSprint ==
    /\ sprintActive' = FALSE
    /\ sprintRequestPending' = (~sprintActive /\ ~sprintRequestPending)
    /\ UNCHANGED <<cvars, sprintTimer, history>>

\* external: an administrator changes a cvar
SetSprintTime ==
    /\ sprintTime' \in SprintTimes
    /\ UNCHANGED <<sprintMinTime, sprintActive, sprintRequestPending, sprintTimer, history>>
SetSprintMinTime ==
    /\ sprintMinTime' \in MinTimes
    /\ UNCHANGED <<sprintTime, sprintActive, sprintRequestPending, sprintTimer, history>>

-------------------------------------------------------------------------------
(* PM_UpdateSprint.  forward: only the forward key is held; low: the player *)
(* crouches or lies; air: the player touches no ground.                     *)

Rested(msec) ==
    /\ rest' = IF exhausted /\ rest <= usedUp THEN rest + msec ELSE rest
    /\ UNCHANGED usedUp

\* player_sprintTime is 0: nobody sprints, and the timer is reset
Disabled ==
    /\ sprintTime = 0
    /\ sprintActive' = FALSE /\ sprintTimer' = 0
    /\ Recovered
    /\ UNCHANGED <<cvars, sprintRequestPending>>

\* a request of a player who does not run ends; one of a player who is low waits
NotReady(forward, low, msec) ==
    /\ sprintTime > 0 /\ sprintRequestPending
    /\ ~forward \/ low
    /\ sprintRequestPending' = forward
    /\ Rested(msec)
    /\ UNCHANGED <<cvars, sprintActive, sprintTimer, exhausted>>

\* mutant: the timer falls below zero while the player rests
TimerUnclamped(msec) == IF sprintActive THEN sprintTimer + msec ELSE sprintTimer - msec

Timer(msec) ==
    IF sprintActive THEN sprintTimer + msec
    ELSE IF sprintTimer > msec THEN sprintTimer - msec ELSE 0

\* the timer runs, and a player in the air keeps the request
Airborne(forward, low, msec) ==
    /\ sprintTime > 0 /\ sprintRequestPending
    /\ forward /\ ~low
    /\ sprintTimer' = Timer(msec)
    /\ Rested(msec)
    /\ UNCHANGED <<cvars, sprintActive, sprintRequestPending, exhausted>>

\* a player on the ground starts to sprint if the stamina lasts for player_sprintMinTime
\* mutant: any stamina left will do
GrantedAnyway(msec) == Timer(msec) < sprintTime
Granted(msec) == Timer(msec) < sprintTime - sprintMinTime

Landed(forward, low, msec) ==
    /\ sprintTime > 0 /\ sprintRequestPending
    /\ forward /\ ~low
    /\ sprintTimer' = Timer(msec)
    /\ sprintActive' = (sprintActive \/ Granted(msec))
    /\ sprintRequestPending' = FALSE
    /\ exhausted' = (exhausted /\ ~sprintActive')
    /\ Rested(msec)
    /\ UNCHANGED cvars

\* mutant: the stamina never ends a sprint
NeverExhausted(msec) == FALSE
Exhausted(msec) == Timer(msec) > sprintTime

\* no request: a sprint goes on while the player runs and the stamina lasts
Continue(forward, low, msec) ==
    /\ sprintTime > 0 /\ ~sprintRequestPending
    /\ sprintTimer' = Timer(msec)
    /\ sprintActive' = (sprintActive /\ forward /\ ~low /\ ~Exhausted(msec))
    /\ IF sprintActive /\ Exhausted(msec)
       THEN exhausted' = TRUE /\ usedUp' = sprintTime /\ rest' = 0
       ELSE UNCHANGED exhausted /\ Rested(msec)
    /\ UNCHANGED <<cvars, sprintRequestPending>>

\* mutant: the test of the ground is inverted
WaitOnGround(forward, low, air, msec) ==
    \/ Disabled \/ NotReady(forward, low, msec) \/ Continue(forward, low, msec)
    \/ ~air /\ Airborne(forward, low, msec)
    \/ air /\ Landed(forward, low, msec)

PM_UpdateSprint(forward, low, air, msec) ==
    \/ Disabled
    \/ NotReady(forward, low, msec)
    \/ air /\ Airborne(forward, low, msec)
    \/ ~air /\ Landed(forward, low, msec)
    \/ Continue(forward, low, msec)

Next ==
    \/ Spawn
    \/ RequestSprint
    \/ SetSprintTime \/ SetSprintMinTime
    \/ \E forward, low, air \in BOOLEAN, msec \in 1..MaxMsec :
          PM_UpdateSprint(forward, low, air, msec)

Spec == Init /\ [][Next]_vars

\* a player who moves lands and stands up again and again
FairSpec == Spec /\ WF_vars(\E msec \in 1..MaxMsec : PM_UpdateSprint(TRUE, FALSE, FALSE, msec))
-------------------------------------------------------------------------------
\* The variables have their types (customPlayerState_t).
TypeOK ==
    /\ sprintTime \in SprintTimes /\ sprintMinTime \in MinTimes
    /\ sprintActive \in BOOLEAN /\ sprintRequestPending \in BOOLEAN /\ exhausted \in BOOLEAN
    /\ sprintTimer \in Nat /\ usedUp \in Nat /\ rest \in Nat

\* The stamina bounds every sprint, however it is interrupted, resumed in the air or on
\* landing, and whatever player_sprintTime becomes meanwhile.
TimerBounded == \E t \in SprintTimes : sprintTimer <= t + MaxMsec

\* After a sprint that used up the stamina the next one starts only when the rest, and what an
\* administrator has added to player_sprintTime since then, exceed player_sprintMinTime; what
\* was taken off has to be rested as well.  A spawn, a gamestate and a movement while sprint is
\* switched off give the stamina back at once, as they reset the timer (2573-2575, 1324, 3003).
RestBeforeSprint ==
    [][exhausted /\ ~sprintActive /\ sprintActive'
         => rest' + (sprintTime - usedUp) > sprintMinTime]_vars

\* A request is granted or refused in the end.
RequestAnswered == sprintRequestPending ~> ~sprintRequestPending \/ sprintTime = 0
===============================================================================
