------------------------------ MODULE Challenges ------------------------------
(***************************************************************************)
(* The challenges a client needs before it may connect (iw1x.cpp 860-954   *)
(* and 1054-1076): a table of fixed size whose oldest entry is reused, the *)
(* authorize server that is asked about a client or, when it is silent,    *)
(* waited for in vain, and the message a client is shown some times before *)
(* it is let in.  The rate limits and the ban check in front of these      *)
(* handlers only keep packets from them.  Challenges are numbered as they  *)
(* are given: rand does not repeat itself.  pingTime is left out.          *)
(***************************************************************************)
EXTENDS Integers

CONSTANTS
    Addresses,          \* clients, by address and port
    Lan,                \* those Sys_IsLANAddress finds, unless net_lanauthorize is set
    MaxChallenges,      \* MAX_CHALLENGES (1024)
    Timeout,            \* AUTHORIZE_TIMEOUT
    MessageChallenges,  \* sv_connectMessageChallenges; 0 without a message
    Cracked,            \* sv_cracked
    MaxCreated,         \* bound on the challenges ever given
    MaxTime             \* bound on svs.time

ASSUME ChallengesAssumption ==
    /\ Lan \subseteq Addresses
    /\ MaxChallenges \in Nat \ {0} /\ MaxCreated \in Nat
    /\ Timeout \in Nat /\ MessageChallenges \in Nat /\ Cracked \in BOOLEAN
    /\ MaxTime \in Nat \ {0}

Numbers == 1..MaxCreated
Slots == 0..MaxChallenges - 1
Nobody == "nobody"   \* the address of an entry that is all zeros
ASSUME NobodyAssumption == Nobody \notin Addresses

VARIABLES
    time,           \* svs.time
    challenges,     \* svs.challenges
    ignoredCount,   \* customChallenge[].ignoredCount
    authorize,      \* svs.authorizeAddress: unresolved, bad or resolved
    communicated,   \* svs.sv_lastTimeMasterServerCommunicated
    asked,          \* external: challenges the authorize server was asked about
    holds,          \* external: the challenge each client was answered with last, or 0
    created,        \* the number of the last challenge
    began,          \* history: the last challenge given before this frame
    before,         \* history: the last one given before the frame in which a challenge was
    firstAsked,     \* history: when a challenge was given
    shown           \* history: how often the message was shown to the client that has it
server == <<challenges, ignoredCount, authorize, communicated>>
history == <<created, began, before, firstAsked, shown>>
vars == <<time, server, asked, holds, history>>

Empty == [adr |-> Nobody, challenge |-> 0, firstTime |-> 0, time |-> 0, connected |-> FALSE]

Init ==
    /\ time = 1
    /\ challenges = [i \in Slots |-> Empty]
    /\ ignoredCount = [i \in Slots |-> 0]
    /\ authorize = "unresolved" /\ communicated = 0
    /\ asked = {}
    /\ holds = [a \in Addresses |-> 0]
    /\ created = 0 /\ began = 0
    /\ before = [n \in Numbers |-> 0]
    /\ firstAsked = [n \in Numbers |-> 0]
    /\ shown = [n \in Numbers |-> 0]

-------------------------------------------------------------------------------
(* custom_SV_GetChallenge                                                   *)

IsFirst(i, S) == i \in S /\ \A j \in S : i <= j

\* the entries of a that no client is connected with; the first one is used again
Open(a) == {i \in Slots : challenges[i].adr = a /\ ~challenges[i].connected}

\* mutant: the search never moves on from the first entry
First == {0}
Oldest == {i \in Slots : \A j \in Slots : challenges[i].time <= challenges[j].time}

NewChallenge(a) ==
    [adr |-> a, challenge |-> created + 1, firstTime |-> time, time |-> time,
     connected |-> FALSE]

\* mutant: the new owner inherits the count
Inherited(i) == ignoredCount
Reset(i) == [ignoredCount EXCEPT ![i] = 0]

\* slot i is given to a with a new challenge
Give(a, i) ==
    /\ created < MaxCreated
    /\ created' = created + 1
    /\ challenges' = [challenges EXCEPT ![i] = NewChallenge(a)]
    /\ ignoredCount' = Reset(i)
    /\ before' = [before EXCEPT ![created + 1] = began]
    /\ firstAsked' = [firstAsked EXCEPT ![created + 1] = time]
    /\ UNCHANGED <<began, shown>>

Keep == UNCHANGED <<challenges, ignoredCount, history>>

\* the entry the handler answers from: a's own, or else the oldest, which a is given
Chosen(a, i) ==
    \/ IsFirst(i, Open(a)) /\ Keep
    \/ Open(a) = {} /\ IsFirst(i, Oldest) /\ Give(a, i)

\* challengeResponse
Respond(a, n) == holds' = [holds EXCEPT ![a] = n]

\* a client of the local network is answered at once
AnswerLan(a, i) ==
    /\ a \in Lan
    /\ Respond(a, challenges'[i].challenge)
    /\ UNCHANGED <<authorize, communicated, asked>>

\* NET_StringToAdr fails, which marks the address as bad
Unresolvable(a) ==
    /\ a \notin Lan /\ authorize = "unresolved"
    /\ authorize' = "bad"
    /\ UNCHANGED <<communicated, asked, holds>>

Resolve == IF authorize = "unresolved" THEN "resolved" ELSE authorize

\* mutant: the client need not wait
Silent(i) == Timeout < time - communicated


TimedOut(i) == Timeout < time - communicated /\ Timeout < time - challenges'[i].firstTime

AnswerTimedOut(a, i) ==
    /\ a \notin Lan /\ TimedOut(i)
    /\ authorize' = Resolve
    /\ Respond(challenges'[i].adr, challenges'[i].challenge)
    /\ UNCHANGED <<communicated, asked>>

\* SV_AuthorizeRequest sends nothing to a bad address
AskAuthorize(a, i) ==
    /\ a \notin Lan /\ ~TimedOut(i)
    /\ authorize' = Resolve
    /\ asked' = IF authorize = "bad" THEN asked ELSE asked \cup {challenges'[i].challenge}
    /\ UNCHANGED <<communicated, holds>>

SV_GetChallenge(a) ==
    /\ \E i \in Slots :
        /\ Chosen(a, i)
        /\ AnswerLan(a, i) \/ Unresolvable(a) \/ AnswerTimedOut(a, i) \/ AskAuthorize(a, i)
    /\ UNCHANGED time

-------------------------------------------------------------------------------
(* hook_SV_DirectConnect, behind the ban check, with the challenge the      *)
(* client holds.                                                            *)
Matching(a) == {i \in Slots : challenges[i].adr = a /\ challenges[i].challenge = holds[a]}

\* mutant: once too often
UnshownOnceMore(i) == ignoredCount[i] <= MessageChallenges
Unshown(i) == ignoredCount[i] < MessageChallenges

\* the message instead of an answer
ShowMessage(a) ==
    /\ holds[a] # 0
    /\ \E i \in Matching(a) :
          /\ Unshown(i)
          /\ ignoredCount' = [ignoredCount EXCEPT ![i] = @ + 1]
    /\ shown' = [shown EXCEPT ![holds[a]] = @ + 1]
    /\ UNCHANGED <<time, challenges, authorize, communicated, asked, holds, created, began,
                   before, firstAsked>>

\* SV_DirectConnect (external): the client is in, or told that its challenge is no good
DirectConnect(a) ==
    /\ holds[a] # 0
    /\ \A i \in Matching(a) : ~Unshown(i)
    /\ IF Matching(a) = {}
       THEN holds' = [holds EXCEPT ![a] = 0] /\ UNCHANGED challenges
       ELSE /\ \E i \in Matching(a) : challenges' = [challenges EXCEPT ![i].connected = TRUE]
            /\ UNCHANGED holds
    /\ UNCHANGED <<time, ignoredCount, authorize, communicated, asked, history>>

-------------------------------------------------------------------------------
(* The engine and the authorize server, external.                           *)

\* SV_DropClient: the first entry of the address is open again
DropClient(a) ==
    /\ \E i \in Slots :
          /\ IsFirst(i, {j \in Slots : challenges[j].adr = a})
          /\ challenges' = [challenges EXCEPT ![i].connected = FALSE]
    /\ holds' = [holds EXCEPT ![a] = 0]
    /\ UNCHANGED <<time, ignoredCount, authorize, communicated, asked, history>>

\* hook_AuthorizeState: what the server makes of the verdict
AuthorizeState(verdict) == IF Cracked /\ verdict = "deny" THEN "accept" ELSE verdict

\* SV_AuthorizeIpPacket (external): a verdict, maybe a late or a doubled one; a client that is
\* denied loses its entry
AuthorizeIpPacket(n, verdict) ==
    /\ n \in asked
    /\ communicated' = time
    /\ \/ /\ \A i \in Slots : challenges[i].challenge # n
          /\ UNCHANGED <<challenges, holds>>
       \/ \E i \in Slots :
          /\ challenges[i].challenge = n
          /\ IF AuthorizeState(verdict) = "accept"
             THEN Respond(challenges[i].adr, n) /\ UNCHANGED challenges
             ELSE challenges' = [challenges EXCEPT ![i] = Empty] /\ UNCHANGED holds
    /\ UNCHANGED <<time, ignoredCount, authorize, asked, history>>

\* the next frame
Tick ==
    /\ time < MaxTime
    /\ time' = time + 1 /\ began' = created
    /\ UNCHANGED <<server, asked, holds, created, before, firstAsked, shown>>

Next ==
    \/ \E a \in Addresses :
          SV_GetChallenge(a) \/ ShowMessage(a) \/ DirectConnect(a) \/ DropClient(a)
    \/ \E n \in Numbers, verdict \in {"accept", "deny"} : AuthorizeIpPacket(n, verdict)
    \/ Tick

Spec == Init /\ [][Next]_vars

(* Frames go on, and every client asks again and again.                     *)
FairSpec == Spec /\ WF_vars(Tick) /\ \A a \in Addresses : WF_vars(SV_GetChallenge(a))
-------------------------------------------------------------------------------
Challenge == [adr : Addresses \cup {Nobody}, challenge : Numbers \cup {0},
              firstTime : 0..MaxTime, time : 0..MaxTime, connected : BOOLEAN]

\* The variables have their types; an entry was made no later than now.
TypeOK ==
    /\ time \in 1..MaxTime
    /\ challenges \in [Slots -> Challenge]
    /\ ignoredCount \in [Slots -> 0..MessageChallenges]
    /\ authorize \in {"unresolved", "bad", "resolved"} /\ communicated \in 0..MaxTime
    /\ asked \subseteq Numbers
    /\ holds \in [Addresses -> Numbers \cup {0}]
    /\ created \in 0..MaxCreated /\ began \in 0..created
    /\ before \in [Numbers -> 0..MaxCreated]
    /\ firstAsked \in [Numbers -> 0..MaxTime]
    /\ shown \in [Numbers -> 0..MessageChallenges]

\* A client gets in only after it was shown the message as often as it should be for the
\* challenge it was given, whoever had the slot before.
MessageFirst ==
    [][\A i \in Slots : ~challenges[i].connected /\ challenges'[i].connected =>
          shown[challenges[i].challenge] >= MessageChallenges]_vars

\* Without a verdict a client that is not local is answered only when both the authorize
\* server has been silent and the client has waited for longer than the timeout, whoever had
\* the slot before.
AnsweredInTime ==
    [][\A a \in Addresses \ Lan :
          LET n == holds'[a]
          IN n \notin {0, holds[a]} /\ communicated' # time =>
                time - communicated > Timeout /\ time - firstAsked'[n] > Timeout]_vars

\* Other clients take a challenge away only when the table is full of those given since the
\* frame in which it was given began: with the few a frame's rate limit lets through, a flood
\* leaves a client time to connect.
SurvivesFlood ==
    [][\A i \in Slots :
          LET n == challenges[i].challenge
          IN n # 0 /\ challenges'[i].challenge \notin {0, n} =>
                created - before[n] >= MaxChallenges]_vars

\* A client that keeps asking is answered although the authorize server says nothing, even if
\* its entry is taken away meanwhile, unless the bound of time comes first.
Waits(a) ==
    /\ holds[a] = 0 /\ communicated + Timeout < MaxTime
    /\ \E i \in Slots : IsFirst(i, Open(a)) /\ challenges[i].firstTime + Timeout < MaxTime
===============================================================================
