-------------------------- MODULE Challenges_proofs --------------------------
(***************************************************************************)
(* Theorems about Challenges.  The invariant says of the table what its    *)
(* loops rely on: no two entries have the same challenge, an entry's       *)
(* counter and times are those of the challenge in it, and entries with    *)
(* later times have challenges given later.                                *)
(***************************************************************************)
EXTENDS Challenges, FiniteSets, FiniteSetTheorems, TLAPS

Used(i) == challenges[i].challenge # 0

TypeTable ==
    /\ time \in 1..MaxTime
    /\ challenges \in [Slots -> Challenge]
    /\ ignoredCount \in [Slots -> 0..MessageChallenges]
    /\ created \in 0..MaxCreated /\ began \in 0..created
    /\ before \in [Numbers -> 0..MaxCreated]
    /\ firstAsked \in [Numbers -> 0..MaxTime]
    /\ shown \in [Numbers -> 0..MessageChallenges]

TypeRest ==
    /\ authorize \in {"unresolved", "bad", "resolved"} /\ communicated \in 0..MaxTime
    /\ asked \subseteq Numbers
    /\ holds \in [Addresses -> Numbers \cup {0}]

Numbered ==
    /\ \A i \in Slots : challenges[i].challenge <= created /\ (Used(i) <=> challenges[i].adr # Nobody)
    /\ \A i, j \in Slots : Used(i) /\ challenges[i].challenge = challenges[j].challenge => i = j

Dated ==
    \A i \in Slots :
        IF Used(i) THEN /\ challenges[i].time \in 1..time
                        /\ challenges[i].firstTime = firstAsked[challenges[i].challenge]
        ELSE challenges[i].time = 0

Counted ==
    /\ \A i \in Slots : Used(i) => shown[challenges[i].challenge] = ignoredCount[i]
    /\ \A n \in Numbers : created < n => shown[n] = 0

Ordered ==
    /\ \A i, j \in Slots : Used(i) /\ Used(j) /\ challenges[i].time <= challenges[j].time =>
          before[challenges[i].challenge] < challenges[j].challenge
    /\ \A i \in Slots : Used(i) /\ challenges[i].time = time => began < challenges[i].challenge

Table == TypeTable /\ Numbered /\ Dated /\ Counted /\ Ordered
IInv == Table /\ TypeRest

\* The table is as good when only flags of its entries changed.
LEMMA FlagsOnly ==
    ASSUME Table, challenges' \in [Slots -> Challenge],
           \A j \in Slots : /\ challenges'[j].adr = challenges[j].adr
                            /\ challenges'[j].challenge = challenges[j].challenge
                            /\ challenges'[j].time = challenges[j].time
                            /\ challenges'[j].firstTime = challenges[j].firstTime,
           UNCHANGED <<time, ignoredCount, history>>
    PROVE  Table'
<1>1. TypeTable'
    BY DEF Table, TypeTable, history
<1>2. \A j \in Slots : Used(j)' <=> Used(j)
    BY DEF Used
<1>3. Numbered'
    BY <1>2 DEF Table, Numbered, history
<1>4. Dated' /\ Counted'
    BY <1>2 DEF Table, Dated, Counted, history
<1>5. Ordered'
    BY <1>2 DEF Table, Ordered, history
<1> QED
    BY <1>1, <1>3, <1>4, <1>5 DEF Table

\* A slot that is given away with a new challenge keeps the table good, because its counter
\* starts anew and nobody has a later time (iw1x.cpp 900-914).
LEMMA GiveKeepsTable ==
    ASSUME Table, NEW a \in Addresses, NEW i \in Slots, Give(a, i), time' = time
    PROVE  /\ Table'
           /\ challenges'[i].adr = a /\ challenges'[i].challenge \in Numbers
<1> USE ChallengesAssumption, NobodyAssumption DEF ChallengesAssumption
<1>1. /\ created \in Nat /\ created < MaxCreated /\ created' = created + 1
      /\ began \in 0..created /\ time \in 1..MaxTime
      /\ created + 1 \in Numbers
    BY DEF Give, Table, TypeTable, Numbers
<1>2. NewChallenge(a) \in Challenge
    BY <1>1 DEF NewChallenge, Challenge
<1>3. /\ challenges'[i] = NewChallenge(a)
      /\ \A j \in Slots \ {i} : challenges'[j] = challenges[j]
      /\ ignoredCount'[i] = 0
      /\ \A j \in Slots \ {i} : ignoredCount'[j] = ignoredCount[j]
    BY DEF Give, Reset, Table, TypeTable
<1>4. TypeTable'
    BY <1>1, <1>2 DEF Give, Reset, Table, TypeTable, Numbers
<1>5. /\ Used(i)' /\ challenges'[i].challenge = created + 1 /\ challenges'[i].adr = a
      /\ challenges'[i].time = time /\ challenges'[i].firstTime = time
    BY <1>1, <1>3 DEF Used, NewChallenge
<1>6. \A j \in Slots \ {i} : (Used(j)' <=> Used(j)) /\ challenges[j] \in Challenge
    BY <1>3 DEF Used, Table, TypeTable
<1>7. \A j \in Slots : challenges[j].challenge \in 0..created
  <2> SUFFICES ASSUME NEW j \in Slots PROVE challenges[j].challenge \in 0..created
      OBVIOUS
  <2>1. challenges[j].challenge \in Numbers \cup {0} /\ challenges[j].challenge <= created
      BY DEF Table, TypeTable, Challenge, Numbered
  <2> QED BY <2>1, <1>1 DEF Numbers
<1>8. Numbered'
  <2>1. \A j \in Slots : challenges'[j].challenge <= created' /\ (Used(j)' <=> challenges'[j].adr # Nobody)
      BY <1>1, <1>3, <1>5, <1>6, <1>7 DEF Table, Numbered
  <2>2. \A j, k \in Slots : Used(j)' /\ challenges'[j].challenge = challenges'[k].challenge => j = k
      BY <1>1, <1>3, <1>5, <1>6, <1>7 DEF Table, Numbered
  <2> QED BY <2>1, <2>2 DEF Numbered, Used
<1>9. /\ firstAsked'[created + 1] = time /\ before'[created + 1] = began
      /\ \A n \in Numbers : n <= created => firstAsked'[n] = firstAsked[n] /\ before'[n] = before[n]
      /\ shown' = shown /\ began' = began
    BY <1>1 DEF Give, Table, TypeTable, Numbers
<1>10. Dated'
    BY <1>1, <1>3, <1>5, <1>6, <1>7, <1>9 DEF Table, Dated, Numbers, Used
<1>11. Counted'
    BY <1>1, <1>3, <1>5, <1>6, <1>7, <1>9 DEF Table, Counted, Numbers, Used
<1>12. Ordered'
  <2>1. ASSUME NEW j \in Slots, NEW k \in Slots, Used(j)', Used(k)',
               challenges'[j].time <= challenges'[k].time
        PROVE  before'[challenges'[j].challenge] < challenges'[k].challenge
    <3>1. CASE j # i /\ k # i
        BY <3>1, <2>1, <1>1, <1>3, <1>6, <1>7, <1>9 DEF Table, Ordered, Numbers, Used
    <3>2. CASE j = i /\ k # i
      <4>1. challenges[k].time = time
          BY <3>2, <2>1, <1>1, <1>3, <1>5, <1>6 DEF Table, Dated
      <4> QED BY <4>1, <3>2, <2>1, <1>3, <1>5, <1>6, <1>9 DEF Table, Ordered
    <3>3. CASE j # i /\ k = i
      <4>1. Used(j) /\ challenges[j] \in Challenge
          BY <3>3, <2>1, <1>6
      <4>2. challenges[j].challenge \in Numbers /\ challenges[j].time \in Nat
          BY <4>1 DEF Challenge, Used
      <4>3. before[challenges[j].challenge] \in Nat
          BY <4>2 DEF Table, TypeTable
      <4>4. before[challenges[j].challenge] < challenges[j].challenge
          BY <4>1, <4>2 DEF Table, Ordered
      <4>5. before'[challenges'[j].challenge] = before[challenges[j].challenge]
          BY <3>3, <4>2, <1>3, <1>7, <1>9
      <4>6. challenges[j].challenge <= created
          BY <1>7
      <4> QED BY <4>2, <4>3, <4>4, <4>5, <4>6, <3>3, <1>1, <1>5 DEF Numbers
    <3>4. CASE j = i /\ k = i
        BY <3>4, <1>1, <1>5, <1>9
    <3> QED BY <3>1, <3>2, <3>3, <3>4
  <2>2. \A j \in Slots : Used(j)' /\ challenges'[j].time = time' => began' < challenges'[j].challenge
      BY <1>1, <1>3, <1>5, <1>6, <1>9 DEF Table, Ordered, Used
  <2> QED BY <2>1, <2>2 DEF Ordered
<1> QED
    BY <1>1, <1>4, <1>5, <1>8, <1>10, <1>11, <1>12 DEF Table

\* getchallenge (iw1x.cpp 860-954).
LEMMA GetChallengeKeepsTable ==
    ASSUME IInv, NEW a \in Addresses, NEW i \in Slots, Chosen(a, i), time' = time
    PROVE  /\ Table'
           /\ challenges'[i].adr = a /\ challenges'[i].challenge \in Numbers
<1>1. CASE IsFirst(i, Open(a)) /\ Keep
  <2>1. Table'
      BY <1>1 DEF Keep, history, IInv, Table, TypeTable, Numbered, Dated, Counted, Ordered, Used
  <2>2. challenges[i] \in Challenge /\ challenges[i].adr = a /\ Used(i)
      BY <1>1, NobodyAssumption DEF IsFirst, Open, IInv, Table, TypeTable, Numbered
  <2> QED BY <1>1, <2>1, <2>2 DEF Keep, Challenge, Used
<1>2. CASE Give(a, i)
    BY <1>2, GiveKeepsTable DEF IInv
<1> QED
    BY <1>1, <1>2 DEF Chosen

LEMMA GetChallengeKeepsIInv ==
    ASSUME IInv, NEW a \in Addresses, SV_GetChallenge(a)
    PROVE  IInv'
<1>1. PICK i \in Slots :
          /\ Chosen(a, i)
          /\ AnswerLan(a, i) \/ Unresolvable(a) \/ AnswerTimedOut(a, i) \/ AskAuthorize(a, i)
    BY DEF SV_GetChallenge
<1>2. /\ Table' /\ time' = time
      /\ challenges'[i].adr = a /\ challenges'[i].challenge \in Numbers
    BY <1>1, GetChallengeKeepsTable DEF SV_GetChallenge
<1>3. TypeRest'
    BY <1>1, <1>2 DEF AnswerLan, Unresolvable, AnswerTimedOut, AskAuthorize, Respond, Resolve,
                      IInv, TypeRest
<1> QED
    BY <1>2, <1>3 DEF IInv

\* connect and the message it may be answered with (iw1x.cpp 1054-1076).
LEMMA ShowMessageKeepsIInv ==
    ASSUME IInv, NEW a \in Addresses, ShowMessage(a)
    PROVE  IInv'
<1> USE ChallengesAssumption DEF ChallengesAssumption
<1> DEFINE n == holds[a]
<1>1. PICK i \in Slots :
          /\ challenges[i].challenge = n /\ Unshown(i)
          /\ ignoredCount' = [ignoredCount EXCEPT ![i] = @ + 1]
    BY DEF ShowMessage, Matching
<1>2. n \in Numbers /\ Used(i)
    BY <1>1 DEF ShowMessage, IInv, TypeRest, Used
<1>3. shown[n] = ignoredCount[i] /\ ignoredCount[i] \in 0..MessageChallenges
    BY <1>1, <1>2 DEF IInv, Table, TypeTable, Counted
<1>4. /\ ignoredCount' \in [Slots -> 0..MessageChallenges]
      /\ shown' \in [Numbers -> 0..MessageChallenges]
    BY <1>1, <1>2, <1>3 DEF ShowMessage, Unshown, IInv, Table, TypeTable
<1>5. /\ UNCHANGED <<time, challenges, authorize, communicated, asked, holds, created, began>>
      /\ UNCHANGED <<before, firstAsked>>
    BY DEF ShowMessage
<1>6. TypeTable' /\ TypeRest'
    BY <1>4, <1>5 DEF IInv, Table, TypeTable, TypeRest
<1>7. Numbered' /\ Dated' /\ Ordered'
    BY <1>5 DEF IInv, Table, Numbered, Dated, Ordered, Used
<1>8. Counted'
  <2>1. ASSUME NEW j \in Slots, Used(j)
        PROVE  shown'[challenges[j].challenge] = ignoredCount'[j]
    <3>1. CASE j = i
        BY <3>1, <1>1, <1>2, <1>3 DEF ShowMessage, IInv, Table, TypeTable
    <3>2. CASE j # i
      <4>1. challenges[j].challenge # n
          BY <3>2, <2>1, <1>1, <1>2 DEF IInv, Table, Numbered
      <4> QED BY <4>1, <3>2, <2>1, <1>1 DEF ShowMessage, IInv, Table, TypeTable, Counted
    <3> QED BY <3>1, <3>2
  <2>2. n <= created
      BY <1>1 DEF IInv, Table, Numbered
  <2>3. ASSUME NEW m \in Numbers, created < m PROVE shown'[m] = 0
    <3>1. m # n
        BY <2>2, <2>3, <1>2 DEF Numbers, IInv, Table, TypeTable
    <3> QED BY <3>1, <2>3 DEF ShowMessage, IInv, Table, TypeTable, Counted
  <2> QED BY <2>1, <2>3, <1>5 DEF Counted, Used
<1> QED
    BY <1>6, <1>7, <1>8 DEF IInv, Table

LEMMA ConnectionsKeepIInv ==
    ASSUME IInv, NEW a \in Addresses, DirectConnect(a) \/ DropClient(a)
    PROVE  IInv'
<1>1. /\ challenges' \in [Slots -> Challenge]
      /\ \A j \in Slots : /\ challenges'[j].adr = challenges[j].adr
                          /\ challenges'[j].challenge = challenges[j].challenge
                          /\ challenges'[j].time = challenges[j].time
                          /\ challenges'[j].firstTime = challenges[j].firstTime
  <2>1. challenges \in [Slots -> Challenge]
      BY DEF IInv, Table, TypeTable
  <2>2. CASE challenges' = challenges
      BY <2>1, <2>2
  <2>3. CASE \E i \in Slots, c \in BOOLEAN : challenges' = [challenges EXCEPT ![i].connected = c]
      BY <2>1, <2>3 DEF Challenge
  <2> QED BY <2>2, <2>3 DEF DirectConnect, DropClient, IsFirst, Matching
<1>2. UNCHANGED <<time, ignoredCount, authorize, communicated, asked, history>>
    BY DEF DirectConnect, DropClient
<1>3. Table'
    BY <1>1, <1>2, FlagsOnly DEF IInv
<1>4. TypeRest'
    BY <1>2 DEF DirectConnect, DropClient, IInv, TypeRest
<1> QED
    BY <1>3, <1>4 DEF IInv

\* A verdict; a client that is denied loses its entry.
LEMMA VerdictKeepsIInv ==
    ASSUME IInv, NEW n \in Numbers, NEW verdict \in {"accept", "deny"},
           AuthorizeIpPacket(n, verdict)
    PROVE  IInv'
<1> USE ChallengesAssumption DEF ChallengesAssumption
<1>1. UNCHANGED <<time, ignoredCount, authorize, asked, history>>
    BY DEF AuthorizeIpPacket
<1>2. TypeRest'
    BY <1>1 DEF AuthorizeIpPacket, Respond, IInv, TypeRest, Table, TypeTable
<1>3. CASE challenges' = challenges
  <2>1. challenges' \in [Slots -> Challenge]
      BY <1>3 DEF IInv, Table, TypeTable
  <2> QED BY <1>1, <1>2, <1>3, <2>1, FlagsOnly DEF IInv
<1>4. CASE \E i \in Slots : challenges' = [challenges EXCEPT ![i] = Empty]
  <2>1. PICK i \in Slots : challenges' = [challenges EXCEPT ![i] = Empty]
      BY <1>4
  <2>2. Empty \in Challenge
      BY DEF Empty, Challenge
  <2>3. /\ ~Used(i)' /\ challenges'[i].adr = Nobody /\ challenges'[i].challenge = 0 /\ challenges'[i].time = 0
        /\ \A j \in Slots \ {i} : challenges'[j] = challenges[j]
      BY <2>1 DEF Empty, Used, IInv, Table, TypeTable
  <2>4. TypeTable'
      BY <1>1, <2>1, <2>2 DEF history, IInv, Table, TypeTable
  <2>5. Numbered'
      BY <1>1, <2>3 DEF history, IInv, Table, TypeTable, Numbered, Used
  <2>6. Dated' /\ Counted' /\ Ordered'
      BY <1>1, <2>3 DEF history, IInv, Table, Dated, Counted, Ordered, Used
  <2> QED BY <1>2, <2>4, <2>5, <2>6 DEF IInv, Table
<1> QED
    BY <1>2, <1>3, <1>4 DEF AuthorizeIpPacket, IInv

\* No entry has the time of a frame that has just begun.
LEMMA TickKeepsIInv ==
    ASSUME IInv, Tick
    PROVE  IInv'
<1> USE ChallengesAssumption DEF ChallengesAssumption
<1>1. /\ time \in 1..MaxTime /\ time < MaxTime /\ time' = time + 1 /\ began' = created
      /\ UNCHANGED <<server, asked, holds, created, before, firstAsked, shown>>
    BY DEF Tick, IInv, Table, TypeTable
<1>2. TypeTable' /\ TypeRest'
    BY <1>1 DEF server, IInv, Table, TypeTable, TypeRest
<1>3. Numbered' /\ Counted'
    BY <1>1 DEF server, IInv, Table, Numbered, Counted, Used
<1>4. Dated'
    BY <1>1 DEF server, IInv, Table, Dated, Used
<1>5. \A i \in Slots : Used(i) => challenges[i].time # time'
    BY <1>1 DEF IInv, Table, Dated
<1>6. Ordered'
    BY <1>1, <1>5 DEF server, IInv, Table, Ordered, Used
<1> QED
    BY <1>2, <1>3, <1>4, <1>6 DEF IInv, Table

LEMMA InitIInv == Init => IInv
<1> SUFFICES ASSUME Init PROVE IInv
    OBVIOUS
<1> USE ChallengesAssumption DEF ChallengesAssumption
<1>1. TypeTable /\ TypeRest
    BY DEF Init, TypeTable, TypeRest, Empty, Challenge, Numbers
<1>2. Numbered /\ Dated /\ Counted /\ Ordered
    BY DEF Init, Numbered, Dated, Counted, Ordered, Used, Empty
<1> QED
    BY <1>1, <1>2 DEF IInv, Table

LEMMA NextIInv == IInv /\ [Next]_vars => IInv'
<1> SUFFICES ASSUME IInv, [Next]_vars PROVE IInv'
    OBVIOUS
<1>1. CASE UNCHANGED vars
    BY <1>1 DEF vars, server, history, IInv, Table, TypeTable, TypeRest, Numbered, Dated,
                Counted, Ordered, Used
<1>2. CASE Next
    BY <1>2, GetChallengeKeepsIInv, ShowMessageKeepsIInv, ConnectionsKeepIInv, VerdictKeepsIInv,
       TickKeepsIInv DEF Next
<1> QED
    BY <1>1, <1>2

\* The inductive invariant holds in every reachable state.
THEOREM Invariance == Spec => []IInv
    BY InitIInv, NextIInv, PTL DEF Spec

\* The variables always have their types.
THEOREM TypeCorrect == Spec => []TypeOK
<1>1. IInv => TypeOK
    BY DEF IInv, Table, TypeTable, TypeRest, TypeOK
<1> QED BY <1>1, Invariance, PTL

\* A client gets in only after the message was shown for the challenge it has.
THEOREM MessageFirstHolds == Spec => MessageFirst
<1> DEFINE Shown == \A i \in Slots :
        ~challenges[i].connected /\ challenges'[i].connected =>
            shown[challenges[i].challenge] >= MessageChallenges
<1>1. IInv /\ [Next]_vars => [Shown]_vars
  <2> SUFFICES ASSUME IInv, Next, NEW i \in Slots,
                      ~challenges[i].connected, challenges'[i].connected
               PROVE  shown[challenges[i].challenge] >= MessageChallenges
      OBVIOUS
  <2>1. challenges \in [Slots -> Challenge]
      BY DEF IInv, Table, TypeTable
  <2>2. CASE \E a \in Addresses : DirectConnect(a)
    <3>1. PICK a \in Addresses : DirectConnect(a)
        BY <2>2
    <3>2. i \in Matching(a) /\ holds[a] # 0 /\ ~Unshown(i)
        BY <2>1, <3>1 DEF DirectConnect, Matching
    <3>3. shown[challenges[i].challenge] = ignoredCount[i]
        BY <3>2 DEF Matching, IInv, Table, Counted, Used
    <3>4. ignoredCount[i] \in Nat
        BY ChallengesAssumption DEF ChallengesAssumption, IInv, Table, TypeTable
    <3> QED BY <3>2, <3>3, <3>4, ChallengesAssumption DEF ChallengesAssumption, Unshown
  <2>3. CASE \E a \in Addresses : SV_GetChallenge(a)
    <3>1. PICK a \in Addresses, k \in Slots : Chosen(a, k)
        BY <2>3 DEF SV_GetChallenge
    <3>2. challenges'[i] = challenges[i] \/ challenges'[i] = NewChallenge(a)
        BY <2>1, <3>1 DEF Chosen, Keep, Give
    <3> QED BY <3>2 DEF NewChallenge
  <2>4. CASE \E a \in Addresses : DropClient(a)
      BY <2>1, <2>4 DEF DropClient, IsFirst
  <2>5. CASE \E n \in Numbers, verdict \in {"accept", "deny"} : AuthorizeIpPacket(n, verdict)
      BY <2>1, <2>5 DEF AuthorizeIpPacket, Empty
  <2>6. CASE Tick \/ \E a \in Addresses : ShowMessage(a)
      BY <2>6 DEF Tick, ShowMessage, server
  <2> QED BY <2>2, <2>3, <2>4, <2>5, <2>6 DEF Next
<1> QED BY Invariance, <1>1, PTL DEF Spec, MessageFirst

\* Without a verdict nobody but a local client is answered before the timeouts.
THEOREM AnsweredInTimeHolds == Spec => AnsweredInTime
<1> DEFINE InTime == \A a \in Addresses \ Lan :
        LET n == holds'[a]
        IN n \notin {0, holds[a]} /\ communicated' # time =>
              time - communicated > Timeout /\ time - firstAsked'[n] > Timeout
<1>1. IInv /\ [Next]_vars => [InTime]_vars
  <2> SUFFICES ASSUME IInv, Next, NEW b \in Addresses \ Lan,
                      holds'[b] \notin {0, holds[b]}, communicated' # time
               PROVE  time - communicated > Timeout /\ time - firstAsked'[holds'[b]] > Timeout
      OBVIOUS
  <2>1. holds \in [Addresses -> Numbers \cup {0}] /\ holds' # holds
      BY DEF IInv, TypeRest
  <2>2. PICK a \in Addresses : SV_GetChallenge(a)
      BY <2>1 DEF Next, ShowMessage, DirectConnect, DropClient, AuthorizeIpPacket, Tick
  <2>3. PICK i \in Slots :
          /\ Chosen(a, i)
          /\ AnswerLan(a, i) \/ Unresolvable(a) \/ AnswerTimedOut(a, i) \/ AskAuthorize(a, i)
      BY <2>2 DEF SV_GetChallenge
  <2>4. /\ Table' /\ time' = time
        /\ challenges'[i].adr = a /\ challenges'[i].challenge \in Numbers
      BY <2>2, <2>3, GetChallengeKeepsTable DEF SV_GetChallenge
  <2>5. TimedOut(i) /\ holds' = [holds EXCEPT ![a] = challenges'[i].challenge]
      BY <2>1, <2>3, <2>4 DEF AnswerLan, Unresolvable, AnswerTimedOut, AskAuthorize, Respond
  <2>6. holds'[b] = challenges'[i].challenge
      BY <2>1, <2>5
  <2>7. challenges'[i].firstTime = firstAsked'[challenges'[i].challenge]
      BY <2>4, 0 \notin Numbers DEF Table, Dated, Used, Numbers
  <2> QED BY <2>5, <2>6, <2>7, ChallengesAssumption DEF ChallengesAssumption, TimedOut
<1> QED BY Invariance, <1>1, PTL DEF Spec, AnsweredInTime

\* Distinct numbers above m and up to k are k - m at most.
LEMMA Crowded ==
    ASSUME NEW m \in Nat, NEW k \in Nat, NEW f \in [Slots -> m + 1..k],
           \A i, j \in Slots : f[i] = f[j] => i = j
    PROVE  MaxChallenges <= k - m
<1> USE ChallengesAssumption DEF ChallengesAssumption
<1>1. IsFiniteSet(Slots) /\ Cardinality(Slots) = MaxChallenges
    BY FS_Interval DEF Slots
<1>2. IsFiniteSet(m + 1..k) /\ Cardinality(m + 1..k) = IF m + 1 > k THEN 0 ELSE k - m
    BY FS_Interval
<1>3. f \in Injection(Slots, m + 1..k)
    BY DEF Injection, IsInjective
<1>4. Cardinality(Slots) <= Cardinality(m + 1..k)
    BY <1>2, <1>3, FS_Injection
<1> QED
    BY <1>1, <1>2, <1>4

\* The oldest entry is taken away only when the table is full of those given since the frame it
\* was given in began.
THEOREM SurvivesFloodHolds == Spec => SurvivesFlood
<1> DEFINE Late == \A i \in Slots :
        LET n == challenges[i].challenge
        IN n # 0 /\ challenges'[i].challenge \notin {0, n} => created - before[n] >= MaxChallenges
<1>1. IInv /\ [Next]_vars => [Late]_vars
  <2> SUFFICES ASSUME IInv, Next, NEW i \in Slots, challenges[i].challenge # 0,
                      challenges'[i].challenge \notin {0, challenges[i].challenge}
               PROVE  created - before[challenges[i].challenge] >= MaxChallenges
      OBVIOUS
  <2> DEFINE m == before[challenges[i].challenge]
  <2>1. challenges \in [Slots -> Challenge] /\ created \in Nat
      BY ChallengesAssumption DEF ChallengesAssumption, IInv, Table, TypeTable
  <2>2. PICK a \in Addresses, k \in Slots : Chosen(a, k)
    <3>1. CASE \E a \in Addresses : SV_GetChallenge(a)
        BY <3>1 DEF SV_GetChallenge
    <3>2. CASE \E a \in Addresses : ShowMessage(a) \/ DirectConnect(a) \/ DropClient(a)
      <4>1. CASE challenges' = challenges
          BY <4>1
      <4>2. CASE \E j \in Slots, c \in BOOLEAN : challenges' = [challenges EXCEPT ![j].connected = c]
          BY <2>1, <4>2 DEF Challenge
      <4> QED BY <3>2, <4>1, <4>2 DEF ShowMessage, DirectConnect, DropClient, IsFirst, Matching
    <3>3. CASE Tick \/ \E n \in Numbers, verdict \in {"accept", "deny"} :
                          AuthorizeIpPacket(n, verdict)
        BY <2>1, <3>3 DEF Tick, server, AuthorizeIpPacket, Empty
    <3> QED BY <3>1, <3>2, <3>3 DEF Next
  <2>3. k = i /\ i \in Oldest
      BY <2>1, <2>2 DEF Chosen, Keep, Give, IsFirst
  <2>4. m \in Nat
    <3>1. challenges[i].challenge \in Numbers
        BY <2>1 DEF Challenge
    <3> QED BY <3>1 DEF IInv, Table, TypeTable
  <2>5. ASSUME NEW j \in Slots
        PROVE  Used(j) /\ challenges[j].challenge \in m + 1..created
    <3>1. challenges[i].time <= challenges[j].time
        BY <2>3 DEF Oldest
    <3>2. challenges[i].time > 0 /\ challenges[j] \in Challenge
        BY <2>1 DEF IInv, Table, Dated, Used
    <3>3. Used(j)
        BY <3>1, <3>2 DEF IInv, Table, Dated
    <3>4. m < challenges[j].challenge
        BY <3>1, <3>3 DEF IInv, Table, Ordered, Used
    <3>5. challenges[j].challenge <= created /\ challenges[j].challenge \in Nat
        BY <3>2 DEF IInv, Table, Numbered, Challenge, Numbers
    <3> QED BY <2>1, <2>4, <3>3, <3>4, <3>5
  <2> DEFINE f == [j \in Slots |-> challenges[j].challenge]
  <2>6. f \in [Slots -> m + 1..created]
      BY <2>5
  <2>7. \A j, l \in Slots : f[j] = f[l] => j = l
      BY <2>5 DEF IInv, Table, Numbered
  <2>8. MaxChallenges <= created - m
    <3> HIDE DEF f, m
    <3> QED BY <2>1, <2>4, <2>6, <2>7, Crowded
  <2> QED BY <2>1, <2>4, <2>8, ChallengesAssumption DEF ChallengesAssumption
<1> QED BY Invariance, <1>1, PTL DEF Spec, SurvivesFlood
===============================================================================
