---------------------------- MODULE BanList_proofs ----------------------------
(***************************************************************************)
(* Theorems about BanList: for every number of addresses and slots and for *)
(* all durations, ban.txt lists no address twice, and nobody gets in from  *)
(* an address before its ban ends.                                         *)
(***************************************************************************)
EXTENDS BanList, SequenceTheorems, TLAPS

Entry == [ip : Ips, duration : Durations \cup {Permanent}, date : 0..MaxTime]
Slot == [state : States, ip : Ips]
Command == [name : {"ban", "unban"}, ip : Ips, options : SUBSET {"-i"},
            duration : Durations \cup {Permanent}]

\* when the ban of a line ends
EndOf(line) == IF line.duration = Permanent THEN Never ELSE line.date + line.duration

\* the file and the history agree: a listed ban ends when it was said to, and an address
\* that is not listed is not banned
Agree ==
    /\ \A i \in DOMAIN banFile : until[banFile[i].ip] = EndOf(banFile[i])
    /\ \A ip \in Ips : Listed(ip) \/ until[ip] = 0

IInv == TypeOK /\ NoDuplicateEntries /\ Agree

\* Cutting a line out moves the later ones up (unban, iw1x.cpp 1938-1980).
LEMMA RemoveAtProperties ==
    ASSUME NEW S, NEW s \in Seq(S), NEW k \in DOMAIN s
    PROVE  /\ RemoveAt(s, k) \in Seq(S)
           /\ DOMAIN RemoveAt(s, k) = 1..Len(s) - 1
           /\ \A i \in 1..Len(s) - 1 : RemoveAt(s, k)[i] = IF i < k THEN s[i] ELSE s[i + 1]
<1> DEFINE front == SubSeq(s, 1, k - 1)
           back == SubSeq(s, k + 1, Len(s))
<1>1. /\ Len(s) \in Nat /\ k \in 1..Len(s) /\ \A i \in 1..Len(s) : s[i] \in S
    OBVIOUS
<1>2. /\ front \in Seq(S) /\ Len(front) = k - 1
      /\ \A i \in 1..k - 1 : front[i] = s[i]
  <2>1. \A i \in 1..k - 1 : s[i] \in S
      BY <1>1
  <2>2. /\ front \in Seq(S) /\ Len(front) = IF 1 <= k - 1 THEN k - 1 - 1 + 1 ELSE 0
        /\ \A i \in 1..k - 1 - 1 + 1 : front[i] = s[1 + i - 1]
      BY <1>1, <2>1, SubSeqProperties
  <2> HIDE DEF front
  <2> QED BY <1>1, <2>2
<1>3. /\ back \in Seq(S) /\ Len(back) = Len(s) - k
      /\ \A i \in 1..Len(s) - k : back[i] = s[k + i]
  <2>1. \A i \in k + 1..Len(s) : s[i] \in S
      BY <1>1
  <2>2. /\ back \in Seq(S)
        /\ Len(back) = IF k + 1 <= Len(s) THEN Len(s) - (k + 1) + 1 ELSE 0
        /\ \A i \in 1..Len(s) - (k + 1) + 1 : back[i] = s[k + 1 + i - 1]
      BY <1>1, <2>1, SubSeqProperties
  <2> HIDE DEF back
  <2> QED BY <1>1, <2>2
<1> HIDE DEF front, back
<1>4. /\ front \o back \in Seq(S) /\ Len(front \o back) = Len(front) + Len(back)
      /\ \A i \in 1..Len(front) + Len(back) :
            (front \o back)[i] = IF i <= Len(front) THEN front[i] ELSE back[i - Len(front)]
    BY <1>2, <1>3, ConcatProperties
<1>5. RemoveAt(s, k) = front \o back
    BY DEF RemoveAt, front, back
<1>6. DOMAIN (front \o back) = 1..Len(s) - 1
    BY <1>1, <1>2, <1>3, <1>4
<1>7. ASSUME NEW i \in 1..Len(s) - 1
      PROVE  (front \o back)[i] = IF i < k THEN s[i] ELSE s[i + 1]
  <2>1. (front \o back)[i] = IF i <= k - 1 THEN front[i] ELSE back[i - (k - 1)]
    <3>1. Len(front) = k - 1 /\ Len(back) = Len(s) - k
        BY <1>2, <1>3
    <3>2. i \in 1..Len(front) + Len(back)
        BY <1>1, <3>1
    <3>3. (front \o back)[i] = IF i <= Len(front) THEN front[i] ELSE back[i - Len(front)]
        BY <1>4, <3>2
    <3> QED BY <3>1, <3>3
  <2>2. CASE i < k
      BY <1>1, <1>2, <2>1, <2>2
  <2>3. CASE i >= k
    <3>1. /\ i - (k - 1) \in 1..Len(s) - k /\ k + (i - (k - 1)) = i + 1
          /\ ~(i < k) /\ ~(i <= k - 1)
        BY <1>1, <2>3
    <3>2. back[i - (k - 1)] = s[i + 1]
        BY <1>3, <3>1
    <3>3. (front \o back)[i] = back[i - (k - 1)]
        BY <2>1, <3>1, Zenon
    <3> QED BY <3>1, <3>2, <3>3, Zenon
  <2>4. i < k \/ i >= k
      BY <1>1
  <2> QED BY <2>2, <2>3, <2>4, Zenon
<1> QED
    BY <1>4, <1>5, <1>6, <1>7

\* Every line has the type of a line.
LEMMA LineType ==
    ASSUME TypeOK
    PROVE  \A i \in DOMAIN banFile : banFile[i] \in Entry
<1>1. banFile \in Seq(Entry)
    BY DEF TypeOK, Entry
<1>2. DOMAIN banFile = 1..Len(banFile)
    BY <1>1
<1> QED
    BY <1>1, <1>2, ElementOfSeq

\* The lines of a listed address are one line, which is the one getBanInfoForIp reads and
\* unban cuts out.
LEMMA OnlyLine ==
    ASSUME TypeOK, NoDuplicateEntries, NEW ip, Listed(ip)
    PROVE  \E k \in DOMAIN banFile :
              /\ Lines(ip) = {k} /\ banFile[k].ip = ip
              /\ k = CHOOSE i \in Lines(ip) : \A j \in Lines(ip) : i <= j
<1>1. PICK k \in DOMAIN banFile : banFile[k].ip = ip
    BY DEF Listed, Lines
<1>2. Lines(ip) = {k}
    BY <1>1 DEF Lines, NoDuplicateEntries
<1>3. k \in Int
    BY DEF TypeOK
<1> QED
    BY <1>1, <1>2, <1>3

\* The initial state satisfies the invariant.
LEMMA InitIInv == Init => IInv
BY BanListAssumption
DEF Init, IInv, TypeOK, NoDuplicateEntries, Agree, Listed, Lines, BanListAssumption, States

\* A step that leaves the file and the history alone keeps the invariant.
LEMMA FileKept ==
    ASSUME IInv, UNCHANGED <<banFile, until>>, now' \in 0..MaxTime, cbuf' \in Seq(Command),
           clients' \in [Clients -> Slot]
    PROVE  IInv'
BY DEF IInv, TypeOK, NoDuplicateEntries, Agree, Listed, Lines, EndOf, Slot, Command

\* ban appends the line of an address that is not listed, and sets the end of its ban.
LEMMA NewBanKeepsIInv ==
    ASSUME IInv, NEW ip \in Ips, NEW duration \in Durations \cup {Permanent},
           NEW victim \in Clients \cup {NoSlot}, AddBan(ip, duration, victim), ~Listed(ip),
           cbuf' \in Seq(Command)
    PROVE  IInv'
<1> DEFINE line == Line(ip, duration)
           end == IF duration = Permanent THEN Never ELSE now + duration
<1>1. /\ ~Listed(ip) /\ banFile' = Append(banFile, line)
      /\ until' = [until EXCEPT ![ip] = end] /\ UNCHANGED now /\ clients' = Dropped(victim)
    BY DEF AddBan, AlreadyBanned
<1>2. /\ TypeOK /\ banFile \in Seq(Entry) /\ line \in Entry /\ now \in Nat
      /\ end \in Nat /\ until \in [Ips -> Nat]
    BY BanListAssumption DEF IInv, TypeOK, Line, Entry, Never, Permanent, BanListAssumption
<1>3. line.ip = ip /\ EndOf(line) = end
    BY DEF Line, EndOf
<1> HIDE DEF line, end
<1>4. /\ banFile' \in Seq(Entry) /\ Len(banFile) \in Nat /\ DOMAIN banFile = 1..Len(banFile)
      /\ DOMAIN banFile' = 1..Len(banFile) + 1
      /\ \A i \in 1..Len(banFile) : banFile'[i] = banFile[i]
      /\ banFile'[Len(banFile) + 1] = line
    BY <1>1, <1>2, AppendProperties
<1>5. \A i \in DOMAIN banFile : banFile[i].ip # ip /\ banFile[i].ip \in Ips
    BY <1>1, <1>2, LineType DEF Listed, Lines, Entry
<1>6. TypeOK'
  <2>1. clients' \in [Clients -> Slot]
    <3>1. clients \in [Clients -> Slot]
        BY <1>2 DEF TypeOK, Slot
    <3>2. CASE victim = NoSlot
        BY <1>1, <3>1, <3>2 DEF Dropped
    <3>3. CASE victim # NoSlot
        BY <1>1, <3>1, <3>3 DEF Dropped, Slot, States
    <3> QED BY <3>2, <3>3
  <2>2. until' \in [Ips -> Nat]
      BY <1>1, <1>2
  <2> QED BY <1>1, <1>2, <1>4, <2>1, <2>2 DEF TypeOK, Entry, Slot, Command
<1>7. NoDuplicateEntries'
    BY <1>3, <1>4, <1>5 DEF IInv, NoDuplicateEntries
<1>8. Agree'
  <2>1. until'[ip] = end /\ \A other \in Ips : other # ip => until'[other] = until[other]
      BY <1>1, <1>2
  <2>2. \A i \in DOMAIN banFile' : until'[banFile'[i].ip] = EndOf(banFile'[i])
    <3>1. until'[banFile'[Len(banFile) + 1].ip] = EndOf(banFile'[Len(banFile) + 1])
        BY <1>3, <1>4, <2>1
    <3>2. \A i \in 1..Len(banFile) : until'[banFile'[i].ip] = EndOf(banFile'[i])
        BY <1>4, <1>5, <2>1 DEF IInv, Agree
    <3> QED BY <1>4, <3>1, <3>2
  <2>3. \A other \in Ips : Listed(other)' \/ until'[other] = 0
    <3>1. Listed(ip)'
        BY <1>3, <1>4 DEF Listed, Lines
    <3>2. \A other \in Ips : Listed(other) => Listed(other)'
        BY <1>4 DEF Listed, Lines
    <3> QED BY <2>1, <3>1, <3>2 DEF IInv, Agree
  <2> QED BY <2>2, <2>3 DEF Agree, EndOf
<1> QED BY <1>6, <1>7, <1>8 DEF IInv

\* A ban that is refused changes nothing.
LEMMA AddBanKeepsIInv ==
    ASSUME IInv, NEW ip \in Ips, NEW duration \in Durations \cup {Permanent},
           NEW victim \in Clients \cup {NoSlot}, AddBan(ip, duration, victim),
           cbuf' \in Seq(Command)
    PROVE  IInv'
<1>1. CASE ~Listed(ip)
    BY <1>1, NewBanKeepsIInv
<1>2. CASE Listed(ip)
  <2>1. UNCHANGED <<now, banFile, clients, until>>
      BY <1>2 DEF AddBan, AlreadyBanned
  <2> QED BY <2>1, FileKept DEF IInv, TypeOK, Slot
<1> QED BY <1>1, <1>2

\* ban -i, whomever it drops.
LEMMA BanIpKeepsIInv ==
    ASSUME IInv, NEW ip \in Ips, NEW duration \in Durations \cup {Permanent},
           BanIp(ip, duration), cbuf' \in Seq(Command)
    PROVE  IInv'
<1>1. \E victim \in Clients \cup {NoSlot} : AddBan(ip, duration, victim)
    BY DEF BanIp, Players
<1> QED BY <1>1, AddBanKeepsIInv

\* unban -i cuts out the only line of the address; without -i it changes nothing.
LEMMA UnbanKeepsIInv ==
    ASSUME IInv, NEW ip \in Ips, NEW options, Unban(ip, options), cbuf' \in Seq(Command)
    PROVE  IInv'
<1>t. TypeOK /\ NoDuplicateEntries /\ Agree /\ clients \in [Clients -> Slot]
    BY DEF IInv, TypeOK, Slot
<1>u. UNCHANGED <<now, clients>>
    BY DEF Unban
<1>1. CASE "-i" \notin options
    BY <1>1, <1>t, <1>u, FileKept DEF Unban, TypeOK
<1>2. CASE "-i" \in options /\ ~Listed(ip)
  <2>1. banFile' = banFile /\ until' = [until EXCEPT ![ip] = 0] /\ until[ip] = 0
      BY <1>2, <1>t DEF Unban, Agree
  <2>2. until' = until
      BY <2>1, <1>t DEF TypeOK
  <2> QED BY <2>1, <2>2, <1>t, <1>u, FileKept DEF TypeOK
<1>3. CASE "-i" \in options /\ Listed(ip)
  <2>1. PICK k \in DOMAIN banFile :
           /\ Lines(ip) = {k} /\ banFile[k].ip = ip
           /\ k = CHOOSE i \in Lines(ip) : \A j \in Lines(ip) : i <= j
      BY <1>3, <1>t, OnlyLine
  <2>2. /\ banFile' = RemoveAt(banFile, k) /\ until' = [until EXCEPT ![ip] = 0]
        /\ banFile \in Seq(Entry) /\ until \in [Ips -> Nat]
      BY <1>3, <2>1, <1>t DEF Unban, TypeOK, Entry
  <2>3. /\ banFile' \in Seq(Entry) /\ Len(banFile) \in Nat /\ k \in 1..Len(banFile)
        /\ DOMAIN banFile = 1..Len(banFile)
        /\ DOMAIN banFile' = 1..Len(banFile) - 1
        /\ \A i \in 1..Len(banFile) - 1 :
              banFile'[i] = IF i < k THEN banFile[i] ELSE banFile[i + 1]
    <3>1. k \in DOMAIN banFile /\ banFile \in Seq(Entry) /\ banFile' = RemoveAt(banFile, k)
        BY <2>1, <2>2
    <3>2. /\ RemoveAt(banFile, k) \in Seq(Entry)
          /\ DOMAIN RemoveAt(banFile, k) = 1..Len(banFile) - 1
          /\ \A i \in 1..Len(banFile) - 1 :
                RemoveAt(banFile, k)[i] = IF i < k THEN banFile[i] ELSE banFile[i + 1]
        BY <3>1, RemoveAtProperties, Zenon
    <3>3. Len(banFile) \in Nat /\ k \in 1..Len(banFile) /\ DOMAIN banFile = 1..Len(banFile)
        BY <3>1
    <3> HIDE DEF Entry
    <3> QED BY <3>1, <3>2, <3>3, Zenon
  <2>4. \A i \in DOMAIN banFile : banFile[i].ip = ip => i = k
      BY <2>1 DEF Lines
  <2>5. TypeOK'
    <3>1. until' \in [Ips -> Nat]
        BY <2>2
    <3> QED BY <2>2, <2>3, <3>1, <1>t, <1>u DEF TypeOK, Entry, Command
  <2>6. \A i \in DOMAIN banFile' : \E j \in DOMAIN banFile :
           /\ j = (IF i < k THEN i ELSE i + 1) /\ j # k /\ banFile'[i] = banFile[j]
      BY <2>3
  <2>7. NoDuplicateEntries'
    <3> SUFFICES ASSUME NEW i \in DOMAIN banFile', NEW j \in DOMAIN banFile',
                        banFile'[i].ip = banFile'[j].ip
                 PROVE  i = j
        BY DEF NoDuplicateEntries
    <3>1. PICK i0 \in DOMAIN banFile : /\ i0 = (IF i < k THEN i ELSE i + 1)
                                       /\ banFile'[i] = banFile[i0]
        BY <2>6
    <3>2. PICK j0 \in DOMAIN banFile : /\ j0 = (IF j < k THEN j ELSE j + 1)
                                       /\ banFile'[j] = banFile[j0]
        BY <2>6
    <3>3. i0 = j0
        BY <3>1, <3>2, <1>t DEF NoDuplicateEntries
    <3> QED BY <3>1, <3>2, <3>3, <2>3
  <2>8. Agree'
    <3>1. \A other \in Ips : other # ip => until'[other] = until[other]
        BY <2>2
    <3>2. \A i \in DOMAIN banFile' : until'[banFile'[i].ip] = EndOf(banFile'[i])
      <4> SUFFICES ASSUME NEW i \in DOMAIN banFile'
                   PROVE  until'[banFile'[i].ip] = EndOf(banFile'[i])
          OBVIOUS
      <4>1. PICK j \in DOMAIN banFile : j # k /\ banFile'[i] = banFile[j]
          BY <2>6
      <4>2. banFile[j].ip # ip /\ banFile[j].ip \in Ips
          BY <4>1, <2>4, <1>t, LineType DEF Entry
      <4> QED BY <4>1, <4>2, <3>1, <1>t DEF Agree
    <3>3. \A other \in Ips : Listed(other)' \/ until'[other] = 0
      <4> SUFFICES ASSUME NEW other \in Ips, other # ip, Listed(other)
                   PROVE  Listed(other)'
          BY <2>2, <3>1, <1>t DEF Agree
      <4>1. PICK j \in DOMAIN banFile : banFile[j].ip = other
          BY DEF Listed, Lines
      <4>2. j # k /\ j \in 1..Len(banFile)
          BY <4>1, <2>1, <2>3
      <4>3. PICK i \in DOMAIN banFile' : banFile'[i] = banFile[j]
        <5>1. CASE j < k
          <6>1. j \in DOMAIN banFile' /\ banFile'[j] = banFile[j]
              BY <5>1, <4>2, <2>3
          <6> QED BY <6>1
        <5>2. CASE j > k
          <6>1. j - 1 \in DOMAIN banFile' /\ banFile'[j - 1] = banFile[j]
              BY <5>2, <4>2, <2>3
          <6> QED BY <6>1
        <5> QED BY <5>1, <5>2, <4>2, <2>3
      <4> QED BY <4>1, <4>3 DEF Listed, Lines
    <3> QED BY <3>2, <3>3 DEF Agree, EndOf
  <2> QED BY <2>5, <2>7, <2>8 DEF IInv
<1> QED BY <1>1, <1>2, <1>3

\* Every step keeps the invariant.
LEMMA NextKeepsIInv ==
    ASSUME IInv, Next
    PROVE  IInv'
<1>t. TypeOK /\ clients \in [Clients -> Slot] /\ cbuf \in Seq(Command) /\ now \in 0..MaxTime
    BY DEF IInv, TypeOK, Slot, Command
<1>q. ASSUME NEW command \in Command, Queue(command) PROVE cbuf' \in Seq(Command)
    BY <1>q, <1>t, AppendProperties DEF Queue
<1>1. ASSUME NEW ip \in Ips, NEW c \in Clients, Connect(ip, c) PROVE IInv'
  <2>1. cbuf' \in Seq(Command)
    <3>1. QueuedUnban(ip) \in Command
        BY DEF QueuedUnban, Command
    <3> QED BY <1>1, <1>t, <1>q, <3>1 DEF Connect
  <2>2. clients' \in [Clients -> Slot]
      BY <1>1, <1>t DEF Connect, Slot, States
  <2> QED BY <1>1, <1>t, <2>1, <2>2, FileKept DEF Connect
<1>2. CASE Administrator
  <2>0. cbuf' \in Seq(Command)
      BY <1>2, <1>t DEF Administrator
  <2>1. ASSUME NEW ip \in Ips, Unban(ip, {"-i"}) PROVE IInv'
      BY <2>0, <2>1, UnbanKeepsIInv
  <2>2. ASSUME NEW duration \in Durations \cup {Permanent}, NEW ip \in Ips, BanIp(ip, duration)
        PROVE  IInv'
      BY <2>0, <2>2, BanIpKeepsIInv
  <2>3. ASSUME NEW duration \in Durations \cup {Permanent}, NEW c \in Clients,
               BanClient(c, duration)
        PROVE  IInv'
    <3>1. clients[c].ip \in Ips
        BY <1>t DEF Slot
    <3> QED BY <2>0, <2>3, <3>1, AddBanKeepsIInv DEF BanClient
  <2> QED BY <1>2, <2>1, <2>2, <2>3 DEF Administrator
<1>3. ASSUME NEW ip \in Ips, NEW duration \in Durations \cup {Permanent},
             gsc_utils_ban(ip, duration)
      PROVE  IInv'
  <2>1. [name |-> "ban", ip |-> ip, options |-> {"-i"}, duration |-> duration] \in Command
      BY DEF Command
  <2>2. cbuf' \in Seq(Command) /\ UNCHANGED <<now, banFile, clients, until>>
      BY <1>3, <1>q, <2>1 DEF gsc_utils_ban
  <2> QED BY <1>t, <2>2, FileKept
<1>4. ASSUME NEW ip \in Ips, gsc_utils_unban(ip) PROVE IInv'
  <2>1. [name |-> "unban", ip |-> ip, options |-> {"-i"}, duration |-> Permanent] \in Command
      BY DEF Command
  <2>2. cbuf' \in Seq(Command) /\ UNCHANGED <<now, banFile, clients, until>>
      BY <1>4, <1>q, <2>1 DEF gsc_utils_unban
  <2> QED BY <1>t, <2>2, FileKept
<1>5. CASE Cbuf_Execute
  <2>1. Head(cbuf) \in Command /\ cbuf' \in Seq(Command)
      BY <1>5, <1>t DEF Cbuf_Execute
  <2>2. Head(cbuf).ip \in Ips /\ Head(cbuf).duration \in Durations \cup {Permanent}
      BY <2>1 DEF Command
  <2>3. CASE Unban(Head(cbuf).ip, Head(cbuf).options)
      BY <2>1, <2>2, <2>3, UnbanKeepsIInv
  <2>4. CASE BanIp(Head(cbuf).ip, Head(cbuf).duration)
      BY <2>1, <2>2, <2>4, BanIpKeepsIInv
  <2> QED BY <1>5, <2>3, <2>4 DEF Cbuf_Execute
<1>6. ASSUME NEW c \in Clients, Enter(c) \/ Leave(c) PROVE IInv'
  <2>1. clients' \in [Clients -> Slot]
      BY <1>6, <1>t DEF Enter, Leave, Slot, States
  <2> QED BY <1>6, <1>t, <2>1, FileKept DEF Enter, Leave
<1>7. CASE Restart
  <2>1. clients' \in [Clients -> Slot] /\ cbuf' \in Seq(Command)
      BY <1>7, <1>t DEF Restart, Slot, States
  <2> QED BY <1>7, <1>t, <2>1, FileKept DEF Restart
<1>8. CASE Tick
    BY <1>8, <1>t, BanListAssumption, FileKept DEF Tick, BanListAssumption
<1> QED
    BY <1>1, <1>2, <1>3, <1>4, <1>5, <1>6, <1>7, <1>8 DEF Next

-------------------------------------------------------------------------------
\* The inductive invariant of the bans holds in every reachable state.
THEOREM Invariance == Spec => []IInv
<1>1. IInv /\ [Next]_vars => IInv'
  <2> SUFFICES ASSUME IInv, [Next]_vars PROVE IInv'
      OBVIOUS
  <2>1. CASE Next
      BY <2>1, NextKeepsIInv
  <2>2. CASE UNCHANGED vars
      BY <2>2, FileKept DEF vars, IInv, TypeOK, Slot, Command
  <2> QED BY <2>1, <2>2
<1> QED BY <1>1, InitIInv, PTL DEF Spec

\* The lines of ban.txt, the command buffer and the slots keep their types.
THEOREM TypeCorrect == Spec => []TypeOK
<1>1. IInv => TypeOK
    BY DEF IInv
<1> QED BY <1>1, Invariance, PTL

\* ban.txt lists no address twice.
THEOREM NoDuplicateEntriesHolds == Spec => []NoDuplicateEntries
<1>1. IInv => NoDuplicateEntries
    BY DEF IInv
<1> QED BY <1>1, Invariance, PTL

\* Nobody gets in from an address before its ban ends.
THEOREM AdmittedNotBannedHolds == Spec => AdmittedNotBanned
<1> DEFINE Admitted == \A c \in Clients :
                          clients[c].state = "free" /\ clients'[c].state = "connected"
                              => until[clients'[c].ip] <= now
<1>1. IInv /\ [Next]_vars => [Admitted]_vars
  <2> SUFFICES ASSUME IInv, Next, NEW c \in Clients,
                      clients[c].state = "free", clients'[c].state = "connected"
               PROVE  until[clients'[c].ip] <= now
      BY DEF vars
  <2>t. TypeOK /\ NoDuplicateEntries /\ Agree /\ clients \in [Clients -> Slot]
      BY DEF IInv, TypeOK, Slot
  <2>1. PICK ip \in Ips : Connect(ip, c) /\ clients'[c].ip = ip
    <3>1. ASSUME NEW ip \in Ips, NEW d \in Clients, Connect(ip, d)
          PROVE  d = c /\ clients'[c].ip = ip
        BY <3>1, <2>t DEF Connect
    <3>2. ASSUME NEW ip, NEW duration, NEW victim, AddBan(ip, duration, victim) PROVE FALSE
      <4>1. clients' = clients \/ clients' = Dropped(victim)
          BY <3>2 DEF AddBan
      <4>2. clients' = clients \/ clients' = [clients EXCEPT ![victim].state = "free"]
          BY <4>1 DEF Dropped
      <4>3. clients[c] \in Slot
          BY <2>t
      <4>4. clients'[c].state = clients[c].state \/ clients'[c].state = "free"
          BY <4>2, <4>3, <2>t DEF Slot
      <4> QED BY <4>4
    <3>3. ASSUME NEW d \in Clients, Enter(d) \/ Leave(d) PROVE FALSE
        BY <3>3, <2>t DEF Enter, Leave
    <3>4. CASE Restart
        BY <3>4, <2>t DEF Restart, Slot
    <3>5. CASE Tick
        BY <3>5 DEF Tick
    <3>6. ASSUME NEW ip, NEW options, Unban(ip, options) PROVE FALSE
        BY <3>6 DEF Unban
    <3>7. ASSUME NEW ip, NEW duration, BanIp(ip, duration) PROVE FALSE
        BY <3>2, <3>7 DEF BanIp
    <3>8. CASE Administrator \/ Cbuf_Execute
      <4>1. CASE Administrator
          BY <3>2, <3>6, <3>7, <4>1 DEF Administrator, BanClient
      <4>2. CASE Cbuf_Execute
          BY <3>6, <3>7, <4>2 DEF Cbuf_Execute
      <4> QED BY <3>8, <4>1, <4>2
    <3>9. ASSUME NEW ip, NEW duration, gsc_utils_ban(ip, duration) \/ gsc_utils_unban(ip)
          PROVE  FALSE
        BY <3>9 DEF gsc_utils_ban, gsc_utils_unban
    <3> QED BY <3>1, <3>3, <3>4, <3>5, <3>8, <3>9 DEF Next
  <2>2. CASE ~Listed(ip)
    <3>1. until[ip] = 0 /\ now \in Nat
        BY <2>2, <2>t DEF Agree, TypeOK
    <3> QED BY <2>1, <3>1
  <2>3. CASE Listed(ip)
    <3>1. PICK k \in DOMAIN banFile : banFile[k].ip = ip /\ BanInfo(ip) = banFile[k]
      <4>1. PICK k \in DOMAIN banFile :
               /\ banFile[k].ip = ip
               /\ k = CHOOSE i \in Lines(ip) : \A j \in Lines(ip) : i <= j
          BY <2>3, <2>t, OnlyLine
      <4> QED BY <4>1 DEF BanInfo
    <3>2. Expired(banFile[k])
        BY <2>1, <2>3, <3>1 DEF Connect, Admits
    <3>3. /\ banFile[k].date \in Nat /\ now \in Nat
          /\ banFile[k].duration \in Nat \cup {Permanent}
      <4>1. banFile[k] \in Entry
          BY <2>t, LineType
      <4>2. banFile[k].date \in 0..MaxTime /\ banFile[k].duration \in Durations \cup {Permanent}
          BY <4>1 DEF Entry
      <4>3. MaxTime \in Nat /\ Durations \subseteq Nat \cup {Permanent}
          BY BanListAssumption DEF BanListAssumption
      <4>4. now \in 0..MaxTime
          BY <2>t DEF TypeOK
      <4>5. banFile[k].date \in Nat
          BY <4>2, <4>3
      <4>6. now \in Nat
          BY <4>3, <4>4
      <4>7. banFile[k].duration \in Nat \cup {Permanent}
          BY <4>2, <4>3, Zenon
      <4> QED BY <4>5, <4>6, <4>7
    <3>4. until[ip] = EndOf(banFile[k])
        BY <3>1, <2>t DEF Agree
    <3> QED BY <2>1, <3>2, <3>3, <3>4 DEF Expired, EndOf
  <2> QED BY <2>2, <2>3
<1> QED BY <1>1, Invariance, PTL DEF Spec, AdmittedNotBanned
===============================================================================
