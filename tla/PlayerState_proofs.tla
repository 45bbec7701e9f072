------------------------- MODULE PlayerState_proofs -------------------------
(***************************************************************************)
(* Proofs about ClientSession and PlayerState, for any number of commands, *)
(* maps, restarts, packets under way and forged acknowledgements.  The     *)
(* invariant of the session is SessionInv; the actions that PlayerState    *)
(* adds to the session keep it as well.  First comes what the server makes *)
(* of one packet, whose loop over the commands is a recursive function.    *)
(***************************************************************************)
EXTENDS PlayerState, WellFoundedInduction, TLAPS

States == {"connected", "primed", "active", "zombie"}
AllServerIds == ServerIds \cup {NoMap}

Clients ==
    [state : States, downloading : BOOLEAN, impure : BOOLEAN, newer : BOOLEAN,
     lastCommand : Nat, lastHasNextdl : BOOLEAN, reliableSequence : 0..MaxServer,
     reliableAcknowledge : 0..MaxServer, overflow : BOOLEAN]
Players ==
    [serverId : AllServerIds, ready : BOOLEAN, newer : BOOLEAN, acked : Nat, reliable : Nat]
Packets ==
    [serverId : AllServerIds, newer : BOOLEAN, reliable : Int, first : Nat \ {0}, last : Nat,
     move : BOOLEAN, flaw : Flaws]
Messages ==
    [kind : {"gamestate", "snapshot"}, serverId : ServerIds, newer : BOOLEAN, acked : Nat,
     reliable : Nat]
Steps ==
    [cl : Clients, executed : Seq(Nat), reason : Reasons, gamestate : BOOLEAN,
     returned : BOOLEAN]

------------------------------------------------------------------------------
(* The handler of a packet.                                                 *)

\* What holds of a step of the server wherever it has got to.
StepOK(st) ==
    /\ st \in Steps
    /\ st.cl.lastCommand <= Len(commands)
    /\ st.executed = [k \in 1..st.cl.lastCommand |-> k]
    /\ st.reason # "lost commands"
    /\ st.reason # "none" <=> st.cl.state = "zombie"
    /\ st.cl.reliableSequence - st.cl.reliableAcknowledge \in 0..MaxReliable - 1

\* How the commands of a packet take the step st to the step then.
Leads(st, then) ==
    /\ st.cl.lastCommand <= then.cl.lastCommand
    /\ st.gamestate => then.gamestate
    /\ ~Issued("donedl") =>
        then.gamestate = st.gamestate /\ then.cl.state \in {st.cl.state, "zombie"}
    /\ then.cl.state \in {"primed", "active"} => then.gamestate \/ then.cl.state = st.cl.state

\* In the game, or let into it by the next movement of whatever map.
Entered(c) ==
    \/ c.state = "active"
    \/ c.state = "primed" /\ (c.downloading \/ c.lastHasNextdl)

\* Dropping a client keeps what holds of a step.
LEMMA Dropped ==
    ASSUME NEW st, StepOK(st), NEW reason \in Reasons \ {"none", "lost commands"}
    PROVE  LET s == SV_DropClient(st, reason)
           IN StepOK(s) /\ s.cl.state = "zombie" /\ s.cl.lastCommand = st.cl.lastCommand
              /\ s.gamestate = st.gamestate /\ s.returned = st.returned
BY DEF SV_DropClient, StepOK, Steps, Clients, Reasons, States

\* So does sending a message, which may drop the client.
LEMMA MessageSent ==
    ASSUME NEW st, StepOK(st)
    PROVE  LET s == SV_SendMessageToClient(st)
           IN StepOK(s) /\ (s = st \/ s.cl.state = "zombie")
              /\ s.cl.lastCommand = st.cl.lastCommand
              /\ s.gamestate = st.gamestate /\ s.returned = st.returned
<1>1. "overflow" \in Reasons \ {"none", "lost commands"}
    BY DEF Reasons
<1> QED
  BY <1>1, Dropped DEF SV_SendMessageToClient

\* So does sending the gamestate, which primes the client unless it drops it.
LEMMA GamestateSent ==
    ASSUME NEW st, StepOK(st), st.cl.state # "zombie"
    PROVE  LET s == SV_SendClientGameState(st)
           IN StepOK(s) /\ s.cl.state \in {"primed", "zombie"}
              /\ s.cl.lastCommand = st.cl.lastCommand
              /\ (s.cl.state = "primed" =>
                    /\ s.cl.downloading = st.cl.downloading
                    /\ s.cl.lastHasNextdl = st.cl.lastHasNextdl)
              /\ s.gamestate /\ s.returned = st.returned
<1> DEFINE g == [st EXCEPT !.cl.state = "primed", !.cl.impure = FALSE, !.cl.newer = FALSE,
                           !.gamestate = TRUE]
<1>1. /\ StepOK(g) /\ g.cl.state = "primed" /\ g.cl.lastCommand = st.cl.lastCommand
      /\ g.cl.downloading = st.cl.downloading /\ g.cl.lastHasNextdl = st.cl.lastHasNextdl
      /\ g.gamestate /\ g.returned = st.returned
    BY DEF StepOK, Steps, Clients, Reasons, States
<1>2. SV_SendClientGameState(st) = SV_SendMessageToClient(g)
    BY DEF SV_SendClientGameState
<1> HIDE DEF g
<1> QED
  BY <1>1, <1>2, MessageSent

\* A command leaves the counter of commands alone; only "donedl" has a gamestate sent.
LEMMA ExecuteKeeps ==
    ASSUME NEW st, StepOK(st), st.cl.state # "zombie", NEW kind
    PROVE  LET s == Execute(st, kind)
           IN /\ StepOK(s) /\ s.cl.lastCommand = st.cl.lastCommand /\ s.returned = st.returned
              /\ \/ kind = "donedl" /\ s.gamestate
                 \/ s.gamestate = st.gamestate /\ s.cl.state \in {st.cl.state, "zombie"}
<1>1. CASE kind = "download"
    BY <1>1 DEF Execute, StepOK, Steps, Clients, States
<1>2. CASE kind = "nextdl"
    BY <1>2 DEF Execute, StepOK, Steps, Clients, States
<1>3. CASE kind = "donedl"
  <2>1. Execute(st, kind) = SV_SendClientGameState(st)
      BY <1>3 DEF Execute
  <2> QED
    BY <1>3, <2>1, GamestateSent
<1>4. CASE kind = "cp"
    BY <1>4 DEF Execute, StepOK, Steps, Clients, States
<1>5. CASE kind = "disconnect"
  <2> DEFINE s == SV_DropClient(st, "disconnect")
  <2>1. Execute(st, kind) = s
      BY <1>5 DEF Execute
  <2>2. "disconnect" \in Reasons \ {"none", "lost commands"}
      BY DEF Reasons
  <2>3. StepOK(s) /\ s.cl.state = "zombie" /\ s.cl.lastCommand = st.cl.lastCommand
        /\ s.gamestate = st.gamestate /\ s.returned = st.returned
      BY <2>2, Dropped
  <2> HIDE DEF s
  <2> QED
    BY <2>1, <2>3
<1>6. CASE kind \notin {"download", "nextdl", "donedl", "cp", "disconnect"}
  <2>1. Execute(st, kind) = st
      BY <1>6 DEF Execute
  <2> QED
    BY <2>1
<1> QED
  BY <1>1, <1>2, <1>3, <1>4, <1>5, <1>6

\* The next number continues the history of the commands executed.
LEMMA HistoryGrows ==
    ASSUME NEW n \in Nat
    PROVE  Append([k \in 1..n |-> k], n + 1) = [k \in 1..(n + 1) |-> k]
<1> DEFINE h == [k \in 1..n |-> k]
<1>1. h \in Seq(Nat) /\ Len(h) = n
    OBVIOUS
<1>2. Len(Append(h, n + 1)) = n + 1 /\ Append(h, n + 1) \in Seq(Nat)
    BY <1>1
<1>3. \A k \in 1..(n + 1) : Append(h, n + 1)[k] = k
    BY <1>1
<1> HIDE DEF h
<1>4. Append(h, n + 1) = [k \in 1..(n + 1) |-> Append(h, n + 1)[k]]
    BY <1>2
<1>5. Append(h, n + 1) = [k \in 1..(n + 1) |-> k]
    BY <1>3, <1>4
<1> QED
  BY <1>5 DEF h

\* A command that is no gap is executed if it was not yet.
LEMMA CommandExecuted ==
    ASSUME commands \in Seq(Kinds), NEW st, StepOK(st), st.cl.state # "zombie",
           NEW seq \in 1..Len(commands), seq <= st.cl.lastCommand + 1
    PROVE  LET s == SV_ClientCommand(st, seq)
           IN StepOK(s) /\ Leads(st, s) /\ seq <= s.cl.lastCommand /\ s.returned = st.returned
<1>0. st.cl.lastCommand \in Nat
    BY DEF StepOK, Steps, Clients
<1>1. CASE Repeated(st, seq)
    BY <1>0, <1>1 DEF SV_ClientCommand, Repeated, Leads
<1>2. CASE ~Repeated(st, seq)
  <2> DEFINE e == Execute(st, commands[seq])
             s == [e EXCEPT !.cl.lastCommand = seq,
                            !.cl.lastHasNextdl = MentionsNextdl(commands[seq]),
                            !.executed = Append(@, seq)]
  <2>1. seq = st.cl.lastCommand + 1
      BY <1>0, <1>2 DEF Repeated
  <2>2. SV_ClientCommand(st, seq) = s
    <3>1. ~Gap(st, seq)
        BY <1>0, <2>1 DEF Gap
    <3> QED
      BY <1>2, <3>1 DEF SV_ClientCommand
  <2>3. /\ StepOK(e) /\ e.cl.lastCommand = st.cl.lastCommand /\ e.returned = st.returned
        /\ \/ commands[seq] = "donedl" /\ e.gamestate
           \/ e.gamestate = st.gamestate /\ e.cl.state \in {st.cl.state, "zombie"}
      BY ExecuteKeeps
  <2>4. commands[seq] = "donedl" => Issued("donedl")
      BY DEF Issued
  <2> HIDE DEF e
  <2>5. /\ s \in Steps /\ s.cl.lastCommand = seq /\ s.executed = Append(e.executed, seq)
        /\ s.cl.state = e.cl.state /\ s.gamestate = e.gamestate /\ s.returned = e.returned
        /\ s.reason = e.reason /\ s.cl.reliableSequence = e.cl.reliableSequence
        /\ s.cl.reliableAcknowledge = e.cl.reliableAcknowledge
    <3> DEFINE c == [e.cl EXCEPT !.lastCommand = seq,
                                 !.lastHasNextdl = MentionsNextdl(commands[seq])]
    <3>0. seq \in Nat /\ MentionsNextdl(commands[seq]) \in BOOLEAN
        BY <1>0, <2>1 DEF MentionsNextdl
    <3>1. e \in Steps /\ e.cl \in Clients
        BY <2>3 DEF StepOK, Steps
    <3>2. c \in Clients /\ c.lastCommand = seq /\ c.state = e.cl.state
          /\ c.reliableSequence = e.cl.reliableSequence
          /\ c.reliableAcknowledge = e.cl.reliableAcknowledge
        BY <3>0, <3>1 DEF Clients
    <3>3. s = [e EXCEPT !.cl = c, !.executed = Append(e.executed, seq)]
        BY <3>1 DEF Steps, Clients
    <3>4. Append(e.executed, seq) \in Seq(Nat)
        BY <3>0, <3>1 DEF Steps
    <3> HIDE DEF c, s
    <3> QED
      BY <3>1, <3>2, <3>3, <3>4 DEF Steps
  <2>6. s.executed = [k \in 1..seq |-> k]
      BY <1>0, <2>1, <2>3, <2>5, HistoryGrows DEF StepOK
  <2> HIDE DEF s
  <2>7. StepOK(s)
    <3>1. seq <= Len(commands)
        OBVIOUS
    <3> QED
      BY <2>3, <2>5, <2>6, <3>1 DEF StepOK
  <2>8. Leads(st, s)
      BY <1>0, <2>1, <2>3, <2>4, <2>5 DEF Leads
  <2> QED
    BY <2>2, <2>3, <2>5, <2>7, <2>8
<1> QED
  BY <1>1, <1>2

(* The loop over the commands: the recursive function of Commands exists,   *)
(* and every round of it keeps what holds of a step.                        *)
Round(st, p, g, i) ==
    IF i < p.first THEN st
    ELSE IF g[i - 1].returned \/ g[i - 1].cl.state = "zombie"
    THEN [g[i - 1] EXCEPT !.returned = TRUE]
    ELSE SV_ClientCommand(g[i - 1], i)

IsLoop(st, p, g, k) == g = [i \in (p.first - 1)..k |-> Round(st, p, g, i)]

\* A nonempty set of natural numbers has a least element.
LEMMA LeastElement ==
    ASSUME NEW T, T \subseteq Nat, T # {}
    PROVE  \E x \in T : \A y \in T : x <= y
<1>1. PICK x \in T : \A y \in T : <<y, x>> \notin OpToRel(<, Nat)
    BY NatLessThanWellFounded, WFMin
<1>2. \A y \in T : ~(y < x)
    BY <1>1 DEF OpToRel
<1> QED
  BY <1>2

\* There is a function that satisfies the equation of the loop: it is built round by round, and
\* a first round that could not be added is refuted.
LEMMA LoopExists ==
    ASSUME NEW st, NEW p, p.first \in Nat, p.last \in Nat, p.first <= p.last + 1
    PROVE  \E g : IsLoop(st, p, g, p.last)
<1> DEFINE lo == p.first - 1
           Bad == {k \in 0..(p.last - lo) : ~ \E g : IsLoop(st, p, g, lo + k)}
<1>1. lo \in Int /\ p.last - lo \in Nat /\ Bad \subseteq Nat
    OBVIOUS
<1>2. SUFFICES ASSUME Bad # {} PROVE FALSE
  <2>1. p.last - lo \notin Bad
      BY <1>1
  <2> QED
    BY <1>1, <2>1
<1>3. PICK k \in Bad : \A j \in Bad : k <= j
    <2> HIDE DEF Bad
    <2> QED
      BY <1>1, <1>2, LeastElement
<1>4. k # 0
  <2>1. IsLoop(st, p, [i \in lo..lo |-> st], lo)
    <3>1. \A i \in lo..lo : i < p.first
        BY <1>1
    <3> QED
      BY <3>1 DEF IsLoop, Round
  <2> QED
    BY <2>1, <1>1
<1>5. k - 1 \in 0..(p.last - lo) /\ k - 1 \notin Bad
    BY <1>3, <1>4, <1>1
<1>6. PICK g : IsLoop(st, p, g, lo + (k - 1))
    BY <1>5
<1> DEFINE h == [i \in lo..(lo + k) |-> IF i < lo + k THEN g[i] ELSE Round(st, p, g, i)]
<1>7. IsLoop(st, p, h, lo + k)
  <2>1. ASSUME NEW i \in lo..(lo + k) PROVE h[i] = Round(st, p, h, i)
    <3>1. Round(st, p, h, i) = Round(st, p, g, i)
      <4>1. CASE i < p.first
          BY <4>1 DEF Round
      <4>2. CASE ~(i < p.first)
        <5>1. i - 1 \in lo..(lo + k) /\ i - 1 < lo + k
            BY <4>2, <1>1, <1>3
        <5>2. h[i - 1] = g[i - 1]
            BY <5>1
        <5> HIDE DEF h
        <5> QED
          BY <5>2 DEF Round
      <4> QED
        BY <4>1, <4>2
    <3>2. h[i] = Round(st, p, g, i)
      <4>1. CASE i < lo + k
        <5>1. i \in lo..(lo + (k - 1))
            BY <4>1, <1>1, <1>3
        <5>2. g[i] = Round(st, p, g, i)
            BY <5>1, <1>6 DEF IsLoop
        <5> QED
          BY <4>1, <5>2
      <4>2. CASE ~(i < lo + k)
          BY <4>2
      <4> QED
        BY <4>1, <4>2
    <3> QED
      BY <3>1, <3>2
  <2>2. h = [i \in lo..(lo + k) |-> h[i]]
      OBVIOUS
  <2> HIDE DEF h
  <2> QED
    BY <2>1, <2>2 DEF IsLoop
<1> QED
  BY <1>3, <1>7

\* The commands of a packet are executed by such a loop.
LEMMA CommandsLoop ==
    ASSUME NEW st, NEW p, p.first \in Nat, p.last \in Nat, p.first <= p.last + 1
    PROVE  \E g : IsLoop(st, p, g, p.last) /\ Commands(st, p) = g[p.last]
<1> DEFINE f == CHOOSE g : IsLoop(st, p, g, p.last)
<1>1. IsLoop(st, p, f, p.last)
  <2> \E g : IsLoop(st, p, g, p.last)
      BY LoopExists
  <2> QED
    OBVIOUS
<1>2. Commands(st, p) = f[p.last]
    BY DEF Commands, IsLoop, Round
<1> QED
  BY <1>1, <1>2

\* The commands of a packet without a gap keep what holds of a step; the loop ends early only
\* when the client is gone.
LEMMA CommandsExecuted ==
    ASSUME commands \in Seq(Kinds), NEW st, StepOK(st), st.cl.state # "zombie", ~st.returned,
           NEW p \in Packets, p.first <= p.last + 1, p.first <= st.cl.lastCommand + 1,
           p.last <= Len(commands)
    PROVE  LET s == Commands(st, p)
           IN StepOK(s) /\ Leads(st, s) /\ (s.returned => s.cl.state = "zombie")
<1> DEFINE lo == p.first - 1
           Sound(s, i) == /\ StepOK(s) /\ Leads(st, s) /\ (s.returned => s.cl.state = "zombie")
                          /\ (s.cl.state = "zombie" \/ i <= s.cl.lastCommand)
<1>1. p.first \in Nat \ {0} /\ p.last \in Nat /\ lo \in Nat /\ lo <= p.last
    BY DEF Packets
<1>2. PICK g : IsLoop(st, p, g, p.last) /\ Commands(st, p) = g[p.last]
    BY <1>1, CommandsLoop
<1>3. \A i \in lo..p.last : g[i] = Round(st, p, g, i)
    BY <1>2 DEF IsLoop
<1>4. Sound(g[lo], lo)
  <2>1. g[lo] = st
    <3>1. lo \in lo..p.last /\ lo < p.first
        BY <1>1
    <3> QED
      BY <1>3, <3>1 DEF Round
  <2>2. st.cl.lastCommand \in Nat
      BY DEF StepOK, Steps, Clients
  <2>3. Leads(st, st) /\ lo <= st.cl.lastCommand
      BY <1>1, <2>2 DEF Leads
  <2> QED
    BY <2>1, <2>3
<1>5. ASSUME NEW i \in lo..p.last, i # lo, Sound(g[i - 1], i - 1)
      PROVE  Sound(g[i], i)
  <2> DEFINE s == g[i - 1]
  <2>0. i \in Int /\ p.first <= i /\ i \in 1..Len(commands)
      BY <1>1, <1>5
  <2>1. g[i] = IF s.returned \/ s.cl.state = "zombie" THEN [s EXCEPT !.returned = TRUE]
               ELSE SV_ClientCommand(s, i)
      BY <1>1, <1>3, <2>0 DEF Round
  <2>2. StepOK(s) /\ Leads(st, s) /\ (s.returned => s.cl.state = "zombie")
        /\ (s.cl.state = "zombie" \/ i - 1 <= s.cl.lastCommand)
      BY <1>5
  <2>3. s.cl.lastCommand \in Nat /\ st.cl.lastCommand \in Nat
      BY <2>2 DEF StepOK, Steps, Clients
  <2> HIDE DEF s
  <2>4. CASE s.returned \/ s.cl.state = "zombie"
    <3> DEFINE r == [s EXCEPT !.returned = TRUE]
    <3>1. g[i] = r /\ s.cl.state = "zombie"
        BY <2>1, <2>2, <2>4
    <3>2. r \in Steps /\ r.cl = s.cl /\ r.executed = s.executed /\ r.reason = s.reason
          /\ r.gamestate = s.gamestate
        BY <2>2 DEF StepOK, Steps
    <3> HIDE DEF r
    <3>3. StepOK(r) /\ Leads(st, r)
        BY <2>2, <3>2 DEF StepOK, Leads
    <3> QED
      BY <3>1, <3>2, <3>3
  <2>5. CASE ~(s.returned \/ s.cl.state = "zombie")
    <3> DEFINE r == SV_ClientCommand(s, i)
    <3>1. g[i] = r
        BY <2>1, <2>5
    <3>2. i <= s.cl.lastCommand + 1
        BY <2>0, <2>2, <2>3, <2>5
    <3>3. StepOK(r) /\ Leads(s, r) /\ i <= r.cl.lastCommand /\ r.returned = s.returned
        BY <2>0, <2>2, <2>5, <3>2, CommandExecuted
    <3> HIDE DEF r
    <3>4. r.cl.lastCommand \in Nat
        BY <3>3 DEF StepOK, Steps, Clients
    <3>5. Leads(st, r)
      <4>1. st.cl.lastCommand <= r.cl.lastCommand
          BY <2>2, <2>3, <3>3, <3>4 DEF Leads
      <4>2. r.cl.state \in {"primed", "active"} => r.gamestate \/ r.cl.state = st.cl.state
          BY <2>2, <3>3 DEF Leads
      <4> QED
        BY <2>2, <3>3, <4>1, <4>2 DEF Leads
    <3> QED
      BY <2>5, <3>1, <3>3, <3>5
  <2> QED
    BY <2>4, <2>5
<1> HIDE DEF Sound
<1>6. \A i \in lo..p.last : Sound(g[i], i)
  <2> DEFINE Bad == {i \in lo..p.last : ~Sound(g[i], i)}
  <2>1. SUFFICES ASSUME Bad # {} PROVE FALSE
      OBVIOUS
  <2>2. Bad \subseteq Nat
      BY <1>1
  <2>3. PICK i \in Bad : \A j \in Bad : i <= j
    <3> HIDE DEF Bad
    <3> QED
      BY <2>1, <2>2, LeastElement
  <2>4. i \in lo..p.last /\ i # lo
      BY <1>4, <2>3
  <2>5. i - 1 \in lo..p.last /\ i - 1 \notin Bad
      BY <1>1, <2>3, <2>4
  <2> QED
    BY <1>5, <2>3, <2>4, <2>5
<1>7. Sound(Commands(st, p), p.last)
    BY <1>1, <1>2, <1>6
<1> QED
  BY <1>7 DEF Sound

\* What the end of a message does to a step: a movement puts a primed client into the game.
LEMMA MessageEnds ==
    ASSUME NEW st, StepOK(st), st.returned => st.cl.state = "zombie", NEW p \in Packets
    PROVE  LET s == EndOfMessage(st, p)
           IN /\ StepOK(s) /\ s.gamestate = st.gamestate
              /\ s.cl.lastCommand = st.cl.lastCommand
              /\ \/ s.cl.state = "zombie"
                 \/ s.cl.state = st.cl.state
                 \/ st.cl.state = "primed"
<1>1. "unpure" \in Reasons \ {"none", "lost commands"}
    BY DEF Reasons
<1>2. CASE st.returned \/ st.cl.state = "zombie"
    BY <1>2 DEF EndOfMessage
<1>3. CASE ~(st.returned \/ st.cl.state = "zombie") /\ st.cl.impure
    BY <1>1, <1>3, Dropped DEF EndOfMessage
<1>4. CASE ~(st.returned \/ st.cl.state = "zombie") /\ ~st.cl.impure
  <2>1. CASE p.move /\ st.cl.state = "primed"
    <3>1. EndOfMessage(st, p) = [st EXCEPT !.cl.state = "active"]
        BY <1>4, <2>1 DEF EndOfMessage
    <3> DEFINE s == [st EXCEPT !.cl.state = "active"]
    <3>2. StepOK(s) /\ s.gamestate = st.gamestate /\ s.cl.lastCommand = st.cl.lastCommand
        BY <2>1 DEF StepOK, Steps, Clients, States
    <3> HIDE DEF s
    <3> QED
      BY <2>1, <3>1, <3>2 DEF s
  <2>2. CASE ~(p.move /\ st.cl.state = "primed")
      BY <1>4, <2>2 DEF EndOfMessage
  <2> QED
    BY <2>1, <2>2
<1> QED
  BY <1>2, <1>3, <1>4

\* What a packet makes of a step: a client that is sent no gamestate was primed or playing
\* before; it gets into the game from there or with a packet of the map; and, if it ends no
\* download, it is sent a gamestate for a packet of another map only.
Handled(p, st, s) ==
    /\ StepOK(s)
    /\ st.cl.lastCommand <= s.cl.lastCommand
    /\ s.cl.state \in {"primed", "active"} =>
        s.gamestate \/ st.cl.state \in {"primed", "active"}
    /\ ~Issued("donedl") /\ Entered(s.cl) =>
        Entered(st.cl) \/ p.serverId.map = svServerId.map
    /\ ~Issued("donedl") /\ s.gamestate => p.serverId.map # svServerId.map

\* The dispatch of a packet on its serverId, 2033-2075.
LEMMA MessageExecuted ==
    ASSUME commands \in Seq(Kinds), NEW st, StepOK(st), st.cl.state # "zombie", ~st.returned,
           ~st.gamestate, NEW p \in Packets, p.first <= p.last + 1,
           p.first <= st.cl.lastCommand + 1, p.last <= Len(commands)
    PROVE  Handled(p, st, SV_ExecuteClientMessage(st, p))
<1>0. st.cl.lastCommand \in Nat
    BY DEF StepOK, Steps, Clients
<1>1. CASE p.flaw = "oversize"
  <2>1. "oversize" \in Reasons \ {"none", "lost commands"}
      BY DEF Reasons
  <2> DEFINE s == SV_DropClient(st, "oversize")
  <2>2. SV_ExecuteClientMessage(st, p) = s
      BY <1>1 DEF SV_ExecuteClientMessage
  <2>3. StepOK(s) /\ s.cl.state = "zombie" /\ s.cl.lastCommand = st.cl.lastCommand
        /\ s.gamestate = st.gamestate
      BY <2>1, Dropped
  <2> HIDE DEF s
  <2> QED
    BY <1>0, <2>2, <2>3 DEF Handled, Entered
<1>2. CASE p.flaw # "oversize"
           /\ (p.serverId = svServerId \/ st.cl.downloading \/ st.cl.lastHasNextdl)
  <2> DEFINE c == Commands(st, p)
             s == EndOfMessage(c, p)
  <2>1. SV_ExecuteClientMessage(st, p) = s
      BY <1>2 DEF SV_ExecuteClientMessage
  <2>2. StepOK(c) /\ Leads(st, c) /\ (c.returned => c.cl.state = "zombie")
      BY CommandsExecuted
  <2> HIDE DEF c
  <2>3. /\ StepOK(s) /\ s.gamestate = c.gamestate /\ s.cl.lastCommand = c.cl.lastCommand
        /\ s.cl.state = "zombie" \/ s.cl.state = c.cl.state \/ c.cl.state = "primed"
      BY <2>2, MessageEnds
  <2> HIDE DEF s
  <2>4. c.cl.lastCommand \in Nat
      BY <2>2 DEF StepOK, Steps, Clients
  <2>5. p.serverId = svServerId => p.serverId.map = svServerId.map
      OBVIOUS
  <2>6. s.cl.state \in {"primed", "active"} =>
            s.gamestate \/ st.cl.state \in {"primed", "active"}
      BY <2>2, <2>3 DEF Leads
  <2>7. ~Issued("donedl") /\ Entered(s.cl) => Entered(st.cl) \/ p.serverId.map = svServerId.map
      BY <1>2, <2>2, <2>3, <2>5 DEF Leads, Entered
  <2>8. ~Issued("donedl") => ~s.gamestate
      BY <2>2, <2>3 DEF Leads
  <2> QED
    BY <1>0, <2>1, <2>2, <2>3, <2>4, <2>6, <2>7, <2>8 DEF Handled, Leads
<1>3. CASE p.flaw # "oversize"
           /\ ~(p.serverId = svServerId \/ st.cl.downloading \/ st.cl.lastHasNextdl)
  <2>1. CASE SameMap(st, p) /\ st.cl.state = "primed"
    <3> DEFINE s == [st EXCEPT !.cl.state = "active"]
    <3>1. SV_ExecuteClientMessage(st, p) = s
        BY <1>3, <2>1 DEF SV_ExecuteClientMessage
    <3>2. StepOK(s) /\ s.gamestate = st.gamestate /\ s.cl.lastCommand = st.cl.lastCommand
        BY <2>1 DEF StepOK, Steps, Clients, States
    <3> HIDE DEF s
    <3> QED
      BY <1>0, <2>1, <3>1, <3>2 DEF Handled, SameMap
  <2>2. CASE ~SameMap(st, p) /\ Resends(st)
    <3> DEFINE s == SV_SendClientGameState(st)
    <3>1. SV_ExecuteClientMessage(st, p) = s
        BY <1>3, <2>2 DEF SV_ExecuteClientMessage
    <3>2. StepOK(s) /\ s.cl.state \in {"primed", "zombie"}
          /\ s.cl.lastCommand = st.cl.lastCommand
          /\ (s.cl.state = "primed" =>
                /\ s.cl.downloading = st.cl.downloading
                /\ s.cl.lastHasNextdl = st.cl.lastHasNextdl)
          /\ s.gamestate
        BY GamestateSent
    <3> HIDE DEF s
    <3> QED
      BY <1>0, <1>3, <2>2, <3>1, <3>2 DEF Handled, Entered, SameMap
  <2>3. CASE (SameMap(st, p) /\ st.cl.state # "primed") \/ (~SameMap(st, p) /\ ~Resends(st))
    <3>1. SV_ExecuteClientMessage(st, p) = st
        BY <1>3, <2>3 DEF SV_ExecuteClientMessage
    <3> QED
      BY <1>0, <3>1 DEF Handled
  <2> QED
    BY <2>1, <2>2, <2>3
<1> QED
  BY <1>1, <1>2, <1>3

------------------------------------------------------------------------------
(* The invariant of the session.                                            *)

SessionTypes ==
    /\ svServerId \in ServerIds
    /\ cl \in Clients
    /\ dropReason \in Reasons /\ (dropReason # "none" <=> cl.state = "zombie")
    /\ client \in Players
    /\ commands \in Seq(Kinds) /\ Len(commands) <= MaxCommands
    /\ toServer \in Seq(Packets)
    /\ toClient \in Seq(Messages)

\* No packet starts behind a gap: whatever the client has learnt, or is about to learn, to have
\* been executed, was.
CommandsInv ==
    /\ cl.lastCommand <= Len(commands)
    /\ client.acked <= cl.lastCommand
    /\ \A i \in DOMAIN toClient : toClient[i].acked <= cl.lastCommand
    /\ \A i \in DOMAIN toServer :
        /\ toServer[i].first <= cl.lastCommand + 1
        /\ toServer[i].first <= toServer[i].last + 1
        /\ toServer[i].last <= Len(commands)

\* The maps rise along the way of a gamestate: from the packets under way to the server, over
\* the client and the messages under way to it, to the map being played.
MapsInv ==
    /\ client.serverId.map <= svServerId.map
    /\ \A i \in DOMAIN toServer : toServer[i].serverId.map <= client.serverId.map
    /\ \A i, j \in DOMAIN toServer : i < j => toServer[i].serverId.map <= toServer[j].serverId.map
    /\ \A i \in DOMAIN toClient :
        /\ client.serverId.map <= toClient[i].serverId.map
        /\ toClient[i].serverId.map <= svServerId.map
    /\ \A i, j \in DOMAIN toClient : i < j => toClient[i].serverId.map <= toClient[j].serverId.map

\* A client in the game, or one a movement of any map would let in, has the gamestate of the
\* map, and so have its packets.
EnteredInv ==
    ~Issued("donedl") /\ Entered(cl) =>
        /\ client.serverId.map = svServerId.map
        /\ \A i \in DOMAIN toServer : toServer[i].serverId.map = svServerId.map

SessionInv ==
    /\ SessionTypes /\ ExecutedInOrder /\ NoCommandLost /\ CommandsInv /\ AcknowledgeInRange
    /\ MapsInv /\ EnteredInv

\* The parts of a serverId are integers.
LEMMA MapsAreIntegers ==
    /\ ServerIds \subseteq AllServerIds
    /\ \A id \in AllServerIds : id.map \in Int
BY ClientSessionAssumption DEF AllServerIds, ServerIds, NoMap

\* Taking the first element of a queue.
LEMMA Taken ==
    ASSUME NEW S, NEW net \in Seq(S), net # <<>>
    PROVE  /\ DOMAIN net = 1..Len(net) /\ Len(net) \in Nat \ {0}
           /\ 1 \in DOMAIN net /\ Head(net) = net[1] /\ Head(net) \in S
           /\ Tail(net) \in Seq(S)
           /\ DOMAIN Tail(net) = 1..(Len(net) - 1)
           /\ \A i \in DOMAIN Tail(net) : i + 1 \in DOMAIN net /\ Tail(net)[i] = net[i + 1]
OBVIOUS

\* Appending an element to a queue.
LEMMA Appended ==
    ASSUME NEW S, NEW net \in Seq(S), NEW e \in S
    PROVE  /\ DOMAIN net = 1..Len(net) /\ Len(net) \in Nat
           /\ Append(net, e) \in Seq(S)
           /\ DOMAIN Append(net, e) = 1..(Len(net) + 1)
           /\ \A i \in DOMAIN net : Append(net, e)[i] = net[i]
           /\ Append(net, e)[Len(net) + 1] = e
OBVIOUS

\* Older only changes whether the packets are newer than the gamestate.
LEMMA OlderPackets ==
    ASSUME NEW net \in Seq(Packets)
    PROVE  /\ Older(net) \in Seq(Packets) /\ DOMAIN Older(net) = DOMAIN net
           /\ \A i \in DOMAIN net :
                /\ Older(net)[i].serverId = net[i].serverId
                /\ Older(net)[i].first = net[i].first /\ Older(net)[i].last = net[i].last
<1>1. DOMAIN net = 1..Len(net) /\ Len(net) \in Nat /\ \A i \in DOMAIN net : net[i] \in Packets
    OBVIOUS
<1>2. \A i \in DOMAIN net :
        /\ Older(net)[i] \in Packets
        /\ Older(net)[i].serverId = net[i].serverId
        /\ Older(net)[i].first = net[i].first /\ Older(net)[i].last = net[i].last
    BY <1>1 DEF Older, Packets
<1>3. Older(net) = [i \in 1..Len(net) |-> Older(net)[i]]
    BY <1>1 DEF Older
<1>4. Older(net) \in Seq(Packets)
    BY <1>1, <1>2, <1>3
<1> QED
  BY <1>2, <1>4 DEF Older

\* The same for messages.
LEMMA OlderMessages ==
    ASSUME NEW net \in Seq(Messages)
    PROVE  /\ Older(net) \in Seq(Messages)
           /\ DOMAIN Older(net) = DOMAIN net /\ Len(Older(net)) = Len(net)
           /\ \A i \in DOMAIN net :
                /\ Older(net)[i].serverId = net[i].serverId
                /\ Older(net)[i].acked = net[i].acked
<1>1. DOMAIN net = 1..Len(net) /\ Len(net) \in Nat /\ \A i \in DOMAIN net : net[i] \in Messages
    OBVIOUS
<1>2. \A i \in DOMAIN net :
        /\ Older(net)[i] \in Messages
        /\ Older(net)[i].serverId = net[i].serverId
        /\ Older(net)[i].acked = net[i].acked
    BY <1>1 DEF Older, Messages
<1>3. Older(net) = [i \in 1..Len(net) |-> Older(net)[i]]
    BY <1>1 DEF Older
<1>4. Older(net) \in Seq(Messages)
    BY <1>1, <1>2, <1>3
<1>5. Len(Older(net)) = Len(net)
    BY <1>1, <1>3, <1>4
<1> QED
  BY <1>2, <1>4, <1>5 DEF Older

\* A step of the server begins with what holds of one.
LEMMA StartOK ==
    ASSUME SessionInv
    PROVE  StepOK(Start) /\ Start.cl = cl /\ Start.gamestate = FALSE /\ Start.returned = FALSE
<1>1. cl \in Clients /\ executed \in Seq(Nat) /\ dropReason \in Reasons
  <2>1. cl \in Clients /\ dropReason \in Reasons /\ cl.lastCommand \in Nat
      BY DEF SessionInv, SessionTypes, Clients
  <2>2. executed = [i \in 1..cl.lastCommand |-> i]
      BY DEF SessionInv, ExecutedInOrder
  <2> QED
    BY <2>1, <2>2
<1> QED
  BY <1>1 DEF Start, StepOK, Steps, SessionInv, SessionTypes, ExecutedInOrder, NoCommandLost,
         CommandsInv, AcknowledgeInRange

\* What the handler makes of the first packet under way.
LEMMA PacketHandled ==
    ASSUME SessionInv, toServer # <<>>
    PROVE  Handled(Head(toServer), Start, PacketEvent(Head(toServer)))
<1> DEFINE p == Head(toServer)
<1>1. p = toServer[1] /\ p \in Packets /\ 1 \in DOMAIN toServer
    BY Taken DEF SessionInv, SessionTypes
<1>2. p.first <= p.last + 1 /\ p.first <= cl.lastCommand + 1 /\ p.last <= Len(commands)
    BY <1>1 DEF SessionInv, CommandsInv
<1>3. /\ StepOK(Start) /\ Start.cl = cl /\ Start.gamestate = FALSE /\ Start.returned = FALSE
    BY StartOK
<1> HIDE DEF p
<1>4. cl.lastCommand \in Nat
    BY DEF SessionInv, SessionTypes, Clients
<1> DEFINE c == [cl EXCEPT !.newer = p.newer, !.reliableAcknowledge = p.reliable]
<1>5. CASE p.flaw = "negative"
  <2> DEFINE s == [Start EXCEPT !.cl.newer = FALSE]
  <2>1. PacketEvent(p) = s
      BY <1>5 DEF PacketEvent
  <2>2. /\ StepOK(s) /\ s.cl.lastCommand = cl.lastCommand /\ s.cl.state = cl.state
        /\ s.cl.downloading = cl.downloading /\ s.cl.lastHasNextdl = cl.lastHasNextdl
        /\ ~s.gamestate
      BY <1>3 DEF StepOK, Steps, Clients
  <2> HIDE DEF s
  <2> QED
    BY <1>3, <1>4, <2>1, <2>2 DEF Handled, Entered, p
<1>6. CASE p.flaw # "negative" /\ OutOfRange(c)
  <2> DEFINE r == [c EXCEPT !.reliableAcknowledge = c.reliableSequence]
             s == [Start EXCEPT !.cl = r]
  <2>1. PacketEvent(p) = s
      BY <1>6 DEF PacketEvent
  <2>2. /\ r \in Clients /\ r.lastCommand = cl.lastCommand /\ r.state = cl.state
        /\ r.downloading = cl.downloading /\ r.lastHasNextdl = cl.lastHasNextdl
        /\ r.reliableSequence = r.reliableAcknowledge
      BY <1>1, <1>3 DEF StepOK, Steps, Clients, Packets
  <2> HIDE DEF r
  <2>3. /\ s \in Steps /\ s.cl = r /\ s.executed = Start.executed /\ s.reason = Start.reason
        /\ s.gamestate = Start.gamestate
      BY <1>3, <2>2 DEF StepOK, Steps
  <2> HIDE DEF s
  <2>4. s.cl.reliableSequence - s.cl.reliableAcknowledge \in 0..MaxReliable - 1
      BY <2>2, <2>3, ClientSessionAssumption DEF Clients
  <2>5. StepOK(s)
      BY <1>3, <2>2, <2>3, <2>4 DEF StepOK
  <2> QED
    BY <1>3, <1>4, <2>1, <2>2, <2>3, <2>5 DEF Handled, Entered, p
<1>7. CASE p.flaw # "negative" /\ ~OutOfRange(c)
  <2> DEFINE s == [Start EXCEPT !.cl = c]
  <2>1. /\ c \in Clients /\ c.lastCommand = cl.lastCommand /\ c.state = cl.state
        /\ c.downloading = cl.downloading /\ c.lastHasNextdl = cl.lastHasNextdl
        /\ c.reliableSequence - c.reliableAcknowledge \in 0..MaxReliable - 1
    <3>1. /\ c.reliableSequence = cl.reliableSequence /\ c.reliableAcknowledge = p.reliable
          /\ c.lastCommand = cl.lastCommand /\ c.state = cl.state
          /\ c.downloading = cl.downloading /\ c.lastHasNextdl = cl.lastHasNextdl
        BY <1>3 DEF StepOK, Steps, Clients
    <3>2. cl.reliableSequence \in 0..MaxServer /\ p.reliable \in Int
        BY <1>1, <1>3 DEF StepOK, Steps, Clients, Packets
    <3>3. /\ c.reliableSequence - c.reliableAcknowledge \in 0..MaxReliable - 1
          /\ p.reliable \in 0..MaxServer
      <4> HIDE DEF c
      <4> QED
        BY <1>7, <3>1, <3>2, ClientSessionAssumption DEF OutOfRange
    <3>4. c \in Clients
        BY <1>1, <1>3, <3>3 DEF StepOK, Steps, Clients, Packets
    <3> QED
      BY <3>1, <3>3, <3>4
  <2> HIDE DEF c
  <2>2. /\ s \in Steps /\ s.cl = c /\ s.executed = Start.executed /\ s.reason = Start.reason
        /\ s.gamestate = Start.gamestate /\ s.returned = Start.returned
      BY <1>3, <2>1 DEF StepOK, Steps
  <2>3. PacketEvent(p) = IF Gone(c) THEN s ELSE SV_ExecuteClientMessage(s, p)
      BY <1>7 DEF PacketEvent, c
  <2> HIDE DEF s
  <2>4. StepOK(s)
      BY <1>3, <2>1, <2>2 DEF StepOK
  <2>5. CASE Gone(c)
      BY <1>3, <1>4, <2>1, <2>2, <2>3, <2>4, <2>5 DEF Handled, Entered, p
  <2>6. CASE ~Gone(c)
    <3>1. Handled(p, s, SV_ExecuteClientMessage(s, p))
      <4>1. commands \in Seq(Kinds)
          BY DEF SessionInv, SessionTypes
      <4>2. s.cl.state # "zombie" /\ ~s.returned /\ ~s.gamestate
          BY <1>3, <2>1, <2>2, <2>6 DEF Gone
      <4>3. p.first <= s.cl.lastCommand + 1 /\ p \in Packets
          BY <1>1, <1>2, <2>1, <2>2 DEF p
      <4>4. p.first <= p.last + 1 /\ p.last <= Len(commands)
          BY <1>2 DEF p
      <4> QED
        BY <2>4, <4>1, <4>2, <4>3, <4>4, MessageExecuted
    <3> QED
      BY <1>3, <2>1, <2>2, <2>3, <2>6, <3>1 DEF Handled, Entered, p
  <2> QED
    BY <2>5, <2>6
<1> HIDE DEF c
<1>8. Handled(p, Start, PacketEvent(p))
    BY <1>5, <1>6, <1>7 DEF p
<1> QED
  BY <1>8 DEF p

------------------------------------------------------------------------------
(* Every action keeps the invariant.                                        *)

\* The initial states satisfy it, and so do those after a reconnection.
Fresh ==
    /\ svServerId \in ServerIds
    /\ cl = NewClient /\ executed = <<>> /\ dropReason = "none"
    /\ client = NewPlayer /\ commands = <<>> /\ toServer = <<>> /\ toClient = <<>>

\* Nothing is under way, nothing was issued, and the client knows no map.
LEMMA FreshSession == Fresh => SessionInv
<1> SUFFICES ASSUME Fresh PROVE SessionInv
    OBVIOUS
<1> USE DEF Fresh
<1>1. SessionTypes
  <2>1. NewClient \in Clients /\ NewClient.state = "connected"
      BY ClientSessionAssumption DEF NewClient, Clients, States
  <2>2. NewPlayer \in Players
      BY DEF NewPlayer, Players, AllServerIds, NoMap
  <2>3. "none" \in Reasons
      BY DEF Reasons
  <2>4. <<>> \in Seq(Kinds) /\ Len(<<>>) = 0 /\ <<>> \in Seq(Packets) /\ <<>> \in Seq(Messages)
      OBVIOUS
  <2> QED
    BY <2>1, <2>2, <2>3, <2>4, ClientSessionAssumption DEF SessionTypes
<1>2. CommandsInv /\ ExecutedInOrder /\ NoCommandLost
  <2>1. cl.lastCommand = 0 /\ client.acked = 0
      BY DEF NewClient, NewPlayer
  <2>2. executed = [i \in 1..0 |-> i] /\ Len(commands) = 0
      OBVIOUS
  <2>3. DOMAIN toServer = {} /\ DOMAIN toClient = {}
      OBVIOUS
  <2> QED
    BY <2>1, <2>2, <2>3 DEF CommandsInv, ExecutedInOrder, NoCommandLost
<1>3. AcknowledgeInRange
    BY ClientSessionAssumption DEF AcknowledgeInRange, NewClient
<1>4. MapsInv
  <2>1. client.serverId.map = -1 /\ svServerId.map \in 0..MaxMap
      BY DEF NewPlayer, NoMap, ServerIds
  <2>2. DOMAIN toServer = {} /\ DOMAIN toClient = {}
      OBVIOUS
  <2> QED
    BY <2>1, <2>2, ClientSessionAssumption DEF MapsInv
<1>5. EnteredInv
    BY DEF EnteredInv, Entered, NewClient
<1> QED
  BY <1>1, <1>2, <1>3, <1>4, <1>5 DEF SessionInv

\* The types of the parts that the proofs compute with.
LEMMA SessionNumbers ==
    ASSUME SessionInv
    PROVE  /\ cl.lastCommand \in Nat /\ client.acked \in Nat /\ Len(commands) \in Nat
           /\ svServerId.map \in 0..MaxMap /\ client.serverId.map \in Int
           /\ DOMAIN toServer = 1..Len(toServer) /\ Len(toServer) \in Nat
           /\ DOMAIN toClient = 1..Len(toClient) /\ Len(toClient) \in Nat
           /\ \A i \in DOMAIN toServer :
                /\ toServer[i].first \in Nat \ {0} /\ toServer[i].last \in Nat
                /\ toServer[i].serverId.map \in Int
           /\ \A i \in DOMAIN toClient :
                /\ toClient[i].acked \in Nat /\ toClient[i].serverId.map \in Int
<1> USE DEF SessionInv, SessionTypes
<1>1. cl.lastCommand \in Nat /\ client.acked \in Nat /\ Len(commands) \in Nat
    BY DEF Clients, Players
<1>2. svServerId.map \in 0..MaxMap /\ client.serverId.map \in Int
    BY MapsAreIntegers DEF ServerIds, Players
<1>3. /\ DOMAIN toServer = 1..Len(toServer) /\ Len(toServer) \in Nat
      /\ \A i \in DOMAIN toServer : toServer[i] \in Packets
    OBVIOUS
<1>4. /\ DOMAIN toClient = 1..Len(toClient) /\ Len(toClient) \in Nat
      /\ \A i \in DOMAIN toClient : toClient[i] \in Messages
    OBVIOUS
<1>5. \A p \in Packets : p.first \in Nat \ {0} /\ p.last \in Nat /\ p.serverId.map \in Int
    BY MapsAreIntegers DEF Packets
<1>6. \A m \in Messages : m.acked \in Nat /\ m.serverId.map \in Int
    BY MapsAreIntegers DEF Messages
<1> QED
  BY <1>1, <1>2, <1>3, <1>4, <1>5, <1>6

\* Taking the first packet away, whose fate is the business of the server.
LEMMA ServerTakes ==
    ASSUME SessionInv, toServer # <<>>, NEW net, net \in {Tail(toServer), Older(Tail(toServer))}
    PROVE  /\ net \in Seq(Packets)
           /\ \A i \in DOMAIN net :
                /\ i + 1 \in DOMAIN toServer
                /\ net[i].serverId = toServer[i + 1].serverId
                /\ net[i].first = toServer[i + 1].first /\ net[i].last = toServer[i + 1].last
           /\ DOMAIN net \subseteq Nat
<1>1. toServer \in Seq(Packets)
    BY DEF SessionInv, SessionTypes
<1>2. /\ Tail(toServer) \in Seq(Packets)
      /\ DOMAIN Tail(toServer) = 1..(Len(toServer) - 1) /\ Len(toServer) \in Nat \ {0}
      /\ \A i \in DOMAIN Tail(toServer) :
            i + 1 \in DOMAIN toServer /\ Tail(toServer)[i] = toServer[i + 1]
    BY <1>1, Taken
<1>3. CASE net = Tail(toServer)
    BY <1>2, <1>3
<1>4. CASE net = Older(Tail(toServer))
  <2>1. /\ net \in Seq(Packets) /\ DOMAIN net = DOMAIN Tail(toServer)
        /\ \A i \in DOMAIN net :
            /\ net[i].serverId = Tail(toServer)[i].serverId
            /\ net[i].first = Tail(toServer)[i].first /\ net[i].last = Tail(toServer)[i].last
      BY <1>2, <1>4, OlderPackets
  <2> QED
    BY <1>2, <2>1
<1> QED
  BY <1>3, <1>4

\* The server handles a packet.
LEMMA PacketReceived ==
    ASSUME SessionInv, ReceivePacket
    PROVE  SessionInv'
<1> DEFINE p == Head(toServer)
           st == PacketEvent(p)
<1>1. /\ toServer # <<>> /\ cl' = st.cl /\ executed' = st.executed /\ dropReason' = st.reason
      /\ svServerId' = svServerId /\ commands' = commands
      /\ toServer' \in {Tail(toServer), Older(Tail(toServer))}
      /\ \/ toClient' = Append(Older(toClient), Message(st, "gamestate"))
            /\ client' = [client EXCEPT !.newer = FALSE]
         \/ toClient' = toClient /\ client' = client
    BY DEF ReceivePacket
<1>2. Handled(p, Start, st)
    BY <1>1, PacketHandled
<1>3. p \in Packets /\ p.serverId.map = toServer[1].serverId.map /\ 1 \in DOMAIN toServer
    BY <1>1, Taken DEF SessionInv, SessionTypes
<1>4. Start.cl = cl
    BY DEF Start
<1> HIDE DEF st, p
<1>5. /\ st \in Steps /\ st.cl \in Clients /\ st.cl.lastCommand \in Nat
      /\ st.cl.reliableSequence \in Nat /\ cl.lastCommand <= st.cl.lastCommand
  <2>1. st \in Steps /\ cl.lastCommand <= st.cl.lastCommand
      BY <1>2, <1>4 DEF Handled, StepOK
  <2>2. st.cl \in Clients
      BY <2>1 DEF Steps
  <2> QED
    BY <2>1, <2>2, ClientSessionAssumption DEF Clients
<1>6. /\ toServer' \in Seq(Packets)
      /\ \A i \in DOMAIN toServer' :
            /\ i + 1 \in DOMAIN toServer
            /\ toServer'[i].serverId = toServer[i + 1].serverId
            /\ toServer'[i].first = toServer[i + 1].first
            /\ toServer'[i].last = toServer[i + 1].last
      /\ DOMAIN toServer' \subseteq Nat
    BY <1>1, ServerTakes
<1>7. /\ client' \in Players /\ client'.serverId = client.serverId
      /\ client'.acked = client.acked
    BY <1>1 DEF SessionInv, SessionTypes, Players
<1> DEFINE m == Message(st, "gamestate")
<1>8. m \in Messages /\ m.acked = st.cl.lastCommand /\ m.serverId = svServerId
    BY <1>5 DEF Message, Messages, SessionInv, SessionTypes
<1> HIDE DEF m
<1>9. /\ toClient' \in Seq(Messages)
      /\ DOMAIN toClient' \subseteq Nat
      /\ \A i \in DOMAIN toClient' :
            \/ /\ i \in DOMAIN toClient /\ toClient'[i].serverId = toClient[i].serverId
               /\ toClient'[i].acked = toClient[i].acked
            \/ /\ i = Len(toClient) + 1 /\ toClient'[i].serverId = svServerId
               /\ toClient'[i].acked = st.cl.lastCommand
  <2>1. toClient \in Seq(Messages) /\ DOMAIN toClient = 1..Len(toClient)
        /\ Len(toClient) \in Nat
      BY DEF SessionInv, SessionTypes
  <2>2. CASE toClient' = toClient
      BY <2>1, <2>2
  <2>3. CASE toClient' = Append(Older(toClient), m)
    <3> DEFINE old == Older(toClient)
    <3>1. /\ old \in Seq(Messages) /\ DOMAIN old = DOMAIN toClient /\ Len(old) = Len(toClient)
          /\ \A i \in DOMAIN toClient : old[i].serverId = toClient[i].serverId
                                        /\ old[i].acked = toClient[i].acked
        BY <2>1, OlderMessages
    <3> HIDE DEF old
    <3>2. /\ Append(old, m) \in Seq(Messages)
          /\ DOMAIN Append(old, m) = 1..(Len(toClient) + 1)
          /\ \A i \in DOMAIN old : Append(old, m)[i] = old[i]
          /\ Append(old, m)[Len(toClient) + 1] = m
        BY <1>8, <3>1, Appended
    <3>3. toClient' = Append(old, m)
        BY <2>3 DEF old
    <3> QED
      BY <1>8, <2>1, <3>1, <3>2, <3>3
  <2> QED
    BY <1>1, <2>2, <2>3 DEF m
<1>10. SessionTypes'
    BY <1>1, <1>2, <1>5, <1>6, <1>7, <1>9
    DEF SessionInv, SessionTypes, Handled, StepOK, Steps
<1>11. ExecutedInOrder' /\ NoCommandLost'
    BY <1>1, <1>2 DEF Handled, StepOK, ExecutedInOrder, NoCommandLost
<1>12. CommandsInv'
  <2>1. cl'.lastCommand <= Len(commands')
      BY <1>1, <1>2 DEF Handled, StepOK
  <2>2. /\ cl'.lastCommand = st.cl.lastCommand
        /\ st.cl.lastCommand \in Nat /\ cl.lastCommand \in Nat
        /\ cl.lastCommand <= st.cl.lastCommand
      BY <1>1, <1>5, SessionNumbers
  <2>3. CommandsInv
      BY DEF SessionInv
  <2>4. client'.acked <= cl'.lastCommand
    <3>1. client.acked \in Nat /\ client.acked <= cl.lastCommand
        BY <2>3, SessionNumbers DEF CommandsInv
    <3> QED
      BY <1>7, <2>2, <3>1
  <2>5. \A i \in DOMAIN toClient' : toClient'[i].acked <= cl'.lastCommand
    <3>1. \A i \in DOMAIN toClient :
            toClient[i].acked \in Nat /\ toClient[i].acked <= cl.lastCommand
        BY <2>3, SessionNumbers DEF CommandsInv
    <3> QED
      BY <1>9, <2>2, <3>1
  <2>6. \A i \in DOMAIN toServer' :
        /\ toServer'[i].first <= cl'.lastCommand + 1
        /\ toServer'[i].first <= toServer'[i].last + 1
        /\ toServer'[i].last <= Len(commands')
    <3>1. \A i \in DOMAIN toServer :
            /\ toServer[i].first \in Nat /\ toServer[i].first <= cl.lastCommand + 1
            /\ toServer[i].first <= toServer[i].last + 1
            /\ toServer[i].last <= Len(commands)
        BY <2>3, SessionNumbers DEF CommandsInv
    <3>2. TAKE i \in DOMAIN toServer'
    <3>3. /\ i + 1 \in DOMAIN toServer
          /\ toServer'[i].first = toServer[i + 1].first
          /\ toServer'[i].last = toServer[i + 1].last
        BY <1>6
    <3>4. /\ toServer'[i].first \in Nat /\ toServer'[i].first <= cl.lastCommand + 1
          /\ toServer'[i].first <= toServer'[i].last + 1
          /\ toServer'[i].last <= Len(commands')
        BY <1>1, <3>1, <3>3
    <3> QED
      BY <2>2, <3>4
  <2> QED
    BY <2>1, <2>4, <2>5, <2>6 DEF CommandsInv
<1>13. AcknowledgeInRange'
    BY <1>1, <1>2 DEF Handled, StepOK, AcknowledgeInRange
<1>14. MapsInv'
  <2>1. MapsInv
      BY DEF SessionInv
  <2>2. \A i \in DOMAIN toServer' : toServer'[i].serverId.map <= client'.serverId.map
      BY <1>6, <1>7, <2>1 DEF MapsInv
  <2>3. \A i, j \in DOMAIN toServer' :
            i < j => toServer'[i].serverId.map <= toServer'[j].serverId.map
    <3>1. \A i, j \in DOMAIN toServer' : i < j => i + 1 < j + 1
        BY <1>6
    <3> QED
      BY <1>6, <2>1, <3>1 DEF MapsInv
  <2>4. \A i \in DOMAIN toClient' :
            /\ client'.serverId.map <= toClient'[i].serverId.map
            /\ toClient'[i].serverId.map <= svServerId'.map
      BY <1>1, <1>7, <1>9, <2>1, SessionNumbers DEF MapsInv
  <2>5. \A i, j \in DOMAIN toClient' :
            i < j => toClient'[i].serverId.map <= toClient'[j].serverId.map
      BY <1>9, <2>1, SessionNumbers DEF MapsInv
  <2> QED
    BY <1>1, <1>7, <2>1, <2>2, <2>3, <2>4, <2>5 DEF MapsInv
<1>15. EnteredInv'
  <2>1. SUFFICES ASSUME ~Issued("donedl"), Entered(st.cl)
                 PROVE  /\ client.serverId.map = svServerId.map
                        /\ \A i \in DOMAIN toServer' : toServer'[i].serverId.map = svServerId.map
    <3>1. Issued("donedl")' <=> Issued("donedl")
        BY <1>1 DEF Issued
    <3>2. Entered(cl)' <=> Entered(st.cl)
        BY <1>1 DEF Entered
    <3> QED
      BY <1>1, <1>7, <3>1, <3>2 DEF EnteredInv
  <2>2. CASE Entered(cl)
      BY <1>6, <2>1, <2>2 DEF SessionInv, EnteredInv
  <2>3. CASE ~Entered(cl)
    <3>1. toServer[1].serverId.map = svServerId.map
        BY <1>2, <1>3, <1>4, <2>1, <2>3 DEF Handled
    <3>2. client.serverId.map = svServerId.map
        BY <1>3, <3>1, SessionNumbers DEF SessionInv, MapsInv
    <3>3. \A i \in DOMAIN toServer' : toServer[i + 1].serverId.map = svServerId.map
      <4>1. TAKE i \in DOMAIN toServer'
      <4>2. i + 1 \in DOMAIN toServer /\ (1 < i + 1 \/ 1 = i + 1)
          BY <1>6
      <4>3. /\ toServer[1].serverId.map <= toServer[i + 1].serverId.map
            /\ toServer[i + 1].serverId.map <= client.serverId.map
            /\ toServer[i + 1].serverId.map \in Int /\ toServer[1].serverId.map \in Int
        <5>1. MapsInv /\ toServer[1].serverId.map \in Int
            BY <1>3, SessionNumbers DEF SessionInv
        <5> QED
          BY <1>3, <4>2, <5>1, SessionNumbers DEF MapsInv
      <4> QED
        BY <3>1, <3>2, <4>3, SessionNumbers
    <3> QED
      BY <1>6, <3>2, <3>3
  <2> QED
    BY <2>2, <2>3
<1> QED
  BY <1>10, <1>12, <1>13, <1>14, <1>15, <1>11 DEF SessionInv

\* What a snapshot makes of the client: it keeps what holds of a step, and lets no client into
\* the game.
LEMMA SnapshotMade ==
    ASSUME SessionInv
    PROVE  /\ StepOK(Snapshot) /\ Snapshot.cl.lastCommand = cl.lastCommand
           /\ Snapshot.cl.state \in {cl.state, "connected", "zombie"}
           /\ Entered(Snapshot.cl) => Entered(cl)
<1> DEFINE st == IF cl.downloading /\ cl.state # "zombie"
                 THEN [Start EXCEPT !.cl.state = "connected"] ELSE Start
<1>1. StepOK(Start) /\ Start.cl = cl
    BY StartOK
<1>2. /\ StepOK(st) /\ st.cl.lastCommand = cl.lastCommand
      /\ st.cl = cl \/ st.cl.state = "connected"
    BY <1>1 DEF StepOK, Steps, Clients, States, Reasons
<1>3. Snapshot = SV_SendMessageToClient(st)
    BY DEF Snapshot
<1> HIDE DEF st
<1> QED
  BY <1>1, <1>2, <1>3, MessageSent DEF Entered

\* A snapshot takes a client that downloads out of the game.
LEMMA SnapshotSent ==
    ASSUME SessionInv, SendSnapshot
    PROVE  SessionInv'
<1> DEFINE m == Message(Start, "snapshot")
           then == Snapshot
<1>0. /\ StepOK(then) /\ then.cl.lastCommand = cl.lastCommand
      /\ Entered(then.cl) => Entered(cl)
    BY SnapshotMade
<1>1. /\ toClient' = Append(toClient, m) /\ cl' = then.cl /\ dropReason' = then.reason
      /\ UNCHANGED <<svServerId, executed, client, commands, toServer>>
    BY DEF SendSnapshot
<1> HIDE DEF then
<1>2. cl \in Clients /\ toClient \in Seq(Messages) /\ svServerId \in ServerIds
    BY DEF SessionInv, SessionTypes
<1>3. m \in Messages /\ m.acked = cl.lastCommand /\ m.serverId = svServerId
  <2>1. cl.reliableSequence \in Nat /\ cl.lastCommand \in Nat
      BY <1>2, ClientSessionAssumption DEF Clients
  <2> QED
    BY <1>2, <2>1 DEF Message, Messages, Start
<1> HIDE DEF m
<1>4. /\ toClient' \in Seq(Messages)
      /\ DOMAIN toClient' = 1..(Len(toClient) + 1)
      /\ \A i \in DOMAIN toClient : toClient'[i] = toClient[i]
      /\ toClient'[Len(toClient) + 1] = m
    BY <1>1, <1>2, <1>3, Appended
<1>5. /\ cl' \in Clients /\ cl'.lastCommand = cl.lastCommand
      /\ dropReason' \in Reasons /\ (dropReason' # "none" <=> cl'.state = "zombie")
      /\ dropReason' # "lost commands"
      /\ cl'.reliableSequence - cl'.reliableAcknowledge \in 0..MaxReliable - 1
      /\ Entered(cl') => Entered(cl)
    BY <1>0, <1>1 DEF StepOK, Steps
<1>6. SessionTypes'
    BY <1>1, <1>4, <1>5 DEF SessionInv, SessionTypes
<1>7. CommandsInv'
  <2>1. CommandsInv
      BY DEF SessionInv
  <2>2. \A i \in DOMAIN toClient' : toClient'[i].acked <= cl'.lastCommand
    <3>1. cl'.lastCommand = cl.lastCommand
        BY <1>5
    <3> QED
      BY <1>3, <1>4, <2>1, <3>1, SessionNumbers DEF CommandsInv
  <2> QED
    BY <1>1, <1>5, <2>1, <2>2 DEF CommandsInv
<1>8. AcknowledgeInRange' /\ ExecutedInOrder' /\ NoCommandLost'
    BY <1>1, <1>5 DEF SessionInv, AcknowledgeInRange, ExecutedInOrder, NoCommandLost
<1>9. MapsInv'
  <2>1. MapsInv
      BY DEF SessionInv
  <2>2. \A i \in DOMAIN toClient' :
            /\ client.serverId.map <= toClient'[i].serverId.map
            /\ toClient'[i].serverId.map <= svServerId.map
      BY <1>3, <1>4, <2>1, SessionNumbers DEF MapsInv
  <2>3. \A i, j \in DOMAIN toClient' :
            i < j => toClient'[i].serverId.map <= toClient'[j].serverId.map
      BY <1>3, <1>4, <2>1, SessionNumbers DEF MapsInv
  <2> QED
    BY <1>1, <2>1, <2>2, <2>3 DEF MapsInv
<1>10. EnteredInv'
  <2>1. Issued("donedl")' <=> Issued("donedl")
      BY <1>1 DEF Issued
  <2>2. Entered(cl)' => Entered(cl)
      BY <1>5 DEF Entered
  <2> QED
    BY <1>1, <2>1, <2>2 DEF SessionInv, EnteredInv
<1> QED
  BY <1>6, <1>7, <1>8, <1>9, <1>10 DEF SessionInv

\* The ring of the server has room for a command it adds, or the client is marked.
LEMMA ServerCommandAdded ==
    ASSUME SessionInv, AddServerCommand
    PROVE  SessionInv'
<1>1. /\ \/ /\ cl.reliableSequence < MaxServer
            /\ cl.reliableSequence - cl.reliableAcknowledge < MaxReliable - 1
            /\ cl' = [cl EXCEPT !.reliableSequence = @ + 1]
         \/ cl' = [cl EXCEPT !.overflow = TRUE]
      /\ UNCHANGED <<svServerId, executed, dropReason, client, commands, toServer, toClient>>
    BY DEF AddServerCommand
<1>2. /\ cl \in Clients
      /\ cl.reliableSequence \in 0..MaxServer /\ cl.reliableAcknowledge \in 0..MaxServer
    BY DEF SessionInv, SessionTypes, Clients
<1>3. /\ cl' \in Clients /\ cl'.lastCommand = cl.lastCommand /\ cl'.state = cl.state
      /\ cl'.downloading = cl.downloading /\ cl'.lastHasNextdl = cl.lastHasNextdl
      /\ \/ cl'.reliableSequence = cl.reliableSequence
         \/ /\ cl.reliableSequence - cl.reliableAcknowledge < MaxReliable - 1
            /\ cl'.reliableSequence = cl.reliableSequence + 1
      /\ cl'.reliableAcknowledge = cl.reliableAcknowledge
  <2>1. CASE cl' = [cl EXCEPT !.overflow = TRUE]
      BY <1>2, <2>1 DEF Clients
  <2>2. CASE cl' # [cl EXCEPT !.overflow = TRUE]
    <3>1. cl.reliableSequence + 1 \in 0..MaxServer
        BY <1>1, <1>2, <2>2, ClientSessionAssumption
    <3> QED
      BY <1>1, <1>2, <2>2, <3>1 DEF Clients
  <2> QED
    BY <2>1, <2>2
<1>4. SessionTypes'
    BY <1>1, <1>3 DEF SessionInv, SessionTypes
<1>5. CommandsInv'
    BY <1>1, <1>3 DEF SessionInv, CommandsInv
<1>6. AcknowledgeInRange'
    BY <1>1, <1>2, <1>3, ClientSessionAssumption DEF SessionInv, AcknowledgeInRange
<1>9. ExecutedInOrder' /\ NoCommandLost'
    BY <1>1, <1>3 DEF SessionInv, ExecutedInOrder, NoCommandLost
<1>7. MapsInv'
    BY <1>1 DEF SessionInv, MapsInv
<1>8. EnteredInv'
    BY <1>1, <1>3 DEF SessionInv, EnteredInv, Entered, Issued
<1> QED
  BY <1>4, <1>5, <1>6, <1>7, <1>8, <1>9 DEF SessionInv

\* A change of map takes the client out of the game.
LEMMA MapChanged ==
    ASSUME SessionInv, ChangeMap
    PROVE  SessionInv'
<1>1. /\ svServerId.map < MaxMap
      /\ svServerId' = [map |-> svServerId.map + 1, restart |-> 0]
      /\ cl' = IF cl.state = "zombie" THEN cl ELSE [cl EXCEPT !.state = "connected"]
      /\ UNCHANGED <<executed, dropReason, client, commands, toServer, toClient>>
    BY DEF ChangeMap
<1>2. cl \in Clients /\ svServerId.map \in 0..MaxMap
    BY SessionNumbers DEF SessionInv, SessionTypes
<1>3. svServerId' \in ServerIds /\ svServerId'.map = svServerId.map + 1
    BY <1>1, <1>2, ClientSessionAssumption DEF ServerIds
<1>4. /\ cl' \in Clients /\ cl'.lastCommand = cl.lastCommand
      /\ (cl'.state = "zombie" <=> cl.state = "zombie")
      /\ cl'.state \in {"zombie", "connected"}
      /\ cl'.reliableSequence = cl.reliableSequence
      /\ cl'.reliableAcknowledge = cl.reliableAcknowledge
    BY <1>1, <1>2 DEF Clients, States
<1>5. SessionTypes'
    BY <1>1, <1>3, <1>4 DEF SessionInv, SessionTypes
<1>6. CommandsInv'
    BY <1>1, <1>4 DEF SessionInv, CommandsInv
<1>7. AcknowledgeInRange' /\ ExecutedInOrder' /\ NoCommandLost'
    BY <1>1, <1>4 DEF SessionInv, AcknowledgeInRange, ExecutedInOrder, NoCommandLost
<1>8. MapsInv'
  <2>1. MapsInv
      BY DEF SessionInv
  <2>2. client.serverId.map <= svServerId.map + 1
      BY <2>1, SessionNumbers DEF MapsInv
  <2>3. \A i \in DOMAIN toClient : toClient[i].serverId.map <= svServerId.map + 1
      BY <1>2, <2>1, SessionNumbers DEF MapsInv
  <2> QED
    BY <1>1, <1>3, <2>1, <2>2, <2>3 DEF MapsInv
<1>9. EnteredInv'
    BY <1>4 DEF EnteredInv, Entered
<1> QED
  BY <1>5, <1>6, <1>7, <1>8, <1>9 DEF SessionInv

\* A restart leaves the map, the high nibble, alone.
LEMMA MapRestarted ==
    ASSUME SessionInv, RestartMap
    PROVE  SessionInv'
<1>1. /\ svServerId.restart < MaxRestart
      /\ svServerId' = [svServerId EXCEPT !.restart = @ + 1]
      /\ UNCHANGED <<cl, executed, dropReason, client, commands, toServer, toClient>>
    BY DEF RestartMap
<1>2. svServerId' \in ServerIds /\ svServerId'.map = svServerId.map
  <2>1. svServerId \in ServerIds /\ svServerId.restart \in 0..MaxRestart
      BY DEF SessionInv, SessionTypes, ServerIds
  <2>2. svServerId.restart + 1 \in 0..MaxRestart
      BY <1>1, <2>1, ClientSessionAssumption
  <2> QED
    BY <1>1, <2>1, <2>2 DEF ServerIds
<1>3. SessionTypes'
    BY <1>1, <1>2 DEF SessionInv, SessionTypes
<1>4. CommandsInv' /\ AcknowledgeInRange' /\ ExecutedInOrder' /\ NoCommandLost'
    BY <1>1 DEF SessionInv, CommandsInv, AcknowledgeInRange, ExecutedInOrder, NoCommandLost
<1>5. MapsInv'
    BY <1>1, <1>2 DEF SessionInv, MapsInv
<1>6. EnteredInv'
    BY <1>1, <1>2 DEF SessionInv, EnteredInv, Entered, Issued
<1> QED
  BY <1>3, <1>4, <1>5, <1>6 DEF SessionInv

\* The client issues a command, which reaches the server with a later packet.
LEMMA CommandIssued ==
    ASSUME SessionInv, NEW kind \in Kinds, IssueCommand(kind)
    PROVE  SessionInv'
<1>1. /\ Len(commands) < MaxCommands
      /\ commands' = Append(commands, kind)
      /\ client' = [client EXCEPT !.ready = @ /\ kind # "download"]
      /\ UNCHANGED <<svServerId, cl, executed, dropReason, toServer, toClient>>
    BY DEF IssueCommand
<1>2. /\ commands' \in Seq(Kinds) /\ Len(commands') = Len(commands) + 1
      /\ \A i \in DOMAIN commands : i \in DOMAIN commands' /\ commands'[i] = commands[i]
    BY <1>1 DEF SessionInv, SessionTypes
<1>3. /\ client' \in Players /\ client'.serverId = client.serverId
      /\ client'.acked = client.acked
  <2>1. client \in Players /\ (client.ready /\ kind # "download") \in BOOLEAN
      BY DEF SessionInv, SessionTypes
  <2> QED
    BY <1>1, <2>1 DEF Players
<1>4. SessionTypes'
  <2>1. Len(commands') <= MaxCommands
      BY <1>1, <1>2, SessionNumbers, ClientSessionAssumption
  <2> QED
    BY <1>1, <1>2, <1>3, <2>1 DEF SessionInv, SessionTypes
<1>5. CommandsInv'
  <2>1. CommandsInv
      BY DEF SessionInv
  <2>2. cl.lastCommand <= Len(commands')
      BY <1>2, <2>1, SessionNumbers DEF CommandsInv
  <2>3. \A i \in DOMAIN toServer : toServer[i].last <= Len(commands')
      BY <1>2, <2>1, SessionNumbers DEF CommandsInv
  <2> QED
    BY <1>1, <1>3, <2>1, <2>2, <2>3 DEF CommandsInv
<1>6. AcknowledgeInRange' /\ ExecutedInOrder' /\ NoCommandLost'
    BY <1>1 DEF SessionInv, AcknowledgeInRange, ExecutedInOrder, NoCommandLost
<1>7. MapsInv'
    BY <1>1, <1>3 DEF SessionInv, MapsInv
<1>8. EnteredInv'
  <2>1. Issued("donedl") => Issued("donedl")'
      BY <1>2 DEF Issued
  <2> QED
    BY <1>1, <1>3, <2>1 DEF SessionInv, EnteredInv, Entered
<1> QED
  BY <1>4, <1>5, <1>6, <1>7, <1>8 DEF SessionInv

\* A packet of the client, forged or not.
LEMMA PacketSent ==
    ASSUME SessionInv, NEW reliable \in Int, NEW flaw \in Flaws,
           toServer' = Append(toServer, Packet(reliable, flaw)),
           UNCHANGED <<svServerId, cl, executed, dropReason, client, commands, toClient>>
    PROVE  SessionInv'
<1> DEFINE p == Packet(reliable, flaw)
<1>1. client \in Players /\ toServer \in Seq(Packets)
    BY DEF SessionInv, SessionTypes
<1>2. /\ p \in Packets /\ p.serverId = client.serverId
      /\ p.first = client.acked + 1 /\ p.last = Len(commands)
  <2>1. client.acked + 1 \in Nat \ {0} /\ Len(commands) \in Nat
      BY SessionNumbers
  <2> QED
    BY <1>1, <2>1 DEF Packet, Packets, Players
<1> HIDE DEF p
<1>3. /\ toServer' \in Seq(Packets)
      /\ DOMAIN toServer' = 1..(Len(toServer) + 1)
      /\ \A i \in DOMAIN toServer : toServer'[i] = toServer[i]
      /\ toServer'[Len(toServer) + 1] = p
    BY <1>1, <1>2, Appended DEF p
<1>4. SessionTypes'
    BY <1>3 DEF SessionInv, SessionTypes
<1>5. CommandsInv'
  <2>1. CommandsInv
      BY DEF SessionInv
  <2>2. /\ p.first <= cl.lastCommand + 1 /\ p.first <= p.last + 1 /\ p.last <= Len(commands)
      BY <1>2, <2>1, SessionNumbers DEF CommandsInv
  <2>3. \A i \in DOMAIN toServer' :
            /\ toServer'[i].first <= cl.lastCommand + 1
            /\ toServer'[i].first <= toServer'[i].last + 1
            /\ toServer'[i].last <= Len(commands)
      BY <1>3, <2>1, <2>2, SessionNumbers DEF CommandsInv
  <2> QED
    BY <2>1, <2>3 DEF CommandsInv
<1>6. AcknowledgeInRange' /\ ExecutedInOrder' /\ NoCommandLost'
    BY DEF SessionInv, AcknowledgeInRange, ExecutedInOrder, NoCommandLost
<1>7. MapsInv'
  <2>1. MapsInv
      BY DEF SessionInv
  <2>2. \A i \in DOMAIN toServer' : toServer'[i].serverId.map <= client.serverId.map
      BY <1>2, <1>3, <2>1, SessionNumbers DEF MapsInv
  <2>3. \A i, j \in DOMAIN toServer' :
            i < j => toServer'[i].serverId.map <= toServer'[j].serverId.map
      BY <1>2, <1>3, <2>1, SessionNumbers DEF MapsInv
  <2> QED
    BY <2>1, <2>2, <2>3 DEF MapsInv
<1>8. EnteredInv'
  <2>1. SUFFICES ASSUME ~Issued("donedl"), Entered(cl)
                 PROVE  /\ client.serverId.map = svServerId.map
                        /\ \A i \in DOMAIN toServer' : toServer'[i].serverId.map = svServerId.map
      BY DEF EnteredInv, Entered, Issued
  <2>2. /\ client.serverId.map = svServerId.map
        /\ \A i \in DOMAIN toServer : toServer[i].serverId.map = svServerId.map
      BY <2>1 DEF SessionInv, EnteredInv
  <2> QED
    BY <1>2, <1>3, <2>2, SessionNumbers
<1> QED
  BY <1>4, <1>5, <1>6, <1>7, <1>8 DEF SessionInv

\* The client learns what the first message under way says.
LEMMA MessageReceived ==
    ASSUME SessionInv, ReceiveMessage
    PROVE  SessionInv'
<1> DEFINE m == Head(toClient)
           knows == m.kind = "gamestate" \/ (client.ready /\ m.serverId.map = client.serverId.map)
<1>1. /\ toClient # <<>> /\ toClient' = Tail(toClient)
      /\ client' = [serverId |-> IF knows THEN m.serverId ELSE client.serverId,
                    ready |-> client.ready \/ m.kind = "gamestate",
                    newer |-> m.newer, acked |-> m.acked, reliable |-> m.reliable]
      /\ UNCHANGED <<svServerId, cl, executed, dropReason, commands, toServer>>
    BY DEF ReceiveMessage
<1>2. client \in Players /\ toClient \in Seq(Messages)
    BY DEF SessionInv, SessionTypes
<1>3. /\ 1 \in DOMAIN toClient /\ m = toClient[1] /\ m \in Messages
      /\ toClient' \in Seq(Messages) /\ DOMAIN toClient' \subseteq Nat
      /\ \A i \in DOMAIN toClient' :
            i + 1 \in DOMAIN toClient /\ toClient'[i] = toClient[i + 1] /\ 1 < i + 1
    BY <1>1, <1>2, Taken
<1> HIDE DEF m
<1>4. /\ client' \in Players /\ client'.acked = m.acked
      /\ client'.serverId \in {m.serverId, client.serverId}
    BY <1>1, <1>2, <1>3, MapsAreIntegers DEF Players, Messages
<1>5. SessionTypes'
    BY <1>1, <1>3, <1>4 DEF SessionInv, SessionTypes
<1>6. CommandsInv'
    BY <1>1, <1>3, <1>4 DEF SessionInv, CommandsInv
<1>7. AcknowledgeInRange' /\ ExecutedInOrder' /\ NoCommandLost'
    BY <1>1 DEF SessionInv, AcknowledgeInRange, ExecutedInOrder, NoCommandLost
<1>8. /\ client.serverId.map <= client'.serverId.map /\ client'.serverId.map \in Int
      /\ client'.serverId.map <= m.serverId.map /\ client'.serverId.map <= svServerId.map
    BY <1>3, <1>4, SessionNumbers DEF SessionInv, MapsInv
<1>9. MapsInv'
  <2>1. MapsInv
      BY DEF SessionInv
  <2>2. \A i \in DOMAIN toServer : toServer[i].serverId.map <= client'.serverId.map
      BY <1>8, <2>1, SessionNumbers DEF MapsInv
  <2>3. \A i \in DOMAIN toClient' :
            /\ client'.serverId.map <= toClient'[i].serverId.map
            /\ toClient'[i].serverId.map <= svServerId.map
    <3>1. TAKE i \in DOMAIN toClient'
    <3>2. i + 1 \in DOMAIN toClient /\ toClient'[i] = toClient[i + 1] /\ 1 < i + 1
        BY <1>3
    <3>3. /\ m.serverId.map <= toClient'[i].serverId.map
          /\ toClient'[i].serverId.map <= svServerId.map
        BY <1>3, <2>1, <3>2 DEF MapsInv
    <3>4. m.serverId.map \in Int /\ toClient'[i].serverId.map \in Int
        BY <1>3, <3>2, SessionNumbers
    <3> QED
      BY <1>8, <3>3, <3>4
  <2>4. \A i, j \in DOMAIN toClient' :
            i < j => toClient'[i].serverId.map <= toClient'[j].serverId.map
    <3>1. \A i, j \in DOMAIN toClient' : i < j => i + 1 < j + 1
        BY <1>3
    <3> QED
      BY <1>3, <2>1, <3>1 DEF MapsInv
  <2> QED
    BY <1>1, <1>8, <2>1, <2>2, <2>3, <2>4 DEF MapsInv
<1>10. EnteredInv'
  <2>1. Issued("donedl")' <=> Issued("donedl")
      BY <1>1 DEF Issued
  <2>2. Entered(cl)' <=> Entered(cl)
      BY <1>1 DEF Entered
  <2>3. client.serverId.map = svServerId.map => client'.serverId.map = svServerId.map
      BY <1>8, SessionNumbers
  <2> QED
    BY <1>1, <2>1, <2>2, <2>3 DEF SessionInv, EnteredInv
<1> QED
  BY <1>5, <1>6, <1>7, <1>9, <1>10 DEF SessionInv

\* What is lost leaves the rest in order.
LEMMA PacketLost ==
    ASSUME SessionInv, LosePacket
    PROVE  SessionInv'
<1>0. UNCHANGED <<svServerId, cl, executed, dropReason, client, commands>>
    BY DEF LosePacket
<1>1. CASE toServer # <<>> /\ toServer' = Tail(toServer) /\ UNCHANGED toClient
  <2>1. /\ toServer' \in Seq(Packets)
        /\ \A i \in DOMAIN toServer' :
            /\ i + 1 \in DOMAIN toServer
            /\ toServer'[i].serverId = toServer[i + 1].serverId
            /\ toServer'[i].first = toServer[i + 1].first
            /\ toServer'[i].last = toServer[i + 1].last
        /\ \A i, j \in DOMAIN toServer' : i < j => i + 1 < j + 1
    <3>1. /\ toServer' \in Seq(Packets) /\ DOMAIN toServer' \subseteq Nat
          /\ \A i \in DOMAIN toServer' :
                i + 1 \in DOMAIN toServer /\ toServer'[i] = toServer[i + 1]
        BY <1>1, Taken DEF SessionInv, SessionTypes
    <3> QED
      BY <3>1
  <2>2. SessionTypes'
      BY <1>0, <1>1, <2>1 DEF SessionInv, SessionTypes
  <2>3. CommandsInv'
      BY <1>0, <1>1, <2>1 DEF SessionInv, CommandsInv
  <2>4. AcknowledgeInRange' /\ ExecutedInOrder' /\ NoCommandLost'
      BY <1>0 DEF SessionInv, AcknowledgeInRange, ExecutedInOrder, NoCommandLost
  <2>5. MapsInv'
      BY <1>0, <1>1, <2>1 DEF SessionInv, MapsInv
  <2>6. EnteredInv'
      BY <1>0, <2>1 DEF SessionInv, EnteredInv, Entered, Issued
  <2> QED
    BY <2>2, <2>3, <2>4, <2>5, <2>6 DEF SessionInv
<1>2. CASE toClient # <<>> /\ toClient' = Tail(toClient) /\ UNCHANGED toServer
  <2>1. /\ toClient' \in Seq(Messages)
        /\ \A i \in DOMAIN toClient' :
            i + 1 \in DOMAIN toClient /\ toClient'[i] = toClient[i + 1]
        /\ \A i, j \in DOMAIN toClient' : i < j => i + 1 < j + 1
    <3>1. /\ toClient' \in Seq(Messages) /\ DOMAIN toClient' \subseteq Nat
          /\ \A i \in DOMAIN toClient' :
                i + 1 \in DOMAIN toClient /\ toClient'[i] = toClient[i + 1]
        BY <1>2, Taken DEF SessionInv, SessionTypes
    <3> QED
      BY <3>1
  <2>2. SessionTypes'
      BY <1>0, <1>2, <2>1 DEF SessionInv, SessionTypes
  <2>3. CommandsInv'
      BY <1>0, <1>2, <2>1 DEF SessionInv, CommandsInv
  <2>4. AcknowledgeInRange' /\ ExecutedInOrder' /\ NoCommandLost'
      BY <1>0 DEF SessionInv, AcknowledgeInRange, ExecutedInOrder, NoCommandLost
  <2>5. MapsInv'
      BY <1>0, <1>2, <2>1 DEF SessionInv, MapsInv
  <2>6. EnteredInv'
      BY <1>0, <1>2 DEF SessionInv, EnteredInv, Entered, Issued
  <2> QED
    BY <2>2, <2>3, <2>4, <2>5, <2>6 DEF SessionInv
<1> QED
  BY <1>1, <1>2 DEF LosePacket

\* Stuttering.
LEMMA SessionUnchanged ==
    ASSUME SessionInv, UNCHANGED vars
    PROVE  SessionInv'
<1>1. UNCHANGED <<svServerId, cl, executed, dropReason, client, commands, toServer, toClient>>
    BY DEF vars
<1>2. SessionTypes' /\ CommandsInv' /\ AcknowledgeInRange' /\ MapsInv'
      /\ ExecutedInOrder' /\ NoCommandLost'
    BY <1>1 DEF SessionInv, SessionTypes, CommandsInv, AcknowledgeInRange, MapsInv,
                ExecutedInOrder, NoCommandLost
<1>3. EnteredInv'
    BY <1>1 DEF SessionInv, EnteredInv, Entered, Issued
<1> QED
  BY <1>2, <1>3 DEF SessionInv

\* A packet of the client as it is.
LEMMA ClientPacketSent ==
    ASSUME SessionInv, SendPacket
    PROVE  SessionInv'
<1>1. client.reliable \in Int /\ "none" \in Flaws
    BY DEF SessionInv, SessionTypes, Players, Flaws
<1> QED
  BY <1>1, PacketSent DEF SendPacket

\* A packet of a modified client.
LEMMA ForgedPacketSent ==
    ASSUME SessionInv, ForgePacket
    PROVE  SessionInv'
<1>1. PICK r \in Forged, f \in Flaws : toServer' = Append(toServer, Packet(r, f))
    BY DEF ForgePacket
<1>2. r \in Int
    BY ClientSessionAssumption
<1> QED
  BY <1>1, <1>2, PacketSent DEF ForgePacket

------------------------------------------------------------------------------
(* ClientSession.                                                           *)

\* Every step of ClientSession keeps the invariant.
LEMMA SessionStep ==
    ASSUME SessionInv, [Next]_vars
    PROVE  SessionInv'
<1>1. CASE ReceivePacket
    BY <1>1, PacketReceived
<1>2. CASE SendSnapshot
    BY <1>2, SnapshotSent
<1>3. CASE AddServerCommand
    BY <1>3, ServerCommandAdded
<1>4. CASE ChangeMap
    BY <1>4, MapChanged
<1>5. CASE RestartMap
    BY <1>5, MapRestarted
<1>6. CASE \E kind \in Kinds : IssueCommand(kind)
    BY <1>6, CommandIssued
<1>7. CASE SendPacket
    BY <1>7, ClientPacketSent
<1>8. CASE ForgePacket
    BY <1>8, ForgedPacketSent
<1>9. CASE ReceiveMessage
    BY <1>9, MessageReceived
<1>10. CASE LosePacket
    BY <1>10, PacketLost
<1>11. CASE UNCHANGED vars
    BY <1>11, SessionUnchanged
<1> QED
  BY <1>1, <1>2, <1>3, <1>4, <1>5, <1>6, <1>7, <1>8, <1>9, <1>10, <1>11 DEF Next

\* The initial states satisfy it.
LEMMA SessionBegins ==
    ASSUME Init
    PROVE  SessionInv
<1>1. [map |-> 0, restart |-> 0] \in ServerIds
    BY ClientSessionAssumption DEF ServerIds
<1> QED
  BY <1>1, FreshSession DEF Init, Fresh

\* The invariant of the session: types, the history of commands, the acknowledgements, the
\* order of the maps under way and what a client in the game knows.
THEOREM SessionInvariance == Spec => []SessionInv
<1>1. Init => SessionInv
    BY SessionBegins
<1>2. SessionInv /\ [Next]_vars => SessionInv'
    BY SessionStep
<1> QED
  BY <1>1, <1>2, PTL DEF Spec

\* The types of ClientSession, whatever packets are forged.
THEOREM SessionTypeCorrect == Spec => []TypeOK
<1>1. SessionInv => TypeOK
  <2> SUFFICES ASSUME SessionInv PROVE TypeOK
      OBVIOUS
  <2>1. /\ svServerId \in ServerIds /\ cl \in Clients /\ client \in Players
        /\ dropReason \in Reasons /\ (dropReason # "none" <=> cl.state = "zombie")
        /\ commands \in Seq(Kinds) /\ Len(commands) <= MaxCommands
      BY DEF SessionInv, SessionTypes
  <2>2. cl.lastCommand \in 0..MaxCommands
      BY <2>1, SessionNumbers, ClientSessionAssumption DEF SessionInv, CommandsInv
  <2>3. executed \in Seq(1..MaxCommands)
    <3>1. executed = [i \in 1..cl.lastCommand |-> i]
        BY DEF SessionInv, ExecutedInOrder
    <3>2. cl.lastCommand \in Nat /\ \A i \in 1..cl.lastCommand : i \in 1..MaxCommands
        BY <2>2, ClientSessionAssumption
    <3> DEFINE Numbers == 1..MaxCommands
    <3>3. \A i \in 1..cl.lastCommand : i \in Numbers
        BY <3>2
    <3> HIDE DEF Numbers
    <3>4. [i \in 1..cl.lastCommand |-> i] \in Seq(Numbers)
        BY <3>2, <3>3
    <3> QED
      BY <3>1, <3>4 DEF Numbers
  <2>4. client.serverId \in ServerIds \cup {NoMap}
      BY <2>1 DEF Players, AllServerIds
  <2>5. /\ cl.state \in {"connected", "primed", "active", "zombie"}
        /\ {cl.downloading, cl.impure, cl.newer, cl.lastHasNextdl, cl.overflow} \subseteq BOOLEAN
        /\ cl.reliableSequence \in 0..MaxServer /\ cl.reliableAcknowledge \in 0..MaxServer
      BY <2>1 DEF Clients, States
  <2> QED
    BY <2>1, <2>2, <2>3, <2>4, <2>5 DEF TypeOK
<1> QED
  BY <1>1, SessionInvariance, PTL

\* The server executes the client's commands in the order they were issued, each once, through
\* any loss, repetition and skipping of packets.
THEOREM ExecutedInOrderHolds == Spec => []ExecutedInOrder
<1>1. SessionInv => ExecutedInOrder
    BY DEF SessionInv
<1> QED
  BY <1>1, SessionInvariance, PTL

\* A client that repeats what is not acknowledged is never dropped for a gap in its commands,
\* whatever acknowledgements of the server's commands it forges.
THEOREM NoCommandLostHolds == Spec => []NoCommandLost
<1>1. SessionInv => NoCommandLost
    BY DEF SessionInv
<1> QED
  BY <1>1, SessionInvariance, PTL

\* The commands of the server that are not acknowledged fit their ring, whatever
\* acknowledgements are forged: custom_SV_PacketEvent puts every other number right.
THEOREM AcknowledgeInRangeHolds == Spec => []AcknowledgeInRange
<1>1. SessionInv => AcknowledgeInRange
    BY DEF SessionInv
<1> QED
  BY <1>1, SessionInvariance, PTL

\* A client put into the game has the gamestate of the map, unless it ended a download.
THEOREM ActiveKnowsMapHolds == Spec => []ActiveKnowsMap
<1>1. SessionInv => ActiveKnowsMap
    BY DEF SessionInv, EnteredInv, Entered, ActiveKnowsMap
<1> QED
  BY <1>1, SessionInvariance, PTL

------------------------------------------------------------------------------
(* PlayerState.                                                             *)

\* Every step of PlayerState keeps the invariant of the session.
LEMMA PlayerStep ==
    ASSUME SessionInv, [PlayerNext]_playerVars
    PROVE  SessionInv'
<1>1. CASE HandlePacket
    BY <1>1, PacketReceived DEF HandlePacket
<1>2. CASE SpawnServer
    BY <1>2, MapChanged DEF SpawnServer
<1>3. CASE Connect
  <2>1. /\ svServerId' = svServerId /\ cl' = NewClient /\ executed' = <<>>
        /\ dropReason' = "none" /\ client' = NewPlayer /\ commands' = <<>>
        /\ toServer' = <<>> /\ toClient' = <<>>
      BY <1>3 DEF Connect
  <2>2. svServerId' \in ServerIds
      BY <2>1 DEF SessionInv, SessionTypes
  <2>3. Fresh'
      BY <2>1, <2>2 DEF Fresh
  <2> QED
    BY <2>3, FreshSession, PTL
<1>4. CASE Session
    BY <1>4, SnapshotSent, MapRestarted, CommandIssued, ClientPacketSent, MessageReceived,
       PacketLost DEF Session
<1>5. CASE UNCHANGED vars
    BY <1>5, SessionUnchanged
<1>6. Script => UNCHANGED vars
    BY DEF Script, gsc_player_setspeed, gsc_player_sethiddenfromscoreboard,
           gsc_player_disableitemautopickup, gsc_player_enableitemautopickup, Set, Clear
<1>7. UNCHANGED playerVars => UNCHANGED vars
    BY DEF playerVars
<1> QED
  BY <1>1, <1>2, <1>3, <1>4, <1>5, <1>6, <1>7 DEF PlayerNext

\* The invariant of the session holds of a slot and its clients, one after the other.
THEOREM PlayerInvariance == PlayerSpec => []SessionInv
<1>1. PlayerInit => SessionInv
    BY SessionBegins DEF PlayerInit
<1>2. SessionInv /\ [PlayerNext]_playerVars => SessionInv'
    BY PlayerStep
<1> QED
  BY <1>1, <1>2, PTL DEF PlayerSpec

\* Only a packet primes a client, and only with a gamestate; nothing else but a script touches
\* what the scripts have set without taking the client out of the game.
LEMMA SettingsStep ==
    ASSUME SessionInv, SettingsAreCurrent, [PlayerNext]_playerVars
    PROVE  SettingsAreCurrent'
<1> USE DEF SettingsAreCurrent
<1>1. CASE HandlePacket
  <2> DEFINE st == PacketEvent(Head(toServer))
  <2>1. toServer # <<>> /\ cl' = st.cl
      BY <1>1 DEF HandlePacket, ReceivePacket
  <2>2. st.cl.state \in {"primed", "active"} => st.gamestate \/ cl.state \in {"primed", "active"}
      BY <2>1, PacketHandled DEF Handled, Start
  <2>3. IF st.gamestate THEN stale' = {} ELSE stale' = stale
      BY <1>1 DEF HandlePacket, Reset
  <2> HIDE DEF st
  <2> QED
    BY <2>1, <2>2, <2>3
<1>2. CASE SpawnServer
  <2>1. cl \in Clients
      BY DEF SessionInv, SessionTypes
  <2>2. cl' = IF cl.state = "zombie" THEN cl ELSE [cl EXCEPT !.state = "connected"]
      BY <1>2 DEF SpawnServer, ChangeMap
  <2>3. cl'.state \in {"zombie", "connected"}
      BY <2>1, <2>2 DEF Clients
  <2> QED
    BY <2>3
<1>3. CASE Connect
    BY <1>3 DEF Connect, NewClient
<1>4. CASE Session /\ UNCHANGED <<custom, stale, occupants>>
  <2>1. cl \in Clients
      BY DEF SessionInv, SessionTypes
  <2>2. cl' = cl \/ cl' = Snapshot.cl
      BY <1>4 DEF Session, SendSnapshot, RestartMap, IssueCommand, SendPacket, ReceiveMessage,
                  LosePacket
  <2>3. cl'.state \in {cl.state, "connected", "zombie"}
      BY <2>1, <2>2, SnapshotMade DEF Clients
  <2> QED
    BY <1>4, <2>3
<1>5. CASE Script
  <2>1. UNCHANGED vars /\ stale' \subseteq stale
      BY <1>5 DEF Script, gsc_player_setspeed, gsc_player_sethiddenfromscoreboard,
                  gsc_player_disableitemautopickup, gsc_player_enableitemautopickup, Set, Clear
  <2>2. cl' = cl
      BY <2>1 DEF vars
  <2> QED
    BY <2>1, <2>2
<1>6. CASE UNCHANGED playerVars
    BY <1>6 DEF playerVars, vars
<1> QED
  BY <1>1, <1>2, <1>3, <1>4, <1>5, <1>6 DEF PlayerNext

\* What applies to a client with a gamestate was set for it and on this map: the gamestate that
\* primes it clears whatever an earlier client or map has left in the slot.
THEOREM SettingsAreCurrentHolds == PlayerSpec => []SettingsAreCurrent
<1>1. PlayerInit => SettingsAreCurrent
    BY DEF PlayerInit, Init, NewClient, SettingsAreCurrent
<1>2. SessionInv /\ SettingsAreCurrent /\ [PlayerNext]_playerVars => SettingsAreCurrent'
    BY SettingsStep
<1> QED
  BY <1>1, <1>2, PlayerInvariance, PTL DEF PlayerSpec

\* What was set for a client in the game is not cleared behind its back: a packet that has a
\* gamestate sent is of another map, and those of a client in the game are not.
THEOREM KeepsSettingsHolds == PlayerSpec => KeepsSettings
<1> DEFINE Kept1 == cl.state = "active" /\ ~(custom \subseteq custom')
                      => UNCHANGED vars \/ occupants' # occupants \/ Issued("donedl")
<1>1. SessionInv /\ [PlayerNext]_playerVars => [Kept1]_playerVars
  <2> SUFFICES ASSUME SessionInv, PlayerNext, cl.state = "active", ~(custom \subseteq custom'),
                      ~Issued("donedl")
               PROVE  UNCHANGED vars
      OBVIOUS
  <2>1. CASE HandlePacket
    <3> DEFINE st == PacketEvent(Head(toServer))
    <3>1. toServer # <<>>
        BY <2>1 DEF HandlePacket, ReceivePacket
    <3>2. st.gamestate
        BY <2>1 DEF HandlePacket, Reset
    <3>3. Head(toServer).serverId.map # svServerId.map
        BY <3>1, <3>2, PacketHandled DEF Handled
    <3>4. 1 \in DOMAIN toServer /\ Head(toServer) = toServer[1]
        BY <3>1, Taken DEF SessionInv, SessionTypes
    <3>5. toServer[1].serverId.map = svServerId.map
        BY <3>4 DEF SessionInv, EnteredInv, Entered
    <3> QED
      BY <3>3, <3>4, <3>5
  <2>2. CASE SpawnServer \/ Connect \/ (Session /\ UNCHANGED <<custom, stale, occupants>>)
      BY <2>2 DEF SpawnServer, Connect
  <2>3. CASE Script
      BY <2>3 DEF Script, gsc_player_setspeed, gsc_player_sethiddenfromscoreboard,
                  gsc_player_disableitemautopickup, gsc_player_enableitemautopickup, Set, Clear
  <2> QED
    BY <2>1, <2>2, <2>3 DEF PlayerNext
<1> HIDE DEF Kept1
<1>2. PlayerSpec => [][Kept1]_playerVars
    BY <1>1, PlayerInvariance, PTL DEF PlayerSpec
<1> QED
  BY <1>2 DEF KeepsSettings, Kept1
==============================================================================
