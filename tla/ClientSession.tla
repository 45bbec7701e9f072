---------------------------- MODULE ClientSession ----------------------------
(***************************************************************************)
(* The sequenced packets of one client: custom_SV_PacketEvent,             *)
(* custom_SV_ExecuteClientMessage, custom_SV_ClientCommand and             *)
(* custom_SV_SendClientGameState.  Packets of both directions may be lost; *)
(* netchan drops late and duplicate ones, so the others stay in order.     *)
(* The client repeats a command until a packet of the server acknowledges  *)
(* it.  Message numbers only matter relative to the last gamestate, and    *)
(* are modelled by whether a message is newer than it.                     *)
(***************************************************************************)
EXTENDS Integers, Sequences, FiniteSets

CONSTANTS
    Kinds,        \* kinds of commands the client may issue
    MaxCommands,  \* bound on the commands it issues
    MaxEach,      \* bound on those of one kind
    MaxReliable,  \* MAX_RELIABLE_COMMANDS
    MaxServer,    \* bound on the reliable commands of the server
    MaxMap,       \* bound on the changes of map (fewer than the 16 of a nibble)
    MaxRestart,   \* bound on the restarts of a map (fewer than 16)
    NetMax,       \* bound on the packets under way in a direction
    Forged        \* reliable acknowledgements only a modified client sends

ASSUME ClientSessionAssumption ==
    /\ {MaxCommands, MaxEach, MaxServer} \subseteq Nat
    /\ MaxMap \in 0..15 /\ MaxRestart \in 0..15
    /\ MaxReliable \in Nat \ {0} /\ NetMax \in Nat \ {0}
    /\ Forged \subseteq Int

VARIABLES
    svServerId,  \* sv_serverId_value: its high nibble, the map, and its low one, the restart
    cl,          \* the fields of client_t
    executed,    \* history: the commands executed, in order
    dropReason,  \* why the server dropped the client
    client,      \* external: what the client knows
    commands,    \* external: the kinds of the commands it issued
    toServer, toClient  \* the packets under way
vars == <<svServerId, cl, executed, dropReason, client, commands, toServer, toClient>>

NoMap == [map |-> -1, restart |-> 0]   \* the serverId of a client without a gamestate

NewClient ==
    [state |-> "connected", downloading |-> FALSE, impure |-> FALSE, newer |-> FALSE,
     lastCommand |-> 0, lastHasNextdl |-> FALSE, reliableSequence |-> 0,
     reliableAcknowledge |-> 0, overflow |-> FALSE]
NewPlayer == [serverId |-> NoMap, ready |-> FALSE, newer |-> TRUE, acked |-> 0, reliable |-> 0]

Init ==
    /\ svServerId = [map |-> 0, restart |-> 0]
    /\ cl = NewClient /\ executed = <<>> /\ dropReason = "none"
    /\ client = NewPlayer /\ commands = <<>>
    /\ toServer = <<>> /\ toClient = <<>>

------------------------------------------------------------------------------
(* A step of the server works on st: cl, the history, whether a gamestate   *)
(* is sent and whether the handler has returned.                            *)
Start == [cl |-> cl, executed |-> executed, reason |-> dropReason, gamestate |-> FALSE,
          returned |-> FALSE]

SV_DropClient(st, reason) ==
    [st EXCEPT !.cl.state = "zombie", !.cl.downloading = FALSE, !.reason = reason]

\* custom_SV_SendMessageToClient: a client whose ring of commands was full is dropped, and is
\* sent the message even so
SV_SendMessageToClient(st) ==
    IF st.cl.overflow /\ st.cl.state # "zombie" THEN SV_DropClient(st, "overflow") ELSE st

\* custom_SV_SendClientGameState
SV_SendClientGameState(st) ==
    SV_SendMessageToClient(
        [st EXCEPT !.cl.state = "primed", !.cl.impure = FALSE, !.cl.newer = FALSE,
                   !.gamestate = TRUE])

\* what the user commands do: "download" opens one, "nextdl" answers its last block, "donedl"
\* asks for the gamestate, "cp" is a failed check of the client's files (all external)
Execute(st, kind) ==
    CASE kind = "download" -> [st EXCEPT !.cl.downloading = TRUE]
      [] kind = "nextdl"   -> [st EXCEPT !.cl.downloading = FALSE]
      [] kind = "donedl"   -> SV_SendClientGameState(st)
      [] kind = "cp"       -> [st EXCEPT !.cl.impure = TRUE]
      [] kind = "disconnect" -> SV_DropClient(st, "disconnect")
      [] OTHER -> st

\* the test of the whole text of the last command for "nextdl", which may be that of a "say"
MentionsNextdl(kind) == kind \in {"nextdl", "sayNextdl"}

\* mutant: the last command is executed again when a packet repeats it
RepeatedBefore(st, seq) == seq < st.cl.lastCommand
Repeated(st, seq) == seq <= st.cl.lastCommand

\* mutant: the next command counts as a gap
GapOfNone(st, seq) == st.cl.lastCommand + 1 <= seq
Gap(st, seq) == st.cl.lastCommand + 1 < seq

\* custom_SV_ClientCommand: a repeated command is skipped, a gap drops the client
SV_ClientCommand(st, seq) ==
    IF Repeated(st, seq) THEN st
    ELSE IF Gap(st, seq) THEN [SV_DropClient(st, "lost commands") EXCEPT !.returned = TRUE]
    ELSE [Execute(st, commands[seq]) EXCEPT !.cl.lastCommand = seq,
                                            !.cl.lastHasNextdl = MentionsNextdl(commands[seq]),
                                            !.executed = Append(@, seq)]

\* the loop over the commands of packet p; it ends early when the client is gone
Commands(st, p) ==
    LET loop[i \in (p.first - 1)..p.last] ==
            IF i < p.first THEN st
            ELSE IF loop[i - 1].returned \/ loop[i - 1].cl.state = "zombie"
            THEN [loop[i - 1] EXCEPT !.returned = TRUE]
            ELSE SV_ClientCommand(loop[i - 1], i)
    IN loop[p.last]

\* what follows the commands: the check of the client's files, then its movement
EndOfMessage(st, p) ==
    IF st.returned \/ st.cl.state = "zombie" THEN st
    ELSE IF st.cl.impure THEN SV_DropClient(st, "unpure")
    ELSE IF p.move /\ st.cl.state = "primed" THEN [st EXCEPT !.cl.state = "active"]
    ELSE st

\* mutant: after a restart a client of the same map is sent a gamestate too
SameLevel(st, p) == p.serverId = svServerId

\* mutant: a client that was sent a gamestate enters whatever map it knows
SameMapOrPrimed(st, p) == p.serverId.map = svServerId.map \/ st.cl.state = "primed"
SameMap(st, p) == p.serverId.map = svServerId.map

\* mutant: the gamestate is sent once only
NeverResent(st) == st.cl.state = "connected"
Resends(st) == st.cl.newer

\* custom_SV_ExecuteClientMessage
SV_ExecuteClientMessage(st, p) ==
    IF p.flaw = "oversize" THEN SV_DropClient(st, "oversize")
    ELSE IF p.serverId = svServerId \/ st.cl.downloading \/ st.cl.lastHasNextdl
    THEN EndOfMessage(Commands(st, p), p)
    ELSE IF SameMap(st, p)
    THEN IF st.cl.state = "primed" THEN [st EXCEPT !.cl.state = "active"] ELSE st
    ELSE IF Resends(st) THEN SV_SendClientGameState(st) ELSE st

\* mutant: an acknowledgement of commands not sent yet is believed
NotNegative(c) ==
    c.reliableSequence - c.reliableAcknowledge > MaxReliable - 1 \/ c.reliableAcknowledge < 0

OutOfRange(c) ==
    \/ c.reliableSequence - c.reliableAcknowledge > MaxReliable - 1
    \/ c.reliableAcknowledge < 0
    \/ c.reliableSequence - c.reliableAcknowledge < 0

\* mutant: packets of a dropped client are executed
NeverGone(c) == FALSE
Gone(c) == c.state = "zombie"

\* custom_SV_PacketEvent, from the acknowledgements on; a negative number of the last
\* message is kept, and is older than any gamestate
PacketEvent(p) ==
    LET c == [cl EXCEPT !.newer = p.newer, !.reliableAcknowledge = p.reliable]
    IN IF p.flaw = "negative" THEN [Start EXCEPT !.cl.newer = FALSE]
       ELSE IF OutOfRange(c)
       THEN [Start EXCEPT !.cl = [c EXCEPT !.reliableAcknowledge = c.reliableSequence]]
       ELSE IF Gone(c) THEN [Start EXCEPT !.cl = c]
       ELSE SV_ExecuteClientMessage([Start EXCEPT !.cl = c], p)

\* no message sent before is newer than a gamestate sent now
Older(net) == [i \in DOMAIN net |-> [net[i] EXCEPT !.newer = FALSE]]

Message(st, kind) ==
    [kind |-> kind, serverId |-> svServerId, newer |-> kind # "gamestate",
     acked |-> st.cl.lastCommand, reliable |-> st.cl.reliableSequence]

ReceivePacket ==
    /\ toServer # <<>>
    /\ \E st \in {PacketEvent(Head(toServer))} :
        /\ cl' = st.cl /\ executed' = st.executed /\ dropReason' = st.reason
        /\ IF st.gamestate
           THEN /\ toClient' = Append(Older(toClient), Message(st, "gamestate"))
                /\ toServer' = Older(Tail(toServer))
                /\ client' = [client EXCEPT !.newer = FALSE]
           ELSE toServer' = Tail(toServer) /\ UNCHANGED <<toClient, client>>
    /\ UNCHANGED <<svServerId, commands>>

\* a snapshot, which a zombie is sent as well; a client that downloads is moved back to
\* connected
Snapshot ==
    SV_SendMessageToClient(
        IF cl.downloading /\ cl.state # "zombie" THEN [Start EXCEPT !.cl.state = "connected"]
        ELSE Start)

SendSnapshot ==
    /\ Len(toClient) < NetMax
    /\ toClient' = Append(toClient, Message(Start, "snapshot"))
    /\ cl' = Snapshot.cl /\ dropReason' = Snapshot.reason
    /\ UNCHANGED <<svServerId, executed, client, commands, toServer>>

\* external: SV_AddServerCommand keeps fewer than MaxReliable commands unacknowledged; a client
\* that would have more is dropped with the next message
AddServerCommand ==
    /\ cl.state # "zombie"
    /\ IF cl.reliableSequence - cl.reliableAcknowledge < MaxReliable - 1
       THEN /\ cl.reliableSequence < MaxServer
            /\ cl' = [cl EXCEPT !.reliableSequence = @ + 1]
       ELSE cl' = [cl EXCEPT !.overflow = TRUE]
    /\ UNCHANGED <<svServerId, executed, dropReason, client, commands, toServer, toClient>>

\* external: a new map takes every client back to connected, a restart does not
ChangeMap ==
    /\ svServerId.map < MaxMap
    /\ svServerId' = [map |-> svServerId.map + 1, restart |-> 0]
    /\ cl' = IF cl.state = "zombie" THEN cl ELSE [cl EXCEPT !.state = "connected"]
    /\ UNCHANGED <<executed, dropReason, client, commands, toServer, toClient>>

RestartMap ==
    /\ svServerId.restart < MaxRestart
    /\ svServerId' = [svServerId EXCEPT !.restart = @ + 1]
    /\ UNCHANGED <<cl, executed, dropReason, client, commands, toServer, toClient>>

------------------------------------------------------------------------------
(* The client and the network, external.                                    *)

\* a download is begun, answered and followed by the request for the gamestate, in order
Issued(kind) == \E i \in DOMAIN commands : commands[i] = kind
InOrder(kind) ==
    /\ kind = "nextdl" => Issued("download")
    /\ kind = "donedl" => Issued("nextdl")
    /\ kind \in {"download", "nextdl", "donedl"} => ~Issued(kind)

IssueCommand(kind) ==
    /\ Len(commands) < MaxCommands
    /\ Cardinality({i \in DOMAIN commands : commands[i] = kind}) < MaxEach
    /\ client.serverId # NoMap /\ InOrder(kind)
    /\ commands' = Append(commands, kind)
    /\ client' = [client EXCEPT !.ready = @ /\ kind # "download"]
    /\ UNCHANGED <<svServerId, cl, executed, dropReason, toServer, toClient>>

\* a packet repeats every command not yet acknowledged
Packet(reliable, flaw) ==
    [serverId |-> client.serverId, newer |-> client.newer, reliable |-> reliable,
     first |-> client.acked + 1, last |-> Len(commands), move |-> client.ready,
     flaw |-> flaw]

SendPacket ==
    /\ Len(toServer) < NetMax
    /\ toServer' = Append(toServer, Packet(client.reliable, "none"))
    /\ UNCHANGED <<svServerId, cl, executed, dropReason, client, commands, toClient>>

\* a modified client: any acknowledgement, a message too long to decompress, or one that
\* acknowledges a negative message
Flaws == {"none", "oversize", "negative"}
ForgePacket ==
    /\ Len(toServer) < NetMax /\ Forged # {}
    /\ toServer' \in {Append(toServer, Packet(r, f)) : r \in Forged, f \in Flaws}
    /\ UNCHANGED <<svServerId, cl, executed, dropReason, client, commands, toClient>>

\* a restart reaches a client of the same map with the first message after it
ReceiveMessage ==
    /\ toClient # <<>>
    /\ toClient' = Tail(toClient)
    /\ LET m == Head(toClient)
           knows == \/ m.kind = "gamestate"
                    \/ client.ready /\ m.serverId.map = client.serverId.map
       IN client' = [serverId |-> IF knows THEN m.serverId ELSE client.serverId,
                     ready |-> client.ready \/ m.kind = "gamestate",
                     newer |-> m.newer, acked |-> m.acked, reliable |-> m.reliable]
    /\ UNCHANGED <<svServerId, cl, executed, dropReason, commands, toServer>>

LosePacket ==
    /\ \/ toServer # <<>> /\ toServer' = Tail(toServer) /\ UNCHANGED toClient
       \/ toClient # <<>> /\ toClient' = Tail(toClient) /\ UNCHANGED toServer
    /\ UNCHANGED <<svServerId, cl, executed, dropReason, client, commands>>

Next ==
    \/ ReceivePacket \/ SendSnapshot \/ AddServerCommand \/ ChangeMap \/ RestartMap
    \/ \E kind \in Kinds : IssueCommand(kind)
    \/ SendPacket \/ ForgePacket \/ ReceiveMessage \/ LosePacket

Spec == Init /\ [][Next]_vars

------------------------------------------------------------------------------
ServerIds == [map : 0..MaxMap, restart : 0..MaxRestart]
Reasons == {"none", "disconnect", "lost commands", "unpure", "oversize", "overflow"}

\* The variables have their types; a zombie was dropped for one reason.
TypeOK ==
    /\ svServerId \in ServerIds
    /\ cl.state \in {"connected", "primed", "active", "zombie"}
    /\ {cl.downloading, cl.impure, cl.newer, cl.lastHasNextdl, cl.overflow} \subseteq BOOLEAN
    /\ cl.lastCommand \in 0..MaxCommands
    /\ cl.reliableSequence \in 0..MaxServer /\ cl.reliableAcknowledge \in 0..MaxServer
    /\ executed \in Seq(1..MaxCommands)
    /\ dropReason \in Reasons /\ (dropReason # "none" <=> cl.state = "zombie")
    /\ client.serverId \in ServerIds \cup {NoMap}
    /\ commands \in Seq(Kinds)

\* The server executes the client's commands in the order they were issued, each once,
\* although packets repeat them, are lost, and are skipped whole while the maps differ.
ExecutedInOrder == executed = [i \in 1..cl.lastCommand |-> i]

\* No unmodified client is dropped for lost commands.
NoCommandLost == dropReason # "lost commands"

\* Whatever acknowledgement a client sends, the unacknowledged commands of the server fit
\* their ring, so that the loops over them are short (the "freeze" patch, 553-567).
AcknowledgeInRange ==
    cl.reliableSequence - cl.reliableAcknowledge \in 0..MaxReliable - 1

\* A client the server has put into the game has the gamestate of the map being played,
\* although gamestates are lost, overtaken by a change of map and sent again.  Not so one
\* that ends a download: after "nextdl" a packet of any map is let through (2034-2035), and
\* when its "donedl" has primed the client, its movement puts the client into the game.
ActiveKnowsMap ==
    cl.state = "active" /\ ~Issued("donedl") => client.serverId.map = svServerId.map

\* A client that does not download gets into the game on the last map: a lost gamestate
\* is sent again.  Not so one whose last command has "nextdl" in its text, as a "say" may:
\* the exception for downloads (2034-2035) takes every later packet of it, of whatever map,
\* and after a change of map it is never sent the gamestate.
SaidNextdl == commands # <<>> /\ MentionsNextdl(commands[Len(commands)])
EntersWorld ==
    ([](~Issued("download")) /\ [](cl.state # "zombie"))
        => <>[](SaidNextdl \/ (cl.state = "active" /\ client.serverId.map = svServerId.map))
==============================================================================
