------------------------------ MODULE Download ------------------------------
(***************************************************************************)
(* One client downloads one file from the server (iw1x.cpp 2132-2265).     *)
(* Blocks travel in snapshots, which the network may lose; netchan drops   *)
(* late and duplicate packets, so the others arrive in order.  The client  *)
(* answers with reliable commands, which arrive in order and exactly once. *)
(***************************************************************************)
EXTENDS Integers, Sequences

CONSTANTS
    FileSize,      \* units in the file when it is opened; unit i is the number i
    BlockSizes,    \* units in a block: normal and with sv_fastDownload
    Window,        \* MAX_DOWNLOAD_WINDOW
    HalfShort,     \* 2^15: a block number is sent as a signed short; the blocks of a window,
                   \* 8 of them, have different numbers
    Permissions,   \* values of permission an instance considers
    NetMax         \* bound on the packets under way to the client

ASSUME DownloadAssumption ==
    /\ FileSize \in Nat \ {0}
    /\ BlockSizes \subseteq Nat \ {0}
    /\ Window \in Nat \ {0, 1}
    /\ HalfShort \in Nat \ {0} /\ Window <= 2 * HalfShort
    /\ Permissions \subseteq {"served", "refused", "ignored"}
    /\ NetMax \in Nat \ {0}

VARIABLES
    permission,  \* ignored: shouldServeFile finds no pak of that name, or one of the server's
                 \* own; refused: sv_allowDownload is 0, a game pak, or no such file
    server,   \* the download fields of client_t
    overdue,  \* svs.time - downloadSendTime > 1000
    disk,     \* units FS_Read can still find in the file
    down,     \* svc_download messages under way to the client
    up,       \* reliable commands under way to the server
    client,   \* external: the block the client expects and how its download went
    got,      \* external: the units the client has written
    dropped,  \* whether the server dropped the client for a broken download
    intact    \* history: every read succeeded and nobody shortened the file
vars == <<permission, server, overdue, disk, down, up, client, got, dropped, intact>>

Idle == [named |-> FALSE, open |-> FALSE, count |-> 0, clientBlock |-> 0, currentBlock |-> 0,
         xmitBlock |-> 0, eof |-> FALSE,
         blocks |-> [i \in 0..Window - 1 |-> [from |-> 0, size |-> 0]]]

Init ==
    /\ permission \in Permissions
    /\ server = Idle
    /\ overdue = FALSE
    /\ disk = FileSize
    /\ down = <<>>
    /\ up = << [cmd |-> "download", block |-> 0] >>
    /\ client = [expected |-> 0, outcome |-> "running"]
    /\ got = <<>>
    /\ dropped = FALSE
    /\ intact = TRUE

-----------------------------------------------------------------------------
(* The server's snapshots: custom_SV_WriteDownloadToClient.                 *)

\* MSG_WriteShort, read back as a signed short
ToShort(n) == LET r == n % (2 * HalfShort) IN IF r < HalfShort THEN r ELSE r - 2 * HalfShort

\* the file is opened and the counters start
Opened(s) ==
    IF s.open THEN s
    ELSE [s EXCEPT !.open = TRUE, !.count = 0, !.clientBlock = 0, !.currentBlock = 0,
                   !.xmitBlock = 0, !.eof = FALSE]

\* mutant: one block more than the ring holds
InWindowAndOneMore(s) == s.currentBlock - s.clientBlock <= Window

InWindow(s) == s.currentBlock - s.clientBlock < Window
HasMore(s) == InWindow(s) /\ s.count # FileSize

\* mutant: the size read is taken to be the size asked for
ReadWhole(s, size) ==
    [s EXCEPT !.blocks[s.currentBlock % Window] = [from |-> s.count, size |-> size],
              !.count = @ + size, !.currentBlock = @ + 1]

\* FS_Read of a block, short at the end of the file and 0 past it
Read(s, size) ==
    LET left == IF disk > s.count THEN disk - s.count ELSE 0
        n == IF size < left THEN size ELSE left
    IN [s EXCEPT !.blocks[s.currentBlock % Window] = [from |-> s.count, size |-> n],
                 !.count = @ + n, !.currentBlock = @ + 1]

\* as many blocks are read as fit in the window, but no more than n
Reads(s, size, n) ==
    LET fill[i \in 0..n] ==
            IF i = 0 THEN s
            ELSE IF HasMore(fill[i - 1]) THEN Read(fill[i - 1], size) ELSE fill[i - 1]
    IN fill[n]

\* a read that fails: the rest of the file is given up
GivenUp(s) == [s EXCEPT !.count = FileSize]

\* mutant: the end is marked although the ring is full
EndedInFullRing(s) ==
    IF s.count = FileSize /\ ~s.eof
    THEN [s EXCEPT !.blocks[s.currentBlock % Window] = [from |-> s.count, size |-> 0],
                   !.currentBlock = @ + 1, !.eof = TRUE]
    ELSE s

\* an empty block marks the end of the file
Ended(s) ==
    IF s.count = FileSize /\ ~s.eof /\ InWindow(s)
    THEN [s EXCEPT !.blocks[s.currentBlock % Window] = [from |-> s.count, size |-> 0],
                   !.currentBlock = @ + 1, !.eof = TRUE]
    ELSE s

\* the block to send: the next one, or after a second of silence the first unanswered one
Chosen(s) == IF s.xmitBlock = s.currentBlock THEN s.clientBlock ELSE s.xmitBlock

\* mutant: a lost block is never sent again
NeverResend(s) == s.clientBlock = s.currentBlock \/ s.xmitBlock = s.currentBlock

NothingToSend(s) ==
    \/ s.clientBlock = s.currentBlock
    \/ s.xmitBlock = s.currentBlock /\ ~overdue

Block(s, b) ==
    [block |-> ToShort(b), from |-> s.blocks[b % Window].from, size |-> s.blocks[b % Window].size]

Transmit(s) ==
    IF NothingToSend(s)
    THEN server' = s /\ UNCHANGED <<overdue, down>>
    ELSE /\ down' = Append(down, Block(s, Chosen(s)))
         /\ server' = [s EXCEPT !.xmitBlock = Chosen(s) + 1]
         /\ overdue' = FALSE

Allowed == permission = "served"

\* SV_WriteDownloadErrorToClient: one unreliable message, and the download is forgotten
Refuse ==
    /\ down' = Append(down, [block |-> 0, from |-> 0, size |-> -1])
    /\ server' = [server EXCEPT !.named = FALSE]
    /\ UNCHANGED overdue

Snapshot ==
    /\ server.named
    /\ Len(down) < NetMax
    /\ \/ ~server.open /\ ~Allowed /\ Refuse
          /\ UNCHANGED intact
       \/ /\ server.open \/ Allowed
          /\ \E size \in BlockSizes :
                \/ /\ Transmit(Ended(Reads(Opened(server), size, Window)))
                   /\ UNCHANGED intact
                \/ \E n \in 0..Window - 1 :
                      LET s == Reads(Opened(server), size, n)
                      IN HasMore(s) /\ Transmit(Ended(GivenUp(s))) /\ intact' = FALSE
    /\ UNCHANGED <<permission, disk, up, client, got, dropped>>

\* a second passes in which no block was sent
Wait ==
    /\ server.named /\ ~overdue
    /\ overdue' = TRUE
    /\ UNCHANGED <<permission, server, disk, down, up, client, got, dropped, intact>>

-----------------------------------------------------------------------------
(* The commands the server receives: ucmds.                                 *)

Closed == [server EXCEPT !.named = FALSE, !.open = FALSE]

Answers(b) == b = server.clientBlock
EndsFile(b) == server.blocks[b % Window].size = 0

\* SV_NextDownload_f: the client has block b
NextDownload(b) ==
    /\ dropped' = (dropped \/ ~Answers(b))
    /\ IF Answers(b) /\ ~EndsFile(b)
       THEN server' = [server EXCEPT !.clientBlock = @ + 1] /\ overdue' = FALSE
       ELSE server' = Closed /\ UNCHANGED overdue

\* SV_RetransmitDownload_f: the client misses block b
RetransmitDownload(b) ==
    /\ server' = IF b = server.clientBlock THEN [server EXCEPT !.xmitBlock = b] ELSE server
    /\ UNCHANGED <<overdue, dropped>>

\* a pak that is loaded has the name asked for, and it is none of the server's own
shouldServeFile == permission # "ignored"

\* custom_SV_BeginDownload_f: an ignored request is not answered at all
BeginDownload ==
    /\ server' = IF shouldServeFile THEN [Closed EXCEPT !.named = TRUE] ELSE server
    /\ UNCHANGED <<overdue, dropped>>

\* SV_StopDownload_f
StopDownload == server' = Closed /\ UNCHANGED <<overdue, dropped>>

ExecuteClientCommand ==
    /\ up # <<>>
    /\ up' = Tail(up)
    /\ \/ Head(up).cmd = "download" /\ BeginDownload
       \/ Head(up).cmd = "nextdl" /\ NextDownload(Head(up).block)
       \/ Head(up).cmd = "retransdl" /\ RetransmitDownload(Head(up).block)
       \/ Head(up).cmd = "stopdl" /\ StopDownload
    /\ UNCHANGED <<permission, disk, down, client, got, intact>>

-----------------------------------------------------------------------------
(* The environment: the client, the network and the disk.                   *)

Send(cmd, b) == up' = Append(up, [cmd |-> cmd, block |-> b])
Running == client.outcome = "running"
Units(from, size) == [i \in 1..size |-> from + i]

\* the client gets the block it waits for
Accept ==
    /\ down # <<>> /\ Running
    /\ Head(down).block = client.expected /\ Head(down).size >= 0
    /\ down' = Tail(down)
    /\ got' = got \o Units(Head(down).from, Head(down).size)
    /\ client' = [expected |-> client.expected + 1,
                  outcome |-> IF Head(down).size = 0 THEN "done" ELSE "running"]
    /\ Send("nextdl", client.expected)
    /\ UNCHANGED <<permission, server, overdue, disk, dropped, intact>>

\* any other block is ignored, and a gap may be complained of, once at a time
Ignore ==
    /\ down # <<>>
    /\ Running => Head(down).block # client.expected /\ Head(down).size >= 0
    /\ down' = Tail(down)
    /\ \/ UNCHANGED up
       \/ /\ Running /\ Head(down).block > client.expected
          /\ \A i \in DOMAIN up : up[i].cmd # "retransdl"
          /\ Send("retransdl", client.expected)
    /\ UNCHANGED <<permission, server, overdue, disk, client, got, dropped, intact>>

\* the server's refusal arrives
Refused ==
    /\ down # <<>> /\ Running /\ Head(down).size = -1
    /\ down' = Tail(down)
    /\ client' = [client EXCEPT !.outcome = "failed"]
    /\ UNCHANGED <<permission, server, overdue, disk, up, got, dropped, intact>>

\* the player gives up
Stop ==
    /\ Running
    /\ client' = [client EXCEPT !.outcome = "stopped"]
    /\ Send("stopdl", 0)
    /\ UNCHANGED <<permission, server, overdue, disk, down, got, dropped, intact>>

\* the packet that would arrive next is lost
Lose ==
    /\ down # <<>>
    /\ down' = Tail(down)
    /\ UNCHANGED <<permission, server, overdue, disk, up, client, got, dropped, intact>>

\* another process shortens the file the server reads
Shorten ==
    /\ disk' \in 0..disk - 1
    /\ intact' = FALSE
    /\ UNCHANGED <<permission, server, overdue, down, up, client, got, dropped>>

Next == Snapshot \/ Wait \/ ExecuteClientCommand \/ Accept \/ Ignore \/ Refused \/ Stop
        \/ Lose \/ Shorten

Spec == Init /\ [][Next]_vars

(* A frame sends snapshots and reads commands again and again; a packet the *)
(* client waits for is not lost for ever.                                   *)
Fairness ==
    /\ WF_vars(Snapshot) /\ WF_vars(Wait) /\ WF_vars(ExecuteClientCommand)
    /\ SF_vars(Accept) /\ WF_vars(Ignore) /\ WF_vars(Refused)

FairSpec == Spec /\ Fairness
-----------------------------------------------------------------------------
Record == [from : 0..FileSize, size : 0..FileSize]

\* The variables have their types (client_t).
TypeOK ==
    /\ server.named \in BOOLEAN /\ server.open \in BOOLEAN /\ server.eof \in BOOLEAN
    /\ server.count \in 0..FileSize
    /\ server.clientBlock \in Nat /\ server.currentBlock \in Nat /\ server.xmitBlock \in Nat
    /\ server.blocks \in [0..Window - 1 -> Record]
    /\ permission \in Permissions /\ disk \in 0..FileSize
    /\ {overdue, dropped, intact} \subseteq BOOLEAN
    /\ client.expected \in Nat /\ client.outcome \in {"running", "done", "failed", "stopped"}
    /\ got \in Seq(1..FileSize)

\* The server never takes a well-behaved client's answer for a broken download.
NeverBroken == ~dropped

\* The server forgets a download it agreed to only after the client has the whole file or
\* has given up, so that an answer to the last block is never followed by a wait for it.
ClosedAfterClient ==
    up # << [cmd |-> "download", block |-> 0] >> /\ Allowed /\ ~server.named
        => client.outcome # "running"

\* Whatever is lost, sent again or answered late, the client writes the units of the file in
\* order, none missing and none twice; told that the download is complete, it has them all,
\* unless a read failed or the file was shortened.
Transfer == INSTANCE FileTransfer WITH outcome <- client.outcome
ImplementsTransfer == Transfer!Spec

\* A download the server allows comes to an end: every lost block is sent again, as long as
\* its number fits a short.
DownloadEnds ==
    Allowed /\ [](server.currentBlock <= HalfShort) => <>(client.outcome # "running")
=============================================================================
