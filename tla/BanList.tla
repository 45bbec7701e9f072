------------------------------- MODULE BanList -------------------------------
(***************************************************************************)
(* ban.txt, the commands ban and unban that edit it, and the check         *)
(* hook_SV_DirectConnect makes of it (iw1x.cpp 980-1051, 1482-1985).  An   *)
(* administrator's command is a step; those of the scripts and the unban   *)
(* that a connecting client triggers wait in the command buffer.  Time is  *)
(* in seconds.                                                             *)
(***************************************************************************)
EXTENDS Integers, Sequences, SequencesExt

CONSTANTS
    Ips,        \* addresses of players
    Clients,    \* slots of svs.clients
    Durations,  \* seconds a ban may last; all fit an int
    MaxTime,    \* bound on the clock
    MaxBuffer   \* bound on the command buffer

ASSUME BanListAssumption ==
    Durations \subseteq Nat /\ MaxTime \in Nat /\ MaxBuffer \in Nat \ {0}

Permanent == -1
NoSlot == "no slot"

VARIABLES
    now,      \* time(NULL)
    banFile,  \* the lines of ban.txt
    cbuf,     \* the command buffer: the bans and unbans queued in it
    clients,  \* the state and the address of each slot
    until     \* history: when the bans of an address end
vars == <<now, banFile, cbuf, clients, until>>

States == {"free", "connected", "active"}
Never == MaxTime + 1

Init ==
    /\ now = 0
    /\ banFile = <<>>
    /\ cbuf = <<>>
    /\ clients \in [Clients -> [state : {"free"}, ip : Ips]]
    /\ until = [ip \in Ips |-> 0]

------------------------------------------------------------------------------
Lines(ip) == {i \in DOMAIN banFile : banFile[i].ip = ip}

\* getBanInfoForIp: the first line of the address
Listed(ip) == Lines(ip) # {}
BanInfo(ip) == banFile[CHOOSE i \in Lines(ip) : \A j \in Lines(ip) : i <= j]

\* mutant: a permanent ban expires at once
AllExpire(ban) == ban.duration - (now - ban.date) <= 0

Expired(ban) == ban.duration # Permanent /\ ban.duration - (now - ban.date) <= 0

\* SV_DropClient, then the slot becomes free and keeps its old address
Dropped(victim) ==
    IF victim = NoSlot THEN clients ELSE [clients EXCEPT ![victim].state = "free"]

\* mutant: the line holds the end of the ban instead of its beginning
LineUntil(ip, duration) == [ip |-> ip, duration |-> duration, date |-> now + duration]
Line(ip, duration) == [ip |-> ip, duration |-> duration, date |-> now]

\* mutant: an address is listed again
NeverRefused(ip) == FALSE

\* a listed address is refused, whatever has become of its ban
AlreadyBanned(ip) == Listed(ip)

\* the end of ban(): the line is appended and the player dropped
AddBan(ip, duration, victim) ==
    IF AlreadyBanned(ip) THEN UNCHANGED <<now, banFile, clients, until>>
    ELSE /\ banFile' = Append(banFile, Line(ip, duration))
         /\ clients' = Dropped(victim)
         /\ until' = [until EXCEPT ![ip] = IF duration = Permanent THEN Never ELSE now + duration]
         /\ UNCHANGED now

\* ban -n: any slot is taken, a free one with the address it last had
BanClient(c, duration) == AddBan(clients[c].ip, duration, c)

\* ban -i: the first player of that address is dropped; if there is none, clToBan was never
\* assigned and points wherever it points
Players(ip) == {c \in Clients : clients[c].state = "active" /\ clients[c].ip = ip}
BanIp(ip, duration) ==
    \E victim \in (IF Players(ip) # {} THEN Players(ip) ELSE Clients \cup {NoSlot}) :
        AddBan(ip, duration, victim)

\* unban: with -i the first line of the address is cut out, without it the command only
\* says "Specify an IP address"
Unban(ip, options) ==
    /\ banFile' = IF "-i" \in options /\ Listed(ip)
                  THEN RemoveAt(banFile, CHOOSE i \in Lines(ip) : \A j \in Lines(ip) : i <= j)
                  ELSE banFile
    /\ until' = IF "-i" \in options THEN [until EXCEPT ![ip] = 0] ELSE until
    /\ UNCHANGED <<now, clients>>

\* an administrator's command is executed at once
Administrator ==
    /\ \/ \E ip \in Ips : Unban(ip, {"-i"})
       \/ \E duration \in Durations \cup {Permanent} :
             (\E ip \in Ips : BanIp(ip, duration)) \/ (\E c \in Clients : BanClient(c, duration))
    /\ UNCHANGED cbuf

\* Cbuf_ExecuteText(EXEC_APPEND, ...)
Queue(command) ==
    /\ Len(cbuf) < MaxBuffer
    /\ cbuf' = Append(cbuf, command)

\* the scripts: the parameters are joined as they are, options and end of the line included
gsc_utils_ban(ip, duration) ==
    Queue([name |-> "ban", ip |-> ip, options |-> {"-i"}, duration |-> duration])
    /\ UNCHANGED <<now, banFile, clients, until>>
gsc_utils_unban(ip) ==
    Queue([name |-> "unban", ip |-> ip, options |-> {"-i"}, duration |-> Permanent])
    /\ UNCHANGED <<now, banFile, clients, until>>

\* Cbuf_Execute of the oldest command
Cbuf_Execute ==
    /\ cbuf # <<>>
    /\ cbuf' = Tail(cbuf)
    /\ \/ Head(cbuf).name = "unban" /\ Unban(Head(cbuf).ip, Head(cbuf).options)
       \/ Head(cbuf).name = "ban" /\ BanIp(Head(cbuf).ip, Head(cbuf).duration)

\* hook_SV_DirectConnect: a banned address is rejected; an expired ban is to be lifted
Admits(ip) == Listed(ip) => Expired(BanInfo(ip))
QueuedUnban(ip) == [name |-> "unban", ip |-> ip, options |-> {}, duration |-> Permanent]
Connect(ip, c) ==
    /\ Admits(ip)
    /\ IF Listed(ip) THEN Queue(QueuedUnban(ip)) ELSE UNCHANGED cbuf
    /\ clients[c].state = "free"
    /\ clients' = [clients EXCEPT ![c] = [state |-> "connected", ip |-> ip]]
    /\ UNCHANGED <<now, banFile, until>>

------------------------------------------------------------------------------
(* The environment: players enter and leave, time passes, the server is     *)
(* restarted, which only ban.txt survives.                                  *)
Enter(c) ==
    /\ clients[c].state = "connected"
    /\ clients' = [clients EXCEPT ![c].state = "active"]
    /\ UNCHANGED <<now, banFile, cbuf, until>>

Leave(c) ==
    /\ clients[c].state # "free"
    /\ clients' = [clients EXCEPT ![c].state = "free"]
    /\ UNCHANGED <<now, banFile, cbuf, until>>

Restart ==
    /\ clients' = [c \in Clients |-> [clients[c] EXCEPT !.state = "free"]]
    /\ cbuf' = <<>>
    /\ UNCHANGED <<now, banFile, until>>

Tick == now < MaxTime /\ now' = now + 1 /\ UNCHANGED <<banFile, cbuf, clients, until>>

Next ==
    \/ \E ip \in Ips, c \in Clients : Connect(ip, c)
    \/ Administrator
    \/ \E ip \in Ips, duration \in Durations \cup {Permanent} : gsc_utils_ban(ip, duration)
    \/ \E ip \in Ips : gsc_utils_unban(ip)
    \/ Cbuf_Execute
    \/ \E c \in Clients : Enter(c) \/ Leave(c)
    \/ Restart
    \/ Tick

Spec == Init /\ [][Next]_vars
------------------------------------------------------------------------------
\* The variables have their types; a line holds the date the ban began.
TypeOK ==
    /\ now \in 0..MaxTime
    /\ banFile \in Seq([ip : Ips, duration : Durations \cup {Permanent}, date : 0..MaxTime])
    /\ cbuf \in Seq([name : {"ban", "unban"}, ip : Ips, options : SUBSET {"-i"},
                     duration : Durations \cup {Permanent}])
    /\ clients \in [Clients -> [state : States, ip : Ips]]
    /\ until \in [Ips -> Nat]

\* ban.txt never lists an address twice: getBanInfoForIp reads, and unban cuts, the first
\* line only, so that a second one would survive an unban or hide a longer ban.
NoDuplicateEntries == \A i, j \in DOMAIN banFile : banFile[i].ip = banFile[j].ip => i = j

\* Nobody gets in from an address before its ban ends, through refused bans, unbans of
\* others, commands that wait in the buffer, expiry and restarts.
AdmittedNotBanned ==
    [][\A c \in Clients : clients[c].state = "free" /\ clients'[c].state = "connected"
         => until[clients'[c].ip] <= now]_vars

\* The code lifts an expired ban it meets by queueing "unban <ip>" (997), but unban says of
\* itself "Usage: unban -i <IP address>" (1836).  The command as queued lifts the ban.
QueuedUnbanLifts ==
    [][\A ip \in Ips : Cbuf_Execute /\ Head(cbuf) = QueuedUnban(ip) => ~Listed(ip)']_vars
===============================================================================
