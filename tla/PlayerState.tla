----------------------------- MODULE PlayerState -----------------------------
(***************************************************************************)
(* What the scripts of the server set for the players, the fields of       *)
(* customPlayerState, composed with the session of the client in the slot. *)
(* The fields are kept per slot: the next client in it finds them, and so  *)
(* does the next map.  Only custom_SV_SendClientGameState clears them,     *)
(* which happens at a time that depends on lost packets, downloads and     *)
(* changes of map.  Sprint has the fields of the sprint; those of bots, the *)
(* counters of frames and the heights of jumps, which no installed hook    *)
(* reads, are left out.  Of a value only matters whether it is the default. *)
(***************************************************************************)
EXTENDS ClientSession

CONSTANTS
    MaxSettings,   \* bound on the fields scripts have set at a time
    MaxOccupants   \* bound on the clients the slot has

ASSUME PlayerStateAssumption == MaxSettings \in Nat \ {0} /\ MaxOccupants \in Nat \ {0}

Fields == {"speed", "noAutoPickup", "hiddenFromScoreboard"}   \* speed stands for gravity as well

VARIABLES
    custom,    \* the fields of customPlayerState that are not zero
    stale,     \* history: those set for an earlier client of the slot or on an earlier map
    occupants  \* how many clients the slot has had
playerVars == <<vars, custom, stale, occupants>>

PlayerInit == Init /\ custom = {} /\ stale = {} /\ occupants = 1

------------------------------------------------------------------------------
(* The session; a gamestate clears the fields.                              *)

\* mutant: the fields are not cleared again after a change of map
ResetFirst == PacketEvent(Head(toServer)).gamestate /\ svServerId.map = 0
Reset == PacketEvent(Head(toServer)).gamestate

HandlePacket ==
    /\ ReceivePacket
    /\ IF Reset THEN custom' = {} /\ stale' = {} ELSE UNCHANGED <<custom, stale>>
    /\ UNCHANGED occupants

\* the fields outlive the map
SpawnServer ==
    /\ ChangeMap
    /\ stale' = custom /\ UNCHANGED <<custom, occupants>>

\* external: SV_DirectConnect gives the slot to a client, which may be the one that has it; the
\* packets under way are of the old connection.  It knows of no customPlayerState.
Connect ==
    /\ occupants < MaxOccupants
    /\ occupants' = occupants + 1
    /\ cl' = NewClient /\ executed' = <<>> /\ dropReason' = "none"
    /\ client' = NewPlayer /\ commands' = <<>>
    /\ toServer' = <<>> /\ toClient' = <<>>
    /\ stale' = custom /\ UNCHANGED <<svServerId, custom>>

\* server commands, which concern none of these fields, are left to ClientSession
Session ==
    \/ SendSnapshot \/ RestartMap
    \/ \E kind \in Kinds : IssueCommand(kind)
    \/ SendPacket \/ ReceiveMessage \/ LosePacket

------------------------------------------------------------------------------
(* The script functions, which ask no more than that the number is one of a *)
(* slot; the client in it may be connecting, playing or gone.               *)
Set(field) ==
    /\ Cardinality(custom \cup {field}) <= MaxSettings
    /\ custom' = custom \cup {field} /\ stale' = stale \ {field}
    /\ UNCHANGED <<vars, occupants>>

Clear(field) ==
    /\ custom' = custom \ {field} /\ stale' = stale \ {field}
    /\ UNCHANGED <<vars, occupants>>

\* gsc_player_setspeed and gsc_player_setgravity
gsc_player_setspeed == Set("speed") \/ Clear("speed")
gsc_player_disableitemautopickup == Set("noAutoPickup")
gsc_player_enableitemautopickup == Clear("noAutoPickup")
gsc_player_sethiddenfromscoreboard ==
    Set("hiddenFromScoreboard") \/ Clear("hiddenFromScoreboard")

Script ==
    \/ gsc_player_setspeed \/ gsc_player_sethiddenfromscoreboard
    \/ gsc_player_disableitemautopickup \/ gsc_player_enableitemautopickup

PlayerNext ==
    \/ HandlePacket \/ SpawnServer \/ Connect
    \/ Session /\ UNCHANGED <<custom, stale, occupants>>
    \/ Script

PlayerSpec == PlayerInit /\ [][PlayerNext]_playerVars

(* Both sides send again and again, unless the network is full, and it lets *)
(* a packet, a message and a gamestate through now and then when they are   *)
(* sent again and again: weak and strong fairness, with what enables each   *)
(* action written out, which TLC evaluates faster than ENABLED.             *)
Kept == UNCHANGED <<custom, stale, occupants>>
GamestateCame == toClient # <<>> /\ Head(toClient).kind = "gamestate"
PlayerFairSpec ==
    /\ PlayerSpec
    /\ []<>(Len(toClient) >= NetMax) \/ []<><<SendSnapshot /\ Kept>>_playerVars
    /\ []<>(Len(toServer) >= NetMax) \/ []<><<SendPacket /\ Kept>>_playerVars
    /\ []<>(toServer # <<>>) => []<><<HandlePacket>>_playerVars
    /\ []<>(toClient # <<>>) => []<><<ReceiveMessage /\ Kept>>_playerVars
    /\ []<>GamestateCame => []<><<GamestateCame /\ ReceiveMessage /\ Kept>>_playerVars
------------------------------------------------------------------------------
\* What the game applies to a client that has a gamestate, its speed, its place on the
\* scoreboard and the rest, was set for this client and on this map.
SettingsAreCurrent == cl.state \in {"primed", "active"} => stale = {}

\* What was set for a client in the game stays until a script changes it or another client
\* takes the slot, unless the client itself asks for a gamestate at the end of a download:
\* late packets, lost ones and restarts of the map do not clear it.
KeepsSettings ==
    [][cl.state = "active" /\ ~(custom \subseteq custom')
         => UNCHANGED vars \/ occupants' # occupants \/ Issued("donedl")]_playerVars
==============================================================================
