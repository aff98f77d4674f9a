------------------------------ MODULE LocalPlayer ------------------------------
(***************************************************************************)
(* The local player's place (sampraknet_bridge.cpp): the ped, the globals  *)
(* the bridge keeps of it, the record the server's spawn information goes  *)
(* to, and the packet that reports it, over the sessions of the roster.    *)
(*                                                                         *)
(* The RPC handlers and the user's calls are steps of their own, the end   *)
(* of Tick (spawn FSM, refresh from the ped, on-foot sync) is one step.    *)
(* There is a ped: the script hook waits for it before the first Tick.     *)
(* The rates of the packets, the aim packets and what is sent from a car   *)
(* are Sync's: here an on-foot packet may or may not be due.  Of a         *)
(* position only the place counts.                                         *)
(***************************************************************************)
EXTENDS Roster

CONSTANTS
  Places,        \* where a player may be
  Origin         \* where a zeroed position is

ASSUME PlacesAssumption == Origin \in Places

VARIABLES
  iSpawned,
  s_spawnStage,
  g_spawnInfoReceived,
  bIsSpectating,
  SpawnInfo,         \* vecPos of the global record
  fNormalModePos,    \* where the bridge takes the ped to be
  pedAt,             \* where the ped is
  told,              \* history: this session's server has sent spawn information
  sent               \* the position in the on-foot packet the last step sent

localVars == <<iSpawned, s_spawnStage, g_spawnInfoReceived, bIsSpectating,
               SpawnInfo, fNormalModePos, pedAt, told, sent>>
spawnFsm == <<iSpawned, s_spawnStage, g_spawnInfoReceived>>

Silent == "none"

(* The local player's state has its types.                                 *)
LocalPlayerTypeOK ==
  /\ RosterTypeOK
  /\ iSpawned \in BOOLEAN /\ g_spawnInfoReceived \in BOOLEAN
  /\ s_spawnStage \in {"Idle", "WaitingClass", "Ready", "Done"}
  /\ bIsSpectating \in BOOLEAN /\ told \in BOOLEAN
  /\ SpawnInfo \in Places /\ fNormalModePos \in Places /\ pedAt \in Places
  /\ sent \in Places \cup {Silent}

LocalPlayerInit ==
  /\ RosterInit
  /\ iSpawned = FALSE /\ s_spawnStage = "Idle" /\ g_spawnInfoReceived = FALSE
  /\ bIsSpectating = FALSE /\ told = FALSE
  /\ SpawnInfo = Origin /\ fNormalModePos = Origin
  /\ pedAt \in Places
  /\ sent = Silent

-----------------------------------------------------------------------------
(* The server says where the player is, or will be: from OnPlayerConnect   *)
(* on, so before InitGame too, for which these handlers do not look.       *)

(* An answer to RequestClass may be late, so it comes at any stage.        *)
RequestClass(p) ==
  /\ phase # "out"
  /\ SpawnInfo' = p /\ g_spawnInfoReceived' = TRUE /\ told' = TRUE
  /\ sent' = Silent
  /\ UNCHANGED <<vars, iSpawned, s_spawnStage, bIsSpectating, fNormalModePos, pedAt>>

(* The ped stays where it is; the bridge's idea of its place does not.     *)
ScrSetSpawnInfo(p) ==
  /\ phase # "out"
  /\ SpawnInfo' = p /\ fNormalModePos' = p /\ told' = TRUE
  /\ sent' = Silent
  /\ UNCHANGED <<vars, spawnFsm, bIsSpectating, pedAt>>

(* Both teleports, RPC 12 and 13: a fault of the streamer is swallowed and *)
(* the position applied all the same; FindZ changes only the height.       *)
ScrSetPlayerPos(p) ==
  /\ phase # "out"
  /\ fNormalModePos' = p /\ pedAt' = p
  /\ sent' = Silent
  /\ UNCHANGED <<vars, spawnFsm, bIsSpectating, SpawnInfo, told>>

GameModeRestart ==
  /\ phase # "out"
  /\ iSpawned' = FALSE /\ g_spawnInfoReceived' = FALSE
  /\ sent' = Silent
  /\ UNCHANGED <<vars, s_spawnStage, bIsSpectating, SpawnInfo, fNormalModePos, pedAt, told>>

(* Where sampSpawn puts the ped.  Mutant: the spawn information unread.    *)
SpawnPlaceUnread == fNormalModePos
SpawnPlace == IF iSpawned THEN fNormalModePos ELSE SpawnInfo

(* sampSpawn, and the iSpawned = 1 of its two callers.                     *)
sampSpawn == pedAt' = SpawnPlace /\ iSpawned' = TRUE

(* The end of spectating spawns a player who is not.                       *)
ScrTogglePlayerSpectating(toggle) ==
  /\ phase # "out"
  /\ IF bIsSpectating /\ ~toggle /\ ~iSpawned
       THEN sampSpawn /\ fNormalModePos' = SpawnPlace
       ELSE UNCHANGED <<iSpawned, pedAt, fNormalModePos>>
  /\ bIsSpectating' = toggle
  /\ sent' = Silent
  /\ UNCHANGED <<vars, s_spawnStage, g_spawnInfoReceived, SpawnInfo, told>>

-----------------------------------------------------------------------------
(* The end of Tick.                                                        *)

MayAdvance == phase = "in" /\ ~iSpawned

(* Held up by a dialog, by the 3 s an answer may take, or by the guards.   *)
Paused == UNCHANGED <<spawnFsm, bIsSpectating, pedAt>>

AskForClassKeeping ==        \* mutant: an earlier answer counts for this request
  /\ MayAdvance /\ s_spawnStage = "Idle"
  /\ s_spawnStage' = "WaitingClass"
  /\ UNCHANGED <<iSpawned, g_spawnInfoReceived, bIsSpectating, pedAt>>

AskForClass ==
  /\ MayAdvance /\ s_spawnStage = "Idle"
  /\ s_spawnStage' = "WaitingClass" /\ g_spawnInfoReceived' = FALSE
  /\ UNCHANGED <<iSpawned, bIsSpectating, pedAt>>

AwaitClass ==
  /\ MayAdvance /\ s_spawnStage = "WaitingClass"
  /\ s_spawnStage' = IF g_spawnInfoReceived THEN "Ready" ELSE "Idle"
  /\ UNCHANGED <<iSpawned, g_spawnInfoReceived, bIsSpectating, pedAt>>

AutoSpawn ==
  /\ MayAdvance /\ s_spawnStage = "Ready"
  /\ sampSpawn /\ bIsSpectating' = FALSE
  /\ s_spawnStage' = "Done" /\ UNCHANGED g_spawnInfoReceived

InWorld == phase = "in" /\ iSpawned /\ ~bIsSpectating

(* SendOnFootFullSyncData takes the position from the own slot's record,   *)
(* half a metre off, whatever the caller filled in.  The server's markers  *)
(* and sync packets may have written a place there.                        *)
BodyPlaces == IF playerInfo[g_myPlayerID].onfoot = "none" THEN {Origin} ELSE Places

(* The spawn FSM moves first; then the bridge takes its idea of the place  *)
(* from the ped, and a packet is sent if one is due and the player on foot.*)
Tick ==
  /\ UNCHANGED <<vars, SpawnInfo, told>>
  /\ Paused \/ AskForClass \/ AwaitClass \/ AutoSpawn
  /\ IF InWorld' THEN fNormalModePos' = pedAt' /\ sent' \in {Silent} \cup BodyPlaces
                 ELSE UNCHANGED fNormalModePos /\ sent' = Silent

(* The player moves about, and the game's scripts move the ped.            *)
Walk(p) == pedAt' = p /\ sent' = Silent
           /\ UNCHANGED <<vars, spawnFsm, bIsSpectating, SpawnInfo, fNormalModePos, told>>

(* The user's disconnect; everything else about the roster leaves the local*)
(* player alone.                                                           *)
LeaveSession ==
  /\ iSpawned' = FALSE /\ s_spawnStage' = "Idle" /\ g_spawnInfoReceived' = FALSE
  /\ told' = FALSE
  /\ UNCHANGED <<bIsSpectating, SpawnInfo, fNormalModePos, pedAt>>

RosterStep ==
  /\ RosterNext /\ sent' = Silent
  /\ IF phase' = "out" THEN LeaveSession
     ELSE UNCHANGED <<spawnFsm, bIsSpectating, SpawnInfo, fNormalModePos, pedAt, told>>

LocalPlayerNext ==
  \/ RosterStep
  \/ Tick \/ GameModeRestart
  \/ \E toggle \in BOOLEAN : ScrTogglePlayerSpectating(toggle)
  \/ \E p \in Places :
       RequestClass(p) \/ ScrSetSpawnInfo(p) \/ ScrSetPlayerPos(p) \/ Walk(p)

LocalPlayerSpec == LocalPlayerInit /\ [][LocalPlayerNext]_<<vars, localVars>>

-----------------------------------------------------------------------------
(* A spawn puts the ped where the server's last spawn information says.    *)
(* But for the spawn that ends spectating before any class was answered,   *)
(* it is information of this session.                                      *)
SpawnsWhereTold ==
  [][~iSpawned /\ iSpawned' =>
       /\ pedAt' = SpawnInfo
       /\ told \/ s_spawnStage \in {"Idle", "WaitingClass"}]_<<vars, localVars>>

(* The same machine as NetGame's: only what puts the player into the world *)
(* is kept of it, and what the places add to it changes none of its steps. *)
Fsm == INSTANCE SpawnFsm WITH joined <- phase = "in"
ImplementsSpawnFsm == Fsm!Spec

(* "refresh local-player globals from the live ped and pump on-foot sync   *)
(* to the server" (3535): an on-foot packet reports where the ped is, at   *)
(* least while the server has told the player nothing about his own place. *)
BodyReportsPed ==
  sent # Silent /\ playerInfo[g_myPlayerID].onfoot = "none" => sent = pedAt
=============================================================================
