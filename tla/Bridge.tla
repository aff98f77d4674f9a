-------------------------------- MODULE Bridge --------------------------------
(***************************************************************************)
(* opensamp::bridge, the layer between CNetGame and RakNet: the session     *)
(* flags, the RPC handlers that move them, and the spawn sub-FSM of Tick.   *)
(*                                                                          *)
(* Tick runs on the game thread; packets arrive on RakNet's own thread.     *)
(* One Tick is therefore several steps, between which packets may arrive:   *)
(*                                                                          *)
(*   "idle"  --BeginTick-->  "drain"  --one handler per packet-->  "drain"  *)
(*   "drain" --Maintain, when UpdateNetwork returns-->  "fsm"                  *)
(*   "fsm"   --CNetGame's own switch (module NetGame)-->  "idle"            *)
(*                                                                          *)
(* User calls (connect, disconnect, answering a dialog) come from the game  *)
(* thread too, so they happen only at "idle".                               *)
(*                                                                          *)
(* Time is an age: s_spawnStageAge is GetTickCount() - s_spawnStageMs,      *)
(* which the code only compares with one threshold, so it stops counting    *)
(* one past it.  SpawnInfo stands for whose data the global record holds:   *)
(* never written ("zeroed"), written by an earlier session ("stale") or by  *)
(* this one ("fresh").                                                      *)
(***************************************************************************)
EXTENDS RakClient

CONSTANTS
  ClassWait,    \* 3000 ms: how long an unanswered RequestClass may wait
  FrameTimes,   \* the durations a frame may have
  MaxRequests,  \* bound on the RequestClass calls a server still owes
  ServerRpcs,   \* the ServerPackets the server of a run uses
  MidTick       \* TRUE: packets may arrive while a Tick is draining

ASSUME ClassWaitAssumption  == ClassWait \in Nat
ASSUME FrameTimesAssumption == FrameTimes \subseteq Nat \ {0}
ASSUME RequestsAssumption   == MaxRequests \in Nat \ {0}
ASSUME ServerRpcsAssumption == ServerRpcs \subseteq ServerPackets
ASSUME MidTickAssumption    == MidTick \in BOOLEAN

VARIABLES
  phase,                  \* where the game thread is in Tick
  s_connectionRequested,  \* Connect() queued a request
  iConnectionRequested,   \* Tick handed it to RakNet
  iAreWeConnected,        \* RakNet accepted, ClientJoin sent
  iGameInited,            \* InitGame handled
  g_myPlayerID,
  iSpawned,
  s_spawnStage,
  s_spawnStageAge,
  g_spawnInfoReceived,
  SpawnInfo,
  bIsSpectating,
  dialogActive,           \* gui::Dialog::IsActive()
  classRequests,          \* RequestClass calls the server has not answered
  spawnsSent              \* history: Spawn RPCs since the last spawn reset

requestVars == <<s_connectionRequested, iConnectionRequested>>
joinVars    == <<iAreWeConnected, iGameInited, g_myPlayerID>>
stageVars   == <<s_spawnStage, s_spawnStageAge>>
spawnVars   == <<iSpawned, g_spawnInfoReceived, SpawnInfo, spawnsSent>>
worldVars   == <<bIsSpectating, dialogActive>>
bridgeVars  == <<linkVars, phase, requestVars, joinVars, stageVars, spawnVars,
                 worldVars, classRequests>>

SpawnStages == {"Idle", "WaitingClass", "Ready", "Done"}
StageAges   == 0 .. (ClassWait + 1)

BridgeTypeOK ==
  /\ LinkTypeOK
  /\ phase \in {"idle", "drain", "fsm"}
  /\ s_connectionRequested \in BOOLEAN
  /\ iConnectionRequested \in BOOLEAN
  /\ iAreWeConnected \in BOOLEAN
  /\ iGameInited \in BOOLEAN
  /\ g_myPlayerID \in PlayerIds \cup {NoPlayer}
  /\ iSpawned \in BOOLEAN
  /\ s_spawnStage \in SpawnStages
  /\ s_spawnStageAge \in StageAges
  /\ g_spawnInfoReceived \in BOOLEAN
  /\ SpawnInfo \in {"zeroed", "stale", "fresh"}
  /\ bIsSpectating \in BOOLEAN
  /\ dialogActive \in BOOLEAN
  /\ classRequests \in 0 .. MaxRequests
  /\ spawnsSent \in 0 .. 2

BridgeInit ==
  /\ LinkInit
  /\ phase = "idle"
  /\ s_connectionRequested = FALSE
  /\ iConnectionRequested = FALSE
  /\ iAreWeConnected = FALSE
  /\ iGameInited = FALSE
  /\ g_myPlayerID = NoPlayer
  /\ iSpawned = FALSE
  /\ s_spawnStage = "Idle"
  /\ s_spawnStageAge = 0
  /\ g_spawnInfoReceived = FALSE
  /\ SpawnInfo = "zeroed"
  /\ bIsSpectating = FALSE
  /\ dialogActive = FALSE
  /\ classRequests = 0
  /\ spawnsSent = 0

(* a + d, counted no further than cap.                                      *)
Later(a, d, cap) == IF a + d > cap THEN cap ELSE a + d

-----------------------------------------------------------------------------
(* bridge::Connect and bridge::Disconnect, called by CNetGame.              *)

(* Both reset these flags; Connect raises s_connectionRequested.            *)
(* Mutants: the reset forgets one of them.                                  *)
ResetFlagsButInited(requested) ==
  /\ s_connectionRequested' = requested
  /\ iConnectionRequested' = FALSE
  /\ iAreWeConnected' = FALSE
  /\ iSpawned' = FALSE
  /\ spawnsSent' = 0
  /\ UNCHANGED <<iGameInited, SpawnInfo>>

ResetFlagsButConnected(requested) ==
  /\ s_connectionRequested' = requested
  /\ iConnectionRequested' = FALSE
  /\ iGameInited' = FALSE
  /\ iSpawned' = FALSE
  /\ spawnsSent' = 0
  /\ UNCHANGED <<iAreWeConnected, SpawnInfo>>

ResetFlags(requested) ==
  /\ s_connectionRequested' = requested
  /\ iConnectionRequested' = FALSE
  /\ iAreWeConnected' = FALSE
  /\ iGameInited' = FALSE
  /\ iSpawned' = FALSE
  /\ spawnsSent' = 0
  /\ SpawnInfo' = IF requested /\ SpawnInfo = "fresh" THEN "stale" ELSE SpawnInfo

(* Connect() alone: a fresh request on a bridge nobody is using.            *)
BridgeConnect ==
  /\ ResetFlags(TRUE)
  /\ UNCHANGED <<linkVars, g_myPlayerID, stageVars, g_spawnInfoReceived,
                 worldVars, classRequests>>

(* Mutants: Disconnect leaves the dialog open, or the spawn stage as it is.  *)
ClearSessionButDialog ==
  /\ s_spawnStage' = "Idle"
  /\ g_spawnInfoReceived' = FALSE
  /\ g_myPlayerID' = NoPlayer
  /\ UNCHANGED dialogActive

ClearSessionButStage ==
  /\ g_spawnInfoReceived' = FALSE
  /\ g_myPlayerID' = NoPlayer
  /\ dialogActive' = FALSE
  /\ UNCHANGED s_spawnStage

(* What Disconnect alone resets.                                            *)
ClearSession ==
  /\ s_spawnStage' = "Idle"
  /\ g_spawnInfoReceived' = FALSE
  /\ g_myPlayerID' = NoPlayer
  /\ dialogActive' = FALSE

(* Disconnect(), followed by Connect() when requested.                      *)
BridgeDisconnect(requested) ==
  /\ ResetFlags(requested)
  /\ IF iAreWeConnected \/ iConnectionRequested
       THEN CloseLink /\ classRequests' = 0
       ELSE UNCHANGED <<linkVars, classRequests>>
  /\ ClearSession
  /\ UNCHANGED <<s_spawnStageAge, bIsSpectating>>

-----------------------------------------------------------------------------
(* UpdateNetwork: one handler per packet, until the queue is empty.         *)

BeginTick(d) ==
  /\ phase = "idle"
  /\ phase' = "drain"
  /\ s_spawnStageAge' = Later(s_spawnStageAge, d, ClassWait + 1)
  /\ UNCHANGED <<linkVars, requestVars, joinVars, s_spawnStage, spawnVars,
                 worldVars, classRequests>>

Receive(k) ==
  /\ phase = "drain"
  /\ inbox # <<>>
  /\ Head(inbox).kind = k
  /\ inbox' = Tail(inbox)
  /\ UNCHANGED <<link, phase, requestVars, stageVars, classRequests>>

(* Mutant: the accepted id is not kept.                                     *)
Packet_ConnectionSucceededNoId ==
  /\ Receive("Accepted")
  /\ iAreWeConnected' = TRUE
  /\ UNCHANGED <<g_myPlayerID, iGameInited, spawnVars, worldVars>>

Packet_ConnectionSucceeded ==
  /\ Receive("Accepted")
  /\ g_myPlayerID' = Head(inbox).id
  /\ iAreWeConnected' = TRUE
  /\ UNCHANGED <<iGameInited, spawnVars, worldVars>>

InitGame ==
  /\ Receive("InitGame")
  /\ g_myPlayerID' = Head(inbox).id
  /\ iGameInited' = TRUE
  /\ UNCHANGED <<iAreWeConnected, spawnVars, worldVars>>

(* Packets whose case or handler changes nothing modelled here: the four    *)
(* refusals and both losses, a truncated InitGame, a ConnectionRejected     *)
(* (which only renames) and a refused class.                                *)
IgnoredPacket ==
  /\ \E k \in Refusals \cup Losses \cup
              {"InitGameShort", "ConnectionRejected", "ClassRefused"} : Receive(k)
  /\ UNCHANGED <<joinVars, spawnVars, worldVars>>

RequestClass ==
  /\ Receive("ClassAccepted")
  /\ SpawnInfo' = "fresh"
  /\ g_spawnInfoReceived' = TRUE
  /\ UNCHANGED <<joinVars, iSpawned, spawnsSent, worldVars>>

ScrSetSpawnInfo ==
  /\ Receive("SetSpawnInfo")
  /\ SpawnInfo' = "fresh"
  /\ UNCHANGED <<joinVars, iSpawned, g_spawnInfoReceived, spawnsSent, worldVars>>

ScrDialogBox ==
  /\ \/ Receive("DialogShow") /\ dialogActive' = TRUE
     \/ Receive("DialogHide") /\ dialogActive' = FALSE
  /\ UNCHANGED <<joinVars, spawnVars, bIsSpectating>>

GameModeRestart ==
  /\ Receive("GameModeRestart")
  /\ iSpawned' = FALSE
  /\ g_spawnInfoReceived' = FALSE
  /\ spawnsSent' = 0
  /\ UNCHANGED <<joinVars, SpawnInfo, worldVars>>

(* Mutant: a spawn that is not recorded.                                    *)
sampSpawnUnrecorded ==
  /\ spawnsSent' = Later(spawnsSent, 1, 2)
  /\ UNCHANGED <<iSpawned, g_spawnInfoReceived, SpawnInfo>>

(* sampSpawn, and the iSpawned = 1 both its callers add.                    *)
sampSpawn ==
  /\ iSpawned' = TRUE
  /\ spawnsSent' = Later(spawnsSent, 1, 2)
  /\ UNCHANGED <<g_spawnInfoReceived, SpawnInfo>>

(* The RPC that ends spectating also spawns a player who is not spawned.    *)
SpectateExitSpawn ==
  /\ Receive("SpectateOff")
  /\ bIsSpectating
  /\ ~iSpawned
  /\ sampSpawn
  /\ bIsSpectating' = FALSE
  /\ UNCHANGED <<joinVars, dialogActive>>

ScrTogglePlayerSpectating ==
  \/ SpectateExitSpawn
  \/ /\ \/ Receive("SpectateOn") /\ bIsSpectating' = TRUE
        \/ /\ Receive("SpectateOff")
           /\ ~bIsSpectating \/ iSpawned
           /\ bIsSpectating' = FALSE
     /\ UNCHANGED <<joinVars, spawnVars, dialogActive>>

HandlePacket ==
  \/ Packet_ConnectionSucceeded
  \/ InitGame
  \/ IgnoredPacket
  \/ RequestClass
  \/ ScrSetSpawnInfo
  \/ ScrDialogBox
  \/ GameModeRestart
  \/ ScrTogglePlayerSpectating

-----------------------------------------------------------------------------
(* The rest of Tick: hand a queued request to RakNet, advance the spawn FSM.*)

IssueConnect ==
  IF s_connectionRequested /\ ~iConnectionRequested
    THEN iConnectionRequested' = TRUE /\ OpenLink
    ELSE UNCHANGED <<iConnectionRequested, linkVars>>

MayAdvanceSpawn ==
  iAreWeConnected /\ iGameInited /\ ~iSpawned /\ ~dialogActive

SpawnPaused ==
  /\ ~MayAdvanceSpawn \/ s_spawnStage = "Done"
  /\ UNCHANGED <<stageVars, spawnVars, bIsSpectating, classRequests>>

(* Mutant: an answer to an earlier request is taken for one to this.         *)
AskForClassKeeping ==
  /\ MayAdvanceSpawn
  /\ s_spawnStage = "Idle"
  /\ classRequests' = Later(classRequests, 1, MaxRequests)
  /\ s_spawnStage' = "WaitingClass"
  /\ s_spawnStageAge' = 0
  /\ UNCHANGED <<g_spawnInfoReceived, iSpawned, SpawnInfo, spawnsSent, bIsSpectating>>

AskForClass ==
  /\ MayAdvanceSpawn
  /\ s_spawnStage = "Idle"
  /\ g_spawnInfoReceived' = FALSE
  /\ classRequests' = Later(classRequests, 1, MaxRequests)
  /\ s_spawnStage' = "WaitingClass"
  /\ s_spawnStageAge' = 0
  /\ UNCHANGED <<iSpawned, SpawnInfo, spawnsSent, bIsSpectating>>

(* Mutant: the timeout is looked at before the answer.                      *)
AwaitClassTimeoutFirst ==
  /\ MayAdvanceSpawn
  /\ s_spawnStage = "WaitingClass"
  /\ s_spawnStage' = IF s_spawnStageAge > ClassWait THEN "Idle"
                     ELSE IF g_spawnInfoReceived THEN "Ready"
                     ELSE "WaitingClass"
  /\ UNCHANGED <<s_spawnStageAge, spawnVars, bIsSpectating, classRequests>>

AwaitClass ==
  /\ MayAdvanceSpawn
  /\ s_spawnStage = "WaitingClass"
  /\ s_spawnStage' = IF g_spawnInfoReceived THEN "Ready"
                     ELSE IF s_spawnStageAge > ClassWait THEN "Idle"
                     ELSE "WaitingClass"
  /\ UNCHANGED <<s_spawnStageAge, spawnVars, bIsSpectating, classRequests>>

AutoSpawn ==
  /\ MayAdvanceSpawn
  /\ s_spawnStage = "Ready"
  /\ sampSpawn
  /\ bIsSpectating' = FALSE
  /\ s_spawnStage' = "Done"
  /\ UNCHANGED <<s_spawnStageAge, classRequests>>

AdvanceSpawn == SpawnPaused \/ AskForClass \/ AwaitClass \/ AutoSpawn

(* UpdateNetwork returns when the queue is empty, or early, on a time-      *)
(* stamped packet too short to carry an id; the rest then waits a frame.    *)
CutShort ==
  /\ inbox # <<>>
  /\ Head(inbox).kind = "TimestampShort"
  /\ inbox' = Tail(inbox)
  /\ UNCHANGED <<link, iConnectionRequested>>

Maintain ==
  /\ phase = "drain"
  /\ phase' = "fsm"
  /\ (inbox = <<>> /\ IssueConnect) \/ CutShort
  /\ AdvanceSpawn
  /\ UNCHANGED <<s_connectionRequested, joinVars, dialogActive>>

-----------------------------------------------------------------------------
(* The player answers the open dialog.                                      *)
RespondToDialog ==
  /\ phase = "idle"
  /\ dialogActive
  /\ dialogActive' = FALSE
  /\ UNCHANGED <<linkVars, phase, requestVars, joinVars, stageVars, spawnVars,
                 bIsSpectating, classRequests>>

-----------------------------------------------------------------------------
(* The server and the network.  A server speaks RPC only to a client that   *)
(* has joined.  But for that it may send any call at any time, also before  *)
(* InitGame (a script runs in OnPlayerConnect) and also a class answer      *)
(* nobody asked for: no handler tests iGameInited or looks for a request.   *)

MayArrive == phase = "idle" \/ MidTick

ServerInitGame ==
  /\ MayArrive
  /\ iAreWeConnected
  /\ \E i \in PlayerIds : Carry([kind |-> "InitGame", id |-> i])
  /\ UNCHANGED classRequests

ServerAnswersClass ==
  /\ MayArrive
  /\ classRequests > 0
  /\ classRequests' = classRequests - 1
  /\ \E k \in ServerRpcs \cap {"ClassAccepted", "ClassRefused"} : Carry(Plain(k))

ServerRpc ==
  /\ MayArrive
  /\ iAreWeConnected
  /\ \E k \in ServerRpcs : Carry(Plain(k))
  /\ UNCHANGED classRequests

LinkEvent ==
  /\ MayArrive
  /\ AcceptLink \/ RefuseLink \/ DropLink
  /\ UNCHANGED classRequests

NetworkThread ==
  /\ LinkEvent \/ ServerInitGame \/ ServerAnswersClass \/ ServerRpc
  /\ UNCHANGED <<phase, requestVars, joinVars, stageVars, spawnVars, worldVars>>
=============================================================================
