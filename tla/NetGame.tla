------------------------------- MODULE NetGame -------------------------------
(***************************************************************************)
(* CNetGame, the connection state machine the rest of the client looks at,  *)
(* on top of the bridge.  It is driven once a frame from the CGame::Process *)
(* hook (Tick) and by the user's //connect and //disconnect.                *)
(*                                                                          *)
(* m_stateAge is MsInState(): it restarts when the state changes and stops  *)
(* counting one past the only threshold it is compared with.  The flags     *)
(* m_initialized and s_initialized always change together; `initialized`    *)
(* stands for both.  Restarting is a state of the enumeration no statement  *)
(* enters.                                                                  *)
(***************************************************************************)
EXTENDS Bridge

CONSTANTS
  JoinWait,     \* kAwaitJoinTimeoutMs: how long AwaitJoin may last
  ReadyAtStart  \* TRUE: a run starts after CNetGame::Initialize()

ASSUME JoinWaitAssumption     == JoinWait \in Nat
ASSUME ReadyAtStartAssumption == ReadyAtStart \in BOOLEAN

VARIABLES initialized, m_state, m_stateAge

vars == <<bridgeVars, initialized, m_state, m_stateAge>>

NetStates  == {"None", "Connecting", "AwaitJoin", "Connected", "Disconnected",
               "Restarting"}
InProgress == {"Connecting", "AwaitJoin", "Connected", "Restarting"}

TypeOK ==
  /\ BridgeTypeOK
  /\ initialized \in BOOLEAN
  /\ m_state \in NetStates
  /\ m_stateAge \in 0 .. (JoinWait + 1)

Init ==
  /\ BridgeInit
  /\ initialized = ReadyAtStart
  /\ m_state = "None"
  /\ m_stateAge = 0

TransitionTo(s) ==
  /\ m_state' = s
  /\ m_stateAge' = IF s = m_state THEN m_stateAge ELSE 0

-----------------------------------------------------------------------------
(* Lifecycle and user calls.                                               *)

Initialize ==
  /\ ~initialized
  /\ initialized' = TRUE
  /\ m_state' = "None"
  /\ m_stateAge' = 0
  /\ UNCHANGED bridgeVars

(* Mutant: the bridge is disconnected and the state left as it is.          *)
DisconnectInPlace ==
  /\ m_state \in InProgress
  /\ BridgeDisconnect(FALSE)
  /\ TransitionTo(m_state)

Disconnect ==
  /\ m_state \in InProgress
  /\ BridgeDisconnect(FALSE)
  /\ TransitionTo("Disconnected")

(* Shutdown ends a live session first.  bridge::Shutdown then clears the    *)
(* flags Disconnect has just cleared and destroys the client.               *)
Shutdown ==
  /\ phase = "idle"
  /\ initialized
  /\ initialized' = FALSE
  /\ \/ Disconnect
     \/ /\ m_state \notin InProgress
        /\ UNCHANGED <<bridgeVars, m_state, m_stateAge>>
  /\ UNCHANGED phase

(* Connect initializes a client that is not, which makes its state None,    *)
(* and tears down a session in progress before it asks for a new one.       *)
Connect ==
  /\ phase = "idle"
  /\ initialized' = TRUE
  /\ \/ /\ initialized
        /\ m_state \in InProgress
        /\ BridgeDisconnect(TRUE)
        /\ TransitionTo("Connecting")
     \/ /\ ~initialized \/ m_state \notin InProgress
        /\ BridgeConnect
        /\ m_state' = "Connecting"
        /\ m_stateAge' = 0
  /\ UNCHANGED phase

UserDisconnect ==
  /\ phase = "idle"
  /\ Disconnect
  /\ UNCHANGED <<phase, initialized>>

AnswerDialog ==
  /\ RespondToDialog
  /\ UNCHANGED <<initialized, m_state, m_stateAge>>

User == Initialize \/ Connect \/ UserDisconnect \/ Shutdown \/ AnswerDialog

-----------------------------------------------------------------------------
(* Tick: bridge::Tick, then the handler of the current state.              *)

StartFrame ==
  /\ initialized
  /\ \E d \in FrameTimes :
       /\ BeginTick(d)
       /\ m_stateAge' = Later(m_stateAge, d, JoinWait + 1)
  /\ UNCHANGED <<initialized, m_state>>

BridgeTick ==
  /\ HandlePacket \/ Maintain
  /\ UNCHANGED <<initialized, m_state, m_stateAge>>

EndFrame(states) ==
  /\ phase = "fsm"
  /\ phase' = "idle"
  /\ m_state \in states
  /\ UNCHANGED initialized

Stay == UNCHANGED <<linkVars, requestVars, joinVars, stageVars, spawnVars,
                    worldVars, classRequests>>

TickInactive ==
  /\ EndFrame({"None", "Disconnected", "Restarting"})
  /\ Stay
  /\ UNCHANGED <<m_state, m_stateAge>>

TickConnecting ==
  /\ EndFrame({"Connecting"})
  /\ Stay
  /\ TransitionTo(IF iAreWeConnected THEN "AwaitJoin" ELSE m_state)

(* Mutant: like TickConnecting, it waits for ever.                          *)
TickAwaitJoinForever ==
  /\ EndFrame({"AwaitJoin"})
  /\ Stay
  /\ TransitionTo(IF iGameInited THEN "Connected" ELSE m_state)

TickAwaitJoin ==
  /\ EndFrame({"AwaitJoin"})
  /\ \/ /\ iGameInited \/ m_stateAge <= JoinWait
        /\ Stay
        /\ TransitionTo(IF iGameInited THEN "Connected" ELSE m_state)
     \/ /\ ~iGameInited
        /\ m_stateAge > JoinWait
        /\ Disconnect

TickConnected ==
  /\ EndFrame({"Connected"})
  /\ Stay
  /\ TransitionTo(IF iAreWeConnected THEN m_state ELSE "Disconnected")

GameThread ==
  \/ StartFrame
  \/ BridgeTick
  \/ TickInactive
  \/ TickConnecting
  \/ TickAwaitJoin
  \/ TickConnected

Network == NetworkThread /\ UNCHANGED <<initialized, m_state, m_stateAge>>

Next == GameThread \/ User \/ Network

Spec == Init /\ [][Next]_vars

(* The game calls Tick every frame and Tick always returns.                 *)
FairSpec == Spec /\ WF_vars(GameThread)

-----------------------------------------------------------------------------
(* What must be true of the composition.                                    *)

(* The flags go up in one order, as the phases of one session: requested,   *)
(* issued, accepted, joined.  Handlers and user calls set them from many    *)
(* places, and the guards of Tick and of the RPC handlers test only the     *)
(* last one.                                                                *)
FlagsNest ==
  /\ iGameInited => iAreWeConnected
  /\ iAreWeConnected => iConnectionRequested
  /\ iConnectionRequested => s_connectionRequested

(* The FSM never runs ahead of the bridge: AwaitJoin only with an accepted  *)
(* link, Connected only once joined.  So TickConnected's branch to          *)
(* Disconnected is dead code, and a session never ends on its own.          *)
FsmFollowsBridge ==
  /\ m_state \in {"AwaitJoin", "Connected"} => iAreWeConnected
  /\ m_state = "Connected" => iGameInited

(* A client that is in no session carries nothing of the last one: no       *)
(* queued packet, no request, no id, no spawn stage, no open dialog.        *)
IdleIsClean ==
  m_state \notin InProgress =>
    /\ link = "closed" /\ inbox = <<>>
    /\ ~s_connectionRequested
    /\ g_myPlayerID = NoPlayer
    /\ s_spawnStage = "Idle" /\ ~g_spawnInfoReceived
    /\ ~dialogActive

(* Sync and roster code index playerInfo[g_myPlayerID] once the game is     *)
(* inited; the id is assigned by two packets and cleared by Disconnect.     *)
IdentityKnown == iAreWeConnected => g_myPlayerID # NoPlayer

(* Two paths spawn the player, the spawn FSM and the end of spectating.     *)
(* Between two resets (a session, a gamemode) only one of them does.        *)
SpawnsOnce == spawnsSent <= 1

(* The spawn FSM spawns only from spawn data this session's server sent,    *)
(* though neither Connect nor Disconnect clears SpawnInfo.                  *)
AutoSpawnIsFresh == [][s_spawnStage = "Ready" /\ s_spawnStage' = "Done" => SpawnInfo = "fresh"]_vars

(* Implementation of the abstract session: its stage is read off the flags. *)
SessionStage ==
  IF ~s_connectionRequested THEN "offline"
  ELSE IF ~iAreWeConnected THEN "opening"
  ELSE IF ~iGameInited THEN "joining"
  ELSE IF ~iSpawned THEN "joined" ELSE "spawned"

Abstract == INSTANCE Session WITH stage <- SessionStage, id <- g_myPlayerID

(* The flags, however handlers, ticks and user calls interleave, only ever  *)
(* move as one session does.                                                *)
ImplementsSession == Abstract!Spec

(* Implementation of the abstract spawn machine.  What SpawnInfo holds was   *)
(* told by this session's server if it is fresh and there is a session.     *)
Told == s_connectionRequested /\ SpawnInfo = "fresh"
Fsm == INSTANCE SpawnFsm WITH joined <- iGameInited, told <- Told

(* However class answers, restarts, dialogs, timeouts and the two spawn     *)
(* paths interleave, the player gets into the world as SpawnFsm says.       *)
ImplementsSpawnFsm == Fsm!Spec

(* AwaitJoin always ends, by InitGame or by its timeout.                    *)
JoinResolves == m_state = "AwaitJoin" ~> m_state # "AwaitJoin"

(* How soon: in the first frame past the timeout, of at most JoinWait + 1.   *)
JoinIsTimely == phase = "idle" /\ m_state = "AwaitJoin" => m_stateAge <= JoinWait

EveryFrameCounts ==
  [][m_state = "AwaitJoin" /\ m_state' = "AwaitJoin" =>
       /\ m_stateAge' >= m_stateAge
       /\ phase = "idle" /\ phase' = "drain" => m_stateAge' > m_stateAge]_vars

(* But for a join that takes too long, only the user ends a session: not a  *)
(* refusal, not a lost link, not the server.                                *)
OnlyUserEnds ==
  [][/\ m_state \in InProgress /\ m_state' \notin InProgress
     /\ ~(m_state = "AwaitJoin" /\ m_stateAge > JoinWait)
     => User]_vars

(* A class answer the FSM is waiting for leads to a spawn, unless a dialog, *)
(* a gamemode restart or the end of the session comes between.              *)
ClassAnswerSpawns ==
  (s_spawnStage = "WaitingClass" /\ g_spawnInfoReceived)
    ~> (iSpawned \/ dialogActive \/ ~iGameInited)

-----------------------------------------------------------------------------
(* What the repository says of this code and the code does not do.          *)

(* "for now we drop spawn state so the FSM re-runs RequestClass / Spawn     *)
(* next iteration" (GameModeRestart): a joined player who is not spawned    *)
(* gets a class request out or a spawn.                                     *)
UnspawnedIsServed ==
  (iGameInited /\ ~iSpawned)
    ~> (classRequests > 0 \/ iSpawned \/ dialogActive \/ ~iGameInited \/ link # "up")
=============================================================================
