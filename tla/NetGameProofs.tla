---------------------------- MODULE NetGameProofs ----------------------------
(***************************************************************************)
(* Proofs about NetGame, for any set of player ids, any timeouts and any    *)
(* server.                                                                  *)
(*                                                                          *)
(* None of the invariants is inductive alone: a handler may raise a flag    *)
(* because of where its packet came from, so the argument has to follow     *)
(* packets from the network thread, through the queue, to the handler.      *)
(* IInv adds what that takes.                                               *)
(***************************************************************************)
EXTENDS NetGame, SequenceTheorems, TLAPS

(* What is queued, and by when: nothing before the request was issued,      *)
(* nothing while it is being answered; then the acceptance, first and once; *)
(* the game information only after the acceptance was handled.              *)
QueueInv ==
  /\ link # "closed" \/ inbox # <<>> => iConnectionRequested
  /\ link = "opening" => inbox = <<>> /\ ~iAreWeConnected
  /\ \A n \in 1 .. Len(inbox) :
       /\ inbox[n].kind = "Accepted" => n = 1 /\ ~iAreWeConnected
       /\ inbox[n].kind = "InitGame" => iAreWeConnected

(* What a spawn stage or a spawn mark says of the spawn data.               *)
SpawnInv ==
  /\ ~iSpawned => spawnsSent = 0
  /\ g_spawnInfoReceived => SpawnInfo = "fresh"
  /\ s_spawnStage = "Ready" => SpawnInfo = "fresh"

LifeInv == ~initialized => m_state \notin InProgress

IInv ==
  /\ TypeOK
  /\ FlagsNest
  /\ FsmFollowsBridge
  /\ IdleIsClean
  /\ IdentityKnown
  /\ SpawnsOnce
  /\ QueueInv
  /\ SpawnInv
  /\ LifeInv

-----------------------------------------------------------------------------
(* The queue.                                                               *)

(* A packet that carries a player id carries one a server may assign.       *)
LEMMA PacketIds ==
  ASSUME NEW p \in Packets, p.kind \in {"Accepted", "InitGame"}
  PROVE  p.id \in PlayerIds
BY DEF Packets, Refusals, Losses, ServerPackets

(* Receiving takes the head and moves the others up by one.                 *)
LEMMA TailOfInbox ==
  ASSUME inbox \in Seq(Packets), inbox # <<>>, inbox' = Tail(inbox)
  PROVE  /\ Head(inbox) \in Packets
         /\ Head(inbox) = inbox[1]
         /\ inbox' \in Seq(Packets)
         /\ Len(inbox) \in Nat \ {0}
         /\ \A n \in 1 .. Len(inbox') :
              n + 1 \in 2 .. Len(inbox) /\ inbox'[n] = inbox[n + 1]
<1>1. /\ Head(inbox) \in Packets
      /\ Tail(inbox) \in Seq(Packets)
      /\ Len(Tail(inbox)) = Len(inbox) - 1
      /\ \A n \in 1 .. Len(Tail(inbox)) : Tail(inbox)[n] = inbox[n + 1]
  BY HeadTailProperties
<1>2. Len(inbox) \in Nat \ {0}
  BY EmptySeq
<1>3. Head(inbox) = inbox[1]
  OBVIOUS
<1> QED
  BY <1>1, <1>2, <1>3

(* Enqueueing adds one packet at the end.                                   *)
LEMMA AppendToInbox ==
  ASSUME inbox \in Seq(Packets), NEW p \in Packets, Enqueue(p)
  PROVE  /\ inbox' \in Seq(Packets)
         /\ inbox' # <<>>
         /\ Len(inbox) \in Nat
         /\ Len(inbox') = Len(inbox) + 1
         /\ inbox'[Len(inbox) + 1] = p
         /\ \A n \in 1 .. Len(inbox) : inbox'[n] = inbox[n]
BY AppendProperties, LenProperties, EmptySeq DEF Enqueue

(* Counting up to a cap stays under it.                                     *)
LEMMA LaterBounded ==
  ASSUME NEW cap \in Nat, NEW a \in 0 .. cap, NEW d \in Nat
  PROVE  Later(a, d, cap) \in 0 .. cap
BY DEF Later

-----------------------------------------------------------------------------
(* Type correctness.  TypeOK is inductive by itself.                        *)

(* What one packet handler may do keeps the types.                          *)
LEMMA HandlePacketType ==
  ASSUME TypeOK, HandlePacket, UNCHANGED <<initialized, m_state, m_stateAge>>
  PROVE  TypeOK'
<1> USE DEF TypeOK, BridgeTypeOK, joinVars, spawnVars, worldVars
<1>1. /\ inbox # <<>>
      /\ inbox' = Tail(inbox)
      /\ UNCHANGED <<link, phase, requestVars, stageVars, classRequests>>
  BY DEF HandlePacket, Packet_ConnectionSucceeded, InitGame, IgnoredPacket,
         RequestClass, ScrSetSpawnInfo, ScrDialogBox, GameModeRestart,
         ScrTogglePlayerSpectating, SpectateExitSpawn, Receive
<1>2. Head(inbox) \in Packets /\ LinkTypeOK'
  BY <1>1, TailOfInbox DEF LinkTypeOK
<1>3. /\ UNCHANGED <<link, phase, s_connectionRequested, iConnectionRequested,
                     s_spawnStage, s_spawnStageAge, classRequests>>
  BY <1>1 DEF requestVars, stageVars
<1>4. CASE Packet_ConnectionSucceeded
  BY <1>2, <1>3, <1>4, PacketIds DEF Packet_ConnectionSucceeded, Receive
<1>5. CASE InitGame
  BY <1>2, <1>3, <1>5, PacketIds DEF InitGame, Receive
<1>6. CASE IgnoredPacket
  BY <1>2, <1>3, <1>6 DEF IgnoredPacket
<1>7. CASE RequestClass
  BY <1>2, <1>3, <1>7 DEF RequestClass
<1>8. CASE ScrSetSpawnInfo
  BY <1>2, <1>3, <1>8 DEF ScrSetSpawnInfo
<1>9. CASE ScrDialogBox
  <2>1. dialogActive' \in BOOLEAN
    BY <1>9 DEF ScrDialogBox
  <2>2. UNCHANGED <<joinVars, spawnVars, bIsSpectating>>
    BY <1>9 DEF ScrDialogBox
  <2> QED
    BY <1>2, <1>3, <2>1, <2>2
<1>10. CASE GameModeRestart
  <2>1. iSpawned' \in BOOLEAN /\ g_spawnInfoReceived' \in BOOLEAN
    BY <1>10 DEF GameModeRestart
  <2>2. spawnsSent' \in 0 .. 2 /\ UNCHANGED <<joinVars, SpawnInfo, worldVars>>
    BY <1>10 DEF GameModeRestart
  <2> QED
    BY <1>2, <1>3, <2>1, <2>2
<1>11. CASE ScrTogglePlayerSpectating
  <2>1. spawnsSent' \in 0 .. 2 /\ iSpawned' \in BOOLEAN /\ bIsSpectating' \in BOOLEAN
    BY <1>11, LaterBounded DEF ScrTogglePlayerSpectating, SpectateExitSpawn, sampSpawn
  <2>2. UNCHANGED <<joinVars, g_spawnInfoReceived, SpawnInfo, dialogActive>>
    BY <1>11 DEF ScrTogglePlayerSpectating, SpectateExitSpawn, sampSpawn
  <2> QED
    BY <1>2, <1>3, <2>1, <2>2
<1> QED
  BY <1>4, <1>5, <1>6, <1>7, <1>8, <1>9, <1>10, <1>11 DEF HandlePacket

(* So does the rest of Tick.                                                *)
LEMMA MaintainType ==
  ASSUME TypeOK, Maintain, UNCHANGED <<initialized, m_state, m_stateAge>>
  PROVE  TypeOK'
<1> USE DEF TypeOK, BridgeTypeOK, LinkTypeOK, requestVars, joinVars, stageVars,
            spawnVars, worldVars, linkVars
<1>1. /\ link' \in {"closed", "opening", "up", "dead"}
      /\ inbox' \in Seq(Packets)
      /\ iConnectionRequested' \in BOOLEAN
  BY EmptySeq, TailOfInbox DEF Maintain, IssueConnect, OpenLink, CutShort
<1>2. /\ iSpawned' \in BOOLEAN
      /\ s_spawnStage' \in SpawnStages
      /\ s_spawnStageAge' \in StageAges
      /\ g_spawnInfoReceived' \in BOOLEAN
      /\ SpawnInfo' \in {"zeroed", "stale", "fresh"}
      /\ bIsSpectating' \in BOOLEAN
      /\ classRequests' \in 0 .. MaxRequests
      /\ spawnsSent' \in 0 .. 2
  <2>1. CASE SpawnPaused
    BY <2>1 DEF SpawnPaused
  <2>2. CASE AskForClass
    <3>1. 0 \in StageAges
      BY ClassWaitAssumption DEF StageAges
    <3>2. Later(classRequests, 1, MaxRequests) \in 0 .. MaxRequests
      BY LaterBounded, RequestsAssumption
    <3> QED
      BY <2>2, <3>1, <3>2 DEF AskForClass, SpawnStages
  <2>3. CASE AwaitClass
    BY <2>3 DEF AwaitClass, SpawnStages
  <2>4. CASE AutoSpawn
    BY <2>4, LaterBounded DEF AutoSpawn, sampSpawn, SpawnStages
  <2> QED
    BY <2>1, <2>2, <2>3, <2>4 DEF Maintain, AdvanceSpawn
<1> QED
  BY <1>1, <1>2 DEF Maintain

(* So does ending a session, or asking for one.                             *)
LEMMA BridgeDisconnectType ==
  ASSUME BridgeTypeOK, NEW requested \in BOOLEAN, BridgeDisconnect(requested),
         phase' = "idle"
  PROVE  BridgeTypeOK'
<1> USE DEF BridgeTypeOK, LinkTypeOK, BridgeDisconnect, linkVars
<1>1. LinkTypeOK'
  BY EmptySeq DEF CloseLink
<1>4. classRequests' \in 0 .. MaxRequests
  BY RequestsAssumption
<1>2. /\ s_connectionRequested' \in BOOLEAN
      /\ iConnectionRequested' \in BOOLEAN
      /\ iAreWeConnected' \in BOOLEAN
      /\ iGameInited' \in BOOLEAN
      /\ iSpawned' \in BOOLEAN
  BY DEF ResetFlags
<1>5. spawnsSent' = 0 /\ SpawnInfo' \in {"zeroed", "stale", "fresh"}
  BY DEF ResetFlags
<1>3. /\ s_spawnStage' \in SpawnStages
      /\ g_spawnInfoReceived' \in BOOLEAN
      /\ g_myPlayerID' \in PlayerIds \cup {NoPlayer}
      /\ dialogActive' \in BOOLEAN
  BY DEF ClearSession, SpawnStages
<1> QED
  BY <1>1, <1>2, <1>3, <1>4, <1>5

LEMMA BridgeConnectType ==
  ASSUME BridgeTypeOK, BridgeConnect, UNCHANGED phase
  PROVE  BridgeTypeOK'
<1> USE DEF BridgeTypeOK, BridgeConnect
<1>1. UNCHANGED <<link, inbox, phase, g_myPlayerID, s_spawnStage, s_spawnStageAge,
                  g_spawnInfoReceived, bIsSpectating, dialogActive, classRequests>>
  BY DEF linkVars, stageVars, worldVars
<1>2. /\ s_connectionRequested' \in BOOLEAN
      /\ iConnectionRequested' \in BOOLEAN
      /\ iAreWeConnected' \in BOOLEAN
      /\ iGameInited' \in BOOLEAN
      /\ iSpawned' \in BOOLEAN
  BY DEF ResetFlags
<1>3. spawnsSent' = 0 /\ SpawnInfo' \in {"zeroed", "stale", "fresh"}
  BY DEF ResetFlags
<1> QED
  BY <1>1, <1>2, <1>3 DEF LinkTypeOK

(* What the network thread enqueues is a packet.                            *)
LEMMA NetworkThreadType ==
  ASSUME BridgeTypeOK, NetworkThread
  PROVE  /\ BridgeTypeOK'
         /\ inbox \in Seq(Packets)
         /\ \E p \in Packets : Enqueue(p)
<1> USE DEF BridgeTypeOK, LinkTypeOK
<1>1. \E p \in Packets : Enqueue(p)
  <2>1. CASE LinkEvent
    BY <2>1 DEF LinkEvent, AcceptLink, RefuseLink, DropLink, Plain, Packets
  <2>2. CASE ServerInitGame
    BY <2>2 DEF ServerInitGame, Carry, Packets
  <2>3. CASE ServerAnswersClass
    BY <2>3, ServerRpcsAssumption DEF ServerAnswersClass, Carry, Plain, Packets
  <2>4. CASE ServerRpc
    BY <2>4, ServerRpcsAssumption DEF ServerRpc, Carry, Plain, Packets
  <2> QED
    BY <2>1, <2>2, <2>3, <2>4 DEF NetworkThread
<1>2. inbox' \in Seq(Packets)
  BY <1>1, AppendToInbox
<1>3. link' \in {"closed", "opening", "up", "dead"}
  BY DEF NetworkThread, LinkEvent, AcceptLink, RefuseLink, DropLink,
     ServerInitGame, ServerAnswersClass, ServerRpc, Carry
<1>5. classRequests' = classRequests \/ (classRequests > 0 /\ classRequests' = classRequests - 1)
  BY DEF NetworkThread, LinkEvent, ServerInitGame, ServerAnswersClass, ServerRpc
<1>6. classRequests' \in 0 .. MaxRequests
  BY <1>5, RequestsAssumption
<1>4. UNCHANGED <<phase, s_connectionRequested, iConnectionRequested, iAreWeConnected,
                  iGameInited, g_myPlayerID, s_spawnStage, s_spawnStageAge, iSpawned,
                  g_spawnInfoReceived, SpawnInfo, spawnsSent, bIsSpectating, dialogActive>>
  BY DEF NetworkThread, requestVars, joinVars, stageVars, spawnVars, worldVars
<1> QED
  BY <1>1, <1>2, <1>3, <1>4, <1>6

(* Every step keeps the types.                                              *)
LEMMA TypeStep == TypeOK /\ [Next]_vars => TypeOK'
<1> SUFFICES ASSUME TypeOK, [Next]_vars PROVE TypeOK'
  OBVIOUS
<1> USE DEF TypeOK
<1>1. CASE StartFrame
  <2>1. PICK d \in FrameTimes : BeginTick(d) /\ m_stateAge' = Later(m_stateAge, d, JoinWait + 1)
    BY <1>1 DEF StartFrame
  <2>2. d \in Nat
    BY FrameTimesAssumption
  <2>3. s_spawnStageAge' \in StageAges /\ m_stateAge' \in 0 .. (JoinWait + 1)
    BY <2>1, <2>2, LaterBounded, ClassWaitAssumption, JoinWaitAssumption
       DEF BeginTick, StageAges, BridgeTypeOK
  <2>4. UNCHANGED <<link, inbox, s_connectionRequested, iConnectionRequested, iAreWeConnected,
                    iGameInited, g_myPlayerID, s_spawnStage, iSpawned, g_spawnInfoReceived,
                    SpawnInfo, spawnsSent, bIsSpectating, dialogActive, classRequests,
                    initialized, m_state>> /\ phase' = "drain"
    BY <1>1, <2>1 DEF StartFrame, BeginTick, linkVars, requestVars, joinVars, spawnVars, worldVars
  <2> QED
    BY <2>3, <2>4 DEF BridgeTypeOK, LinkTypeOK
<1>2. CASE BridgeTick
  BY <1>2, HandlePacketType, MaintainType DEF BridgeTick
<1>3. CASE Stay /\ (TickInactive \/ TickConnecting \/ TickAwaitJoin \/ TickConnected)
  <2>1. m_state' \in NetStates /\ m_stateAge' \in {m_stateAge, 0}
    BY <1>3 DEF TickInactive, TickConnecting, TickAwaitJoin, TickConnected, Disconnect,
                TransitionTo, NetStates
  <2>4. m_stateAge' \in 0 .. (JoinWait + 1)
    BY <2>1, JoinWaitAssumption
  <2>2. initialized' = initialized /\ phase' = "idle"
    BY <1>3 DEF TickInactive, TickConnecting, TickAwaitJoin, TickConnected, EndFrame
  <2>3. UNCHANGED <<link, inbox, s_connectionRequested, iConnectionRequested, iAreWeConnected,
                    iGameInited, g_myPlayerID, s_spawnStage, s_spawnStageAge, iSpawned,
                    g_spawnInfoReceived, SpawnInfo, spawnsSent, bIsSpectating, dialogActive,
                    classRequests>>
    BY <1>3 DEF Stay, linkVars, requestVars, joinVars, stageVars, spawnVars, worldVars
  <2> QED
    BY <2>1, <2>2, <2>3, <2>4 DEF BridgeTypeOK, LinkTypeOK
<1>4. CASE Disconnect /\ phase' = "idle" /\ initialized' \in BOOLEAN
  <2>1. BridgeTypeOK'
    BY <1>4, BridgeDisconnectType DEF Disconnect
  <2>2. m_state' = "Disconnected" /\ m_stateAge' \in {m_stateAge, 0}
    BY <1>4 DEF Disconnect, TransitionTo
  <2>3. m_stateAge' \in 0 .. (JoinWait + 1)
    BY <2>2, JoinWaitAssumption
  <2> QED
    BY <1>4, <2>1, <2>2, <2>3 DEF NetStates
<1>5. CASE Connect
  <2>1. phase' = "idle" /\ initialized' = TRUE /\ m_state' = "Connecting"
    BY <1>5 DEF Connect, TransitionTo
  <2>2. m_stateAge' \in {m_stateAge, 0}
    BY <1>5 DEF Connect, TransitionTo
  <2>3. m_stateAge' \in 0 .. (JoinWait + 1)
    BY <2>2, JoinWaitAssumption
  <2>4. BridgeTypeOK'
    BY <1>5, <2>1, BridgeDisconnectType, BridgeConnectType DEF Connect
  <2> QED
    BY <2>1, <2>3, <2>4 DEF NetStates
<1>6. CASE UNCHANGED bridgeVars /\ (Initialize \/ Shutdown \/ UNCHANGED vars)
  <2>1. BridgeTypeOK'
    BY <1>6 DEF BridgeTypeOK, LinkTypeOK, bridgeVars, linkVars, requestVars, joinVars,
                stageVars, spawnVars, worldVars
  <2>2. initialized' \in BOOLEAN /\ m_state' \in NetStates /\ m_stateAge' \in {m_stateAge, 0}
    BY <1>6 DEF Initialize, Shutdown, Disconnect, TransitionTo, vars, NetStates
  <2>3. m_stateAge' \in 0 .. (JoinWait + 1)
    BY <2>2, JoinWaitAssumption
  <2> QED
    BY <2>1, <2>2, <2>3
<1>7. CASE AnswerDialog
  <2>0. /\ dialogActive' \in BOOLEAN
        /\ UNCHANGED <<link, inbox, phase, s_connectionRequested, iConnectionRequested,
                       iAreWeConnected, iGameInited, g_myPlayerID, s_spawnStage, s_spawnStageAge,
                       iSpawned, g_spawnInfoReceived, SpawnInfo, spawnsSent, bIsSpectating,
                       classRequests>>
    BY <1>7 DEF AnswerDialog, RespondToDialog, linkVars, requestVars, joinVars, stageVars,
                spawnVars
  <2>1. BridgeTypeOK'
    BY <2>0 DEF BridgeTypeOK, LinkTypeOK
  <2> QED
    BY <1>7, <2>1 DEF AnswerDialog
<1>8. CASE Network
  BY <1>8, NetworkThreadType DEF Network
<1>9. CASE TickAwaitJoin /\ ~Stay
  BY <1>4, <1>9 DEF TickAwaitJoin, EndFrame
<1>10. CASE Shutdown /\ ~UNCHANGED bridgeVars
  BY <1>4, <1>10 DEF Shutdown
<1>11. CASE GameThread
  BY <1>1, <1>2, <1>3, <1>9, <1>11 DEF GameThread, TickInactive, TickConnecting, TickConnected
<1>12. CASE User
  <2>1. CASE Initialize
    BY <1>6, <2>1 DEF Initialize
  <2>2. CASE UserDisconnect
    BY <1>4, <2>2 DEF UserDisconnect, Disconnect
  <2>3. CASE Shutdown
    BY <1>6, <1>10, <2>3
  <2> QED
    BY <1>5, <1>7, <1>12, <2>1, <2>2, <2>3 DEF User
<1>13. CASE UNCHANGED vars
  BY <1>6, <1>13 DEF vars
<1> QED
  BY <1>8, <1>11, <1>12, <1>13 DEF Next

(* The initial state has the types.                                        *)
LEMMA InitType == Init => TypeOK
<1> SUFFICES ASSUME Init PROVE TypeOK
  OBVIOUS
<1>1. LinkTypeOK
  BY EmptySeq DEF Init, BridgeInit, LinkInit, LinkTypeOK
<1>2. s_spawnStageAge \in StageAges /\ m_stateAge \in 0 .. (JoinWait + 1)
  BY JoinWaitAssumption, ClassWaitAssumption DEF Init, BridgeInit, StageAges
<1>3. classRequests \in 0 .. MaxRequests /\ spawnsSent \in 0 .. 2
  BY RequestsAssumption DEF Init, BridgeInit
<1> QED
  BY <1>1, <1>2, <1>3, ReadyAtStartAssumption
     DEF Init, BridgeInit, TypeOK, BridgeTypeOK, NetStates, SpawnStages

(* Every variable keeps to its set in every reachable state: the ages and   *)
(* counters to their bounds, the queue to the packets a server can send,    *)
(* the id to those a server may assign.                                     *)
THEOREM TypeCorrect == Spec => []TypeOK
BY InitType, TypeStep, PTL DEF Spec

-----------------------------------------------------------------------------
(* The inductive invariant.                                                 *)

(* A handler runs only in a session whose request was issued, raises        *)
(* iAreWeConnected only for an acceptance and iGameInited only after one.   *)
LEMMA HandlePacketInv ==
  ASSUME IInv, TypeOK', HandlePacket, UNCHANGED <<initialized, m_state, m_stateAge>>
  PROVE  IInv'
<1> DEFINE k == Head(inbox).kind
<1>1. /\ inbox # <<>>
      /\ inbox' = Tail(inbox)
      /\ UNCHANGED <<link, phase, s_connectionRequested, iConnectionRequested, s_spawnStage>>
  BY DEF HandlePacket, Packet_ConnectionSucceeded, InitGame, IgnoredPacket,
         RequestClass, ScrSetSpawnInfo, ScrDialogBox, GameModeRestart,
         ScrTogglePlayerSpectating, SpectateExitSpawn, Receive, requestVars, stageVars
<1>2. /\ m_state \in InProgress
      /\ iConnectionRequested /\ s_connectionRequested
      /\ link # "opening"
  BY <1>1 DEF IInv, IdleIsClean, QueueInv, FlagsNest
<1>3. /\ Head(inbox) \in Packets
      /\ Head(inbox) = inbox[1]
      /\ 1 \in 1 .. Len(inbox)
      /\ \A n \in 1 .. Len(inbox') :
           n + 1 \in 2 .. Len(inbox) /\ inbox'[n] = inbox[n + 1]
  BY <1>1, TailOfInbox DEF IInv, TypeOK, BridgeTypeOK, LinkTypeOK
<1>4. /\ k = "Accepted" => ~iAreWeConnected
      /\ k = "InitGame" => iAreWeConnected
      /\ \A n \in 1 .. Len(inbox') :
           /\ inbox'[n].kind # "Accepted"
           /\ inbox'[n].kind = "InitGame" => iAreWeConnected
  <2>1. /\ k = "Accepted" => ~iAreWeConnected
        /\ k = "InitGame" => iAreWeConnected
    BY <1>3 DEF IInv, QueueInv
  <2>2. ASSUME NEW n \in 1 .. Len(inbox')
        PROVE  /\ inbox'[n].kind # "Accepted"
               /\ inbox'[n].kind = "InitGame" => iAreWeConnected
    <3>1. n + 1 \in 1 .. Len(inbox) /\ n + 1 # 1 /\ inbox'[n] = inbox[n + 1]
      BY <1>3
    <3> QED
      BY <3>1 DEF IInv, QueueInv
  <2> QED
    BY <2>1, <2>2
<1>5. \/ /\ k = "Accepted" /\ iAreWeConnected' = TRUE /\ g_myPlayerID' = Head(inbox).id
         /\ iGameInited' = iGameInited
      \/ /\ k = "InitGame" /\ iGameInited' = TRUE /\ g_myPlayerID' = Head(inbox).id
         /\ iAreWeConnected' = iAreWeConnected
      \/ UNCHANGED <<iAreWeConnected, iGameInited, g_myPlayerID>>
  BY DEF HandlePacket, Packet_ConnectionSucceeded, InitGame, IgnoredPacket,
         RequestClass, ScrSetSpawnInfo, ScrDialogBox, GameModeRestart,
         ScrTogglePlayerSpectating, SpectateExitSpawn, Receive, joinVars
<1>6. FlagsNest' /\ FsmFollowsBridge'
  BY <1>1, <1>2, <1>4, <1>5 DEF IInv, FlagsNest, FsmFollowsBridge
<1>7. IdleIsClean' /\ LifeInv'
  BY <1>2 DEF IInv, IdleIsClean, LifeInv
<1>8. IdentityKnown'
  BY <1>3, <1>4, <1>5, PacketIds, PlayerIdsAssumption DEF IInv, IdentityKnown
<1>9. QueueInv'
  BY <1>1, <1>2, <1>4, <1>5 DEF QueueInv
<1>10. SpawnsOnce' /\ SpawnInv'
  <2>1. \/ UNCHANGED <<iSpawned, spawnsSent>>
        \/ spawnsSent' = 0 /\ iSpawned' = FALSE
        \/ ~iSpawned /\ spawnsSent' = Later(spawnsSent, 1, 2) /\ iSpawned' = TRUE
    BY DEF HandlePacket, Packet_ConnectionSucceeded, InitGame, IgnoredPacket,
           RequestClass, ScrSetSpawnInfo, ScrDialogBox, GameModeRestart,
           ScrTogglePlayerSpectating, SpectateExitSpawn, sampSpawn, spawnVars
  <2>2. \/ SpawnInfo' = "fresh"
        \/ SpawnInfo' = SpawnInfo /\ (g_spawnInfoReceived' => g_spawnInfoReceived)
    BY DEF HandlePacket, Packet_ConnectionSucceeded, InitGame, IgnoredPacket,
           RequestClass, ScrSetSpawnInfo, ScrDialogBox, GameModeRestart,
           ScrTogglePlayerSpectating, SpectateExitSpawn, sampSpawn, spawnVars
  <2>3. Later(0, 1, 2) = 1
    BY DEF Later
  <2>4. SpawnsOnce' /\ (~iSpawned' => spawnsSent' = 0)
    BY <2>1, <2>3 DEF IInv, SpawnsOnce, SpawnInv
  <2> QED
    BY <1>1, <2>2, <2>4 DEF IInv, SpawnInv
<1> QED
  BY <1>6, <1>7, <1>8, <1>9, <1>10 DEF IInv

(* The rest of Tick acts only in a session: it issues a request that was    *)
(* made, and moves the spawn stages of a client that has joined.            *)
LEMMA MaintainInv ==
  ASSUME IInv, TypeOK', Maintain, UNCHANGED <<initialized, m_state, m_stateAge>>
  PROVE  IInv'
<1>1. UNCHANGED <<s_connectionRequested, iAreWeConnected, iGameInited, g_myPlayerID,
                  dialogActive>>
  BY DEF Maintain, joinVars
<1>2. \/ /\ s_connectionRequested /\ ~iConnectionRequested /\ iConnectionRequested' = TRUE
         /\ inbox' = <<>>
      \/ inbox = <<>> /\ UNCHANGED <<iConnectionRequested, link, inbox>>
      \/ inbox # <<>> /\ inbox' = Tail(inbox) /\ UNCHANGED <<iConnectionRequested, link>>
  BY DEF Maintain, IssueConnect, OpenLink, CutShort, linkVars
<1>3. \/ UNCHANGED <<s_spawnStage, iSpawned, g_spawnInfoReceived, SpawnInfo, spawnsSent>>
      \/ MayAdvanceSpawn
  BY DEF Maintain, AdvanceSpawn, SpawnPaused, AskForClass, AwaitClass, AutoSpawn, stageVars, spawnVars
<1>4. FlagsNest' /\ FsmFollowsBridge' /\ IdentityKnown' /\ LifeInv'
  BY <1>1, <1>2 DEF IInv, FlagsNest, FsmFollowsBridge, IdentityKnown, LifeInv
<1>5. IdleIsClean'
  <2> SUFFICES ASSUME m_state \notin InProgress PROVE IdleIsClean'
    BY DEF IdleIsClean
  <2>1. /\ ~s_connectionRequested /\ ~iConnectionRequested /\ ~iAreWeConnected
        /\ inbox = <<>>
    BY DEF IInv, IdleIsClean, FlagsNest
  <2> QED
    BY <1>1, <1>2, <1>3, <2>1 DEF IInv, IdleIsClean, MayAdvanceSpawn
<1>6. QueueInv'
  <2>1. CASE inbox' = <<>> /\ iConnectionRequested' /\ ~iConnectionRequested
    <3>1. ~iAreWeConnected'
      BY <1>1, <2>1 DEF IInv, FlagsNest
    <3> QED
      BY <2>1, <3>1, EmptySeq DEF QueueInv
  <2>2. CASE UNCHANGED <<iConnectionRequested, link, inbox>>
    BY <1>1, <2>2 DEF IInv, QueueInv
  <2>3. CASE inbox # <<>> /\ inbox' = Tail(inbox) /\ UNCHANGED <<iConnectionRequested, link>>
    <3>1. \A n \in 1 .. Len(inbox') :
            n + 1 \in 2 .. Len(inbox) /\ inbox'[n] = inbox[n + 1]
      BY <2>3, TailOfInbox DEF IInv, TypeOK, BridgeTypeOK, LinkTypeOK
    <3>2. ASSUME NEW n \in 1 .. Len(inbox')
          PROVE  /\ inbox'[n].kind # "Accepted"
                 /\ inbox'[n].kind = "InitGame" => iAreWeConnected
      <4>1. n + 1 \in 1 .. Len(inbox) /\ n + 1 # 1 /\ inbox'[n] = inbox[n + 1]
        BY <3>1
      <4> QED
        BY <4>1 DEF IInv, QueueInv
    <3> QED
      BY <1>1, <2>3, <3>2 DEF IInv, QueueInv
  <2> QED
    BY <1>2, <2>1, <2>2, <2>3
<1>7. SpawnsOnce' /\ SpawnInv'
  <2>1. CASE SpawnPaused
    BY <2>1 DEF IInv, SpawnsOnce, SpawnInv, SpawnPaused, stageVars, spawnVars
  <2>2. CASE AskForClass
    BY <2>2 DEF IInv, SpawnsOnce, SpawnInv, AskForClass
  <2>3. CASE AwaitClass
    BY <2>3 DEF IInv, SpawnsOnce, SpawnInv, AwaitClass, spawnVars
  <2>4. CASE AutoSpawn
    <3>1. spawnsSent = 0 /\ Later(0, 1, 2) = 1
      BY <2>4 DEF AutoSpawn, MayAdvanceSpawn, IInv, SpawnInv, Later
    <3>2. spawnsSent' = 1 /\ iSpawned' = TRUE
      BY <2>4, <3>1 DEF AutoSpawn, sampSpawn
    <3>3. s_spawnStage' = "Done" /\ UNCHANGED <<g_spawnInfoReceived, SpawnInfo>>
      BY <2>4 DEF AutoSpawn, sampSpawn
    <3> QED
      BY <3>2, <3>3 DEF IInv, SpawnsOnce, SpawnInv
  <2> QED
    BY <2>1, <2>2, <2>3, <2>4 DEF Maintain, AdvanceSpawn
<1> QED
  BY <1>4, <1>5, <1>6, <1>7 DEF IInv

(* Ending a session leaves the bridge as clean as IdleIsClean asks, with or *)
(* without a new request: whatever the link had in flight is gone, even if  *)
(* the session was cut before its request was issued.                       *)
LEMMA BridgeDisconnectClears ==
  ASSUME IInv, NEW requested \in BOOLEAN, BridgeDisconnect(requested)
  PROVE  /\ link' = "closed" /\ inbox' = <<>>
         /\ s_connectionRequested' = requested
         /\ ~iConnectionRequested' /\ ~iAreWeConnected' /\ ~iGameInited'
         /\ g_myPlayerID' = NoPlayer
         /\ ~iSpawned' /\ spawnsSent' = 0
         /\ s_spawnStage' = "Idle" /\ ~g_spawnInfoReceived'
         /\ ~dialogActive'
<1>1. link' = "closed" /\ inbox' = <<>>
  BY DEF IInv, QueueInv, BridgeDisconnect, CloseLink, linkVars
<1> QED
  BY <1>1 DEF BridgeDisconnect, ResetFlags, ClearSession

(* Connect on an idle bridge finds it clean and only raises the request.    *)
LEMMA BridgeConnectClears ==
  ASSUME IInv, BridgeConnect, m_state \notin InProgress
  PROVE  /\ link' = "closed" /\ inbox' = <<>>
         /\ s_connectionRequested' = TRUE
         /\ ~iConnectionRequested' /\ ~iAreWeConnected' /\ ~iGameInited'
         /\ g_myPlayerID' = NoPlayer
         /\ ~iSpawned' /\ spawnsSent' = 0
         /\ s_spawnStage' = "Idle" /\ ~g_spawnInfoReceived'
         /\ ~dialogActive'
BY DEF IInv, IdleIsClean, BridgeConnect, ResetFlags, linkVars, stageVars, worldVars

(* A session that is over, or has only just been asked for, keeps IInv.     *)
LEMMA ClearedInv ==
  ASSUME TypeOK',
         link' = "closed" /\ inbox' = <<>>,
         ~iConnectionRequested' /\ ~iAreWeConnected' /\ ~iGameInited',
         g_myPlayerID' = NoPlayer,
         ~iSpawned' /\ spawnsSent' = 0,
         s_spawnStage' = "Idle" /\ ~g_spawnInfoReceived',
         ~dialogActive',
         \/ m_state' = "Disconnected" /\ ~s_connectionRequested'
         \/ m_state' = "Connecting" /\ initialized'
  PROVE  IInv'
<1>1. FlagsNest' /\ FsmFollowsBridge' /\ IdentityKnown' /\ SpawnsOnce' /\ SpawnInv'
  BY DEF FlagsNest, FsmFollowsBridge, IdentityKnown, SpawnsOnce, SpawnInv
<1>2. IdleIsClean' /\ LifeInv'
  BY DEF IdleIsClean, LifeInv, InProgress
<1>3. QueueInv'
  BY EmptySeq DEF QueueInv
<1> QED
  BY <1>1, <1>2, <1>3 DEF IInv

(* The network thread touches only the queue, and only while a request is   *)
(* out: the acceptance goes to an empty queue, the game information to a    *)
(* client that has handled it.                                              *)
LEMMA NetworkInv ==
  ASSUME IInv, TypeOK', Network
  PROVE  IInv'
<1>1. UNCHANGED <<phase, s_connectionRequested, iConnectionRequested, iAreWeConnected,
                  iGameInited, g_myPlayerID, s_spawnStage, iSpawned, g_spawnInfoReceived,
                  SpawnInfo, spawnsSent, dialogActive, initialized, m_state>>
  BY DEF Network, NetworkThread, requestVars, joinVars, stageVars, spawnVars, worldVars
<1>2. link # "closed" /\ link' # "closed" /\ link' # "opening"
  BY DEF Network, NetworkThread, LinkEvent, AcceptLink, RefuseLink, DropLink,
         ServerInitGame, ServerAnswersClass, ServerRpc, Carry
<1>3. iConnectionRequested /\ m_state \in InProgress
  BY <1>2 DEF IInv, QueueInv, IdleIsClean
<1>4. FlagsNest' /\ FsmFollowsBridge' /\ IdentityKnown' /\ SpawnsOnce' /\ SpawnInv' /\ LifeInv'
  BY <1>1 DEF IInv, FlagsNest, FsmFollowsBridge, IdentityKnown, SpawnsOnce, SpawnInv, LifeInv
<1>5. IdleIsClean'
  BY <1>1, <1>3 DEF IdleIsClean
<1>6. PICK p \in Packets :
        /\ Enqueue(p)
        /\ p.kind = "Accepted" => link = "opening"
        /\ p.kind = "InitGame" => iAreWeConnected
  <2>1. CASE AcceptLink
    BY <2>1 DEF AcceptLink, Packets
  <2>2. CASE RefuseLink
    BY <2>2 DEF RefuseLink, Plain, Packets, Refusals
  <2>3. CASE DropLink
    BY <2>3 DEF DropLink, Plain, Packets, Losses
  <2>4. CASE ServerInitGame
    BY <2>4 DEF ServerInitGame, Carry, Packets
  <2>5. CASE ServerAnswersClass
    BY <2>5, ServerRpcsAssumption DEF ServerAnswersClass, Carry, Plain, Packets, ServerPackets
  <2>6. CASE ServerRpc
    BY <2>6, ServerRpcsAssumption DEF ServerRpc, Carry, Plain, Packets, ServerPackets
  <2> QED
    BY <2>1, <2>2, <2>3, <2>4, <2>5, <2>6 DEF Network, NetworkThread, LinkEvent
<1>7. /\ Len(inbox) \in Nat
      /\ Len(inbox') = Len(inbox) + 1
      /\ inbox'[Len(inbox) + 1] = p
      /\ \A n \in 1 .. Len(inbox) : inbox'[n] = inbox[n]
  BY <1>6, AppendToInbox DEF IInv, TypeOK, BridgeTypeOK, LinkTypeOK
<1>8. ASSUME NEW n \in 1 .. Len(inbox')
      PROVE  /\ inbox'[n].kind = "Accepted" => n = 1 /\ ~iAreWeConnected
             /\ inbox'[n].kind = "InitGame" => iAreWeConnected
  <2>1. CASE n \in 1 .. Len(inbox)
    BY <1>7, <2>1 DEF IInv, QueueInv
  <2>2. CASE n = Len(inbox) + 1
    <3>1. link = "opening" => Len(inbox) = 0 /\ ~iAreWeConnected
      BY EmptySeq DEF IInv, QueueInv
    <3> QED
      BY <1>6, <1>7, <2>2, <3>1
  <2> QED
    BY <1>7, <2>1, <2>2
<1>9. QueueInv'
  BY <1>1, <1>2, <1>3, <1>8 DEF QueueInv
<1> QED
  BY <1>4, <1>5, <1>9 DEF IInv

(* Every step keeps the invariant.                                          *)
LEMMA InvStep == IInv /\ [Next]_vars => IInv'
<1> SUFFICES ASSUME IInv, [Next]_vars PROVE IInv'
  OBVIOUS
<1>1. TypeOK'
  BY TypeStep DEF IInv
<1>2. CASE BridgeTick
  BY <1>1, <1>2, HandlePacketInv, MaintainInv DEF BridgeTick
<1>3. CASE Network
  BY <1>1, <1>3, NetworkInv
<1>4. CASE Disconnect /\ UNCHANGED initialized
  <2>1. BridgeDisconnect(FALSE) /\ m_state' = "Disconnected"
    BY <1>4 DEF Disconnect, TransitionTo
  <2> QED
    BY <1>1, <2>1, BridgeDisconnectClears, ClearedInv
<1>5. CASE Connect
  <2>1. initialized' /\ m_state' = "Connecting"
    BY <1>5 DEF Connect, TransitionTo
  <2>2. CASE BridgeDisconnect(TRUE)
    BY <1>1, <2>1, <2>2, BridgeDisconnectClears, ClearedInv
  <2>3. CASE BridgeConnect /\ m_state \notin InProgress
    BY <1>1, <2>1, <2>3, BridgeConnectClears, ClearedInv
  <2> QED
    BY <1>5, <2>2, <2>3 DEF Connect, IInv, LifeInv
<1>6. CASE Shutdown
  <2>1. CASE Disconnect
    <3>1. BridgeDisconnect(FALSE) /\ m_state' = "Disconnected"
      BY <2>1 DEF Disconnect, TransitionTo
    <3> QED
      BY <1>1, <3>1, BridgeDisconnectClears, ClearedInv
  <2>2. CASE m_state \notin InProgress /\ UNCHANGED <<bridgeVars, m_state, m_stateAge>>
    BY <1>1, <2>2 DEF IInv, FlagsNest, FsmFollowsBridge, IdleIsClean, IdentityKnown, SpawnsOnce,
       QueueInv, SpawnInv, LifeInv, bridgeVars, linkVars, requestVars, joinVars, stageVars,
       spawnVars, worldVars
  <2> QED
    BY <1>6, <2>1, <2>2 DEF Shutdown
<1>7. ASSUME UNCHANGED <<link, inbox, s_connectionRequested, iConnectionRequested,
                         iAreWeConnected, iGameInited, g_myPlayerID, s_spawnStage, iSpawned,
                         g_spawnInfoReceived, SpawnInfo, spawnsSent>>,
             dialogActive' => dialogActive,
             initialized' \/ ~initialized,
             FsmFollowsBridge',
             m_state' \in InProgress <=> m_state \in InProgress
      PROVE  IInv'
  BY <1>1, <1>7 DEF IInv, FlagsNest, IdleIsClean, IdentityKnown, SpawnsOnce, QueueInv, SpawnInv, LifeInv
<1>8. CASE StartFrame \/ AnswerDialog \/ UNCHANGED vars
  BY <1>7, <1>8 DEF StartFrame, BeginTick, AnswerDialog, RespondToDialog, IInv, FsmFollowsBridge,
     vars, bridgeVars, linkVars, requestVars, joinVars, stageVars, spawnVars, worldVars
<1>9. CASE Initialize
  BY <1>7, <1>9 DEF Initialize, IInv, LifeInv, FsmFollowsBridge, InProgress,
     bridgeVars, linkVars, requestVars, joinVars, stageVars, spawnVars, worldVars
<1>10. CASE Stay /\ (TickInactive \/ TickConnecting \/ TickAwaitJoin \/ TickConnected)
  <2>1. UNCHANGED <<link, inbox, s_connectionRequested, iConnectionRequested, iAreWeConnected,
                    iGameInited, g_myPlayerID, s_spawnStage, iSpawned, g_spawnInfoReceived,
                    SpawnInfo, spawnsSent, dialogActive>>
    BY <1>10 DEF Stay, linkVars, requestVars, joinVars, stageVars, spawnVars, worldVars
  <2>2. initialized' = initialized
    BY <1>10 DEF TickInactive, TickConnecting, TickAwaitJoin, TickConnected, EndFrame
  <2>3. \/ m_state' = m_state
        \/ m_state = "Connecting" /\ iAreWeConnected /\ m_state' = "AwaitJoin"
        \/ m_state = "AwaitJoin" /\ iGameInited /\ m_state' = "Connected"
    <3>1. CASE TickInactive
      BY <3>1 DEF TickInactive
    <3>2. CASE TickConnecting
      BY <3>2 DEF TickConnecting, EndFrame, TransitionTo
    <3>3. CASE TickAwaitJoin
      <4>1. ~Disconnect
        BY <1>10, <2>1, <3>3 DEF TickAwaitJoin, EndFrame, Disconnect, BridgeDisconnect, ResetFlags,
           IInv, FsmFollowsBridge
      <4> QED
        BY <3>3, <4>1 DEF TickAwaitJoin, EndFrame, TransitionTo
    <3>4. CASE TickConnected
      BY <3>4 DEF TickConnected, EndFrame, TransitionTo, IInv, FsmFollowsBridge
    <3> QED
      BY <1>10, <3>1, <3>2, <3>3, <3>4
  <2>4. FsmFollowsBridge' /\ (m_state' \in InProgress <=> m_state \in InProgress)
    BY <2>1, <2>3 DEF IInv, FlagsNest, FsmFollowsBridge, InProgress
  <2> QED
    BY <1>7, <2>1, <2>2, <2>4
<1>11. CASE TickAwaitJoin /\ ~Stay
  BY <1>4, <1>11 DEF TickAwaitJoin, EndFrame
<1>12. CASE GameThread
  BY <1>2, <1>8, <1>10, <1>11, <1>12 DEF GameThread, TickInactive, TickConnecting, TickConnected
<1>13. CASE User
  BY <1>4, <1>5, <1>6, <1>8, <1>9, <1>13 DEF User, UserDisconnect
<1> QED
  BY <1>3, <1>8, <1>12, <1>13 DEF Next

(* The invariant holds of every reachable state.                            *)
LEMMA Invariance == Spec => []IInv
<1>1. Init => IInv
  <2> SUFFICES ASSUME Init PROVE IInv
    OBVIOUS
  <2>1. TypeOK
    BY InitType
  <2>2. inbox = <<>> /\ Len(inbox) = 0
    BY EmptySeq DEF Init, BridgeInit, LinkInit
  <2>3. QueueInv
    BY <2>2 DEF QueueInv, Init, BridgeInit, LinkInit
  <2> QED
    BY <2>1, <2>2, <2>3 DEF Init, BridgeInit, LinkInit, IInv, FlagsNest, FsmFollowsBridge,
       IdleIsClean, IdentityKnown, SpawnsOnce, SpawnInv, LifeInv, InProgress
<1> QED
  BY <1>1, InvStep, PTL DEF Spec

-----------------------------------------------------------------------------
(* The theorems.                                                            *)

(* The session flags nest: requested, issued, accepted, joined.             *)
THEOREM FlagsAlwaysNest == Spec => []FlagsNest
BY Invariance, PTL DEF IInv

(* CNetGame's state never runs ahead of the bridge's flags.                 *)
THEOREM FsmAlwaysFollows == Spec => []FsmFollowsBridge
BY Invariance, PTL DEF IInv

(* Between sessions nothing of the last one is left.                        *)
THEOREM IdleAlwaysClean == Spec => []IdleIsClean
BY Invariance, PTL DEF IInv

(* An accepted client has an id, so playerInfo[g_myPlayerID] is in range.   *)
THEOREM IdentityAlwaysKnown == Spec => []IdentityKnown
BY Invariance, PTL DEF IInv

(* The two spawn paths never both spawn the player.                         *)
THEOREM AtMostOneSpawn == Spec => []SpawnsOnce
BY Invariance, PTL DEF IInv

(* The spawn FSM never spawns from an earlier session's spawn data.         *)
THEOREM SpawnsFromFreshData == Spec => AutoSpawnIsFresh
<1>1. IInv => (s_spawnStage = "Ready" /\ s_spawnStage' = "Done" => SpawnInfo = "fresh")
  BY DEF IInv, SpawnInv
<1> QED
  BY <1>1, Invariance, PTL DEF Spec, AutoSpawnIsFresh

-----------------------------------------------------------------------------
(* NetGame implements Session.                                              *)

(* One packet is one step of the session, or none.                          *)
LEMMA HandlePacketRefines ==
  ASSUME IInv, IInv', HandlePacket
  PROVE  [Abstract!Next]_<<SessionStage, g_myPlayerID>>
<1> DEFINE k == Head(inbox).kind
<1>1. inbox # <<>> /\ UNCHANGED <<s_connectionRequested, iConnectionRequested>>
  BY DEF HandlePacket, Packet_ConnectionSucceeded, InitGame, IgnoredPacket,
         RequestClass, ScrSetSpawnInfo, ScrDialogBox, GameModeRestart,
         ScrTogglePlayerSpectating, SpectateExitSpawn, Receive, requestVars
<1>2. /\ s_connectionRequested /\ s_connectionRequested'
      /\ iGameInited => iAreWeConnected
  BY <1>1 DEF IInv, QueueInv, FlagsNest
<1>3. /\ Head(inbox) \in Packets /\ Head(inbox) = inbox[1] /\ 1 \in 1 .. Len(inbox)
  BY <1>1, EmptySeq, HeadTailProperties DEF IInv, TypeOK, BridgeTypeOK, LinkTypeOK
<1>4. /\ k = "Accepted" => ~iAreWeConnected
      /\ k = "InitGame" => iAreWeConnected
  BY <1>3 DEF IInv, QueueInv
<1>5. CASE Packet_ConnectionSucceeded
  <2>1. k = "Accepted" /\ g_myPlayerID' \in PlayerIds /\ iAreWeConnected' /\ iGameInited' = iGameInited
    BY <1>3, <1>5, PacketIds DEF Packet_ConnectionSucceeded, Receive
  <2> QED
    BY <1>2, <1>4, <2>1 DEF SessionStage, Abstract!Next, Abstract!Accept
<1>6. CASE InitGame
  <2>1. /\ k = "InitGame" /\ g_myPlayerID' \in PlayerIds /\ iGameInited'
        /\ UNCHANGED <<iAreWeConnected, iSpawned>>
    BY <1>3, <1>6, PacketIds DEF InitGame, Receive, spawnVars
  <2> QED
    BY <1>2, <1>4, <2>1 DEF SessionStage, Abstract!Next, Abstract!Join, Abstract!Rejoin
<1>7. CASE UNCHANGED joinVars
  BY <1>2, <1>7 DEF joinVars, SessionStage, Abstract!Next, Abstract!Spawn, Abstract!Unspawn
<1> QED
  BY <1>5, <1>6, <1>7 DEF HandlePacket, IgnoredPacket, RequestClass, ScrSetSpawnInfo, ScrDialogBox,
     GameModeRestart, ScrTogglePlayerSpectating, SpectateExitSpawn

(* So is every other step.                                                  *)
LEMMA StepRefines == IInv /\ IInv' /\ [Next]_vars => [Abstract!Next]_<<SessionStage, g_myPlayerID>>
<1> SUFFICES ASSUME IInv, IInv', [Next]_vars
             PROVE  [Abstract!Next]_<<SessionStage, g_myPlayerID>>
  OBVIOUS
<1>1. ASSUME UNCHANGED <<s_connectionRequested, iAreWeConnected, iGameInited, iSpawned, g_myPlayerID>>
      PROVE  [Abstract!Next]_<<SessionStage, g_myPlayerID>>
  BY <1>1 DEF SessionStage
<1>2. ASSUME NEW requested \in BOOLEAN, BridgeDisconnect(requested)
      PROVE  [Abstract!Next]_<<SessionStage, g_myPlayerID>>
  BY <1>2, BridgeDisconnectClears DEF SessionStage, Abstract!Next, Abstract!Open, Abstract!Close
<1>3. CASE BridgeTick
  <2>1. CASE HandlePacket
    BY <2>1, HandlePacketRefines
  <2>2. CASE Maintain
    <3>1. UNCHANGED <<s_connectionRequested, iAreWeConnected, iGameInited, g_myPlayerID>>
      BY <2>2 DEF Maintain, joinVars
    <3>2. iSpawned' = iSpawned \/ (MayAdvanceSpawn /\ iSpawned')
      BY <2>2 DEF Maintain, AdvanceSpawn, SpawnPaused, AskForClass, AwaitClass, AutoSpawn, sampSpawn,
                  spawnVars
    <3> QED
      BY <3>1, <3>2 DEF SessionStage, MayAdvanceSpawn, Abstract!Next, Abstract!Spawn
  <2> QED
    BY <1>3, <2>1, <2>2 DEF BridgeTick
<1>4. CASE Connect
  <2>1. CASE BridgeConnect /\ m_state \notin InProgress
    BY <2>1, BridgeConnectClears DEF SessionStage, Abstract!Next, Abstract!Open
  <2> QED
    BY <1>2, <1>4, <2>1 DEF Connect, IInv, LifeInv
<1>5. CASE Disconnect
  BY <1>2, <1>5 DEF Disconnect
<1>6. CASE Network
  BY <1>1, <1>6 DEF Network, NetworkThread, requestVars, joinVars, spawnVars
<1>7. CASE StartFrame \/ AnswerDialog \/ Initialize \/ UNCHANGED vars
  BY <1>1, <1>7 DEF StartFrame, BeginTick, AnswerDialog, RespondToDialog, Initialize, vars, bridgeVars,
     requestVars, joinVars, spawnVars
<1>8. CASE Shutdown
  BY <1>1, <1>5, <1>8 DEF Shutdown, bridgeVars, requestVars, joinVars, spawnVars
<1>9. CASE TickInactive \/ TickConnecting \/ TickAwaitJoin \/ TickConnected
  BY <1>1, <1>5, <1>9 DEF TickInactive, TickConnecting, TickAwaitJoin, TickConnected, Stay,
     requestVars, joinVars, spawnVars
<1> QED
  BY <1>3, <1>4, <1>5, <1>6, <1>7, <1>8, <1>9 DEF Next, GameThread, User, UserDisconnect

(* However handlers, ticks and user calls interleave, the flags only ever   *)
(* move as one session does.                                                *)
THEOREM Implements == Spec => ImplementsSession
<1>1. Init => Abstract!Init
  BY DEF Init, BridgeInit, SessionStage, Abstract!Init
<1> QED
  BY <1>1, StepRefines, Invariance, PTL DEF Spec, ImplementsSession, Abstract!Spec, Abstract!svars

-----------------------------------------------------------------------------
(* The end of a join, and of a session.                                     *)

(* Of the steps that begin and end in AwaitJoin, StartFrame alone lets time *)
(* pass, and a frame ends there only within the timeout.                    *)
LEMMA AwaitingJoinStep ==
  ASSUME IInv, JoinIsTimely, Next, m_state = "AwaitJoin", m_state' = "AwaitJoin"
  PROVE  /\ m_stateAge' >= m_stateAge
         /\ phase = "idle" /\ phase' = "drain" => m_stateAge' > m_stateAge
         /\ phase' = "idle" => m_stateAge' <= JoinWait
<1>1. m_stateAge \in 0 .. (JoinWait + 1) /\ JoinWait \in Nat
  BY JoinWaitAssumption DEF IInv, TypeOK
<1>2. CASE StartFrame
  <2>1. PICK d \in FrameTimes : BeginTick(d) /\ m_stateAge' = Later(m_stateAge, d, JoinWait + 1)
    BY <1>2 DEF StartFrame
  <2>2. phase = "idle" /\ phase' = "drain" /\ d \in Nat \ {0}
    BY <2>1, FrameTimesAssumption DEF BeginTick
  <2>3. m_stateAge <= JoinWait
    BY <2>2 DEF JoinIsTimely
  <2> QED
    BY <1>1, <2>1, <2>2, <2>3 DEF Later
<1>3. CASE BridgeTick
  <2>1. UNCHANGED m_stateAge /\ phase = "drain" /\ phase' # "idle"
    BY <1>3 DEF BridgeTick, HandlePacket, Maintain, Packet_ConnectionSucceeded, InitGame,
       IgnoredPacket, RequestClass, ScrSetSpawnInfo, ScrDialogBox, GameModeRestart,
       ScrTogglePlayerSpectating, SpectateExitSpawn, Receive
  <2> QED
    BY <1>1, <2>1
<1>4. CASE TickAwaitJoin
  <2>1. phase = "fsm" /\ m_stateAge <= JoinWait /\ m_stateAge' = m_stateAge
    BY <1>4 DEF TickAwaitJoin, EndFrame, TransitionTo, Disconnect
  <2> QED
    BY <1>1, <2>1
<1>5. CASE Network \/ AnswerDialog
  <2>1. UNCHANGED <<m_stateAge, phase>>
    BY <1>5 DEF Network, NetworkThread, AnswerDialog, RespondToDialog
  <2> QED
    BY <1>1, <2>1 DEF JoinIsTimely
<1>6. ~TickInactive /\ ~TickConnecting /\ ~TickConnected
  BY DEF TickInactive, TickConnecting, TickConnected, EndFrame
<1>7. ~Initialize /\ ~Connect /\ ~UserDisconnect
  BY DEF Initialize, Connect, UserDisconnect, Disconnect, TransitionTo
<1>8. ~Shutdown
  BY DEF Shutdown, Disconnect, TransitionTo, InProgress
<1> QED
  BY <1>2, <1>3, <1>4, <1>5, <1>6, <1>7, <1>8 DEF Next, GameThread, User

LEMMA JoinIsTimelyStep == IInv /\ JoinIsTimely /\ [Next]_vars => JoinIsTimely'
<1> SUFFICES ASSUME IInv, JoinIsTimely, [Next]_vars PROVE JoinIsTimely'
  OBVIOUS
<1>1. CASE UNCHANGED vars
  BY <1>1 DEF vars, bridgeVars, JoinIsTimely
<1>2. CASE Next /\ m_state = "AwaitJoin"
  BY <1>2, AwaitingJoinStep DEF JoinIsTimely
<1>3. CASE Next /\ m_state # "AwaitJoin" /\ m_state' = "AwaitJoin"
  <2>1. TickConnecting
    BY <1>3 DEF Next, GameThread, User, StartFrame, BridgeTick, TickInactive, TickAwaitJoin,
       TickConnected, Initialize, Connect, UserDisconnect, Disconnect, Shutdown, AnswerDialog,
       EndFrame, TransitionTo, Network
  <2>2. m_stateAge' = 0
    BY <1>3, <2>1 DEF TickConnecting, TransitionTo
  <2> QED
    BY <2>2, JoinWaitAssumption DEF JoinIsTimely
<1> QED
  BY <1>1, <1>2, <1>3 DEF JoinIsTimely

(* A join is never older than its timeout when a frame has ended ...        *)
THEOREM JoinsAreTimely == Spec => []JoinIsTimely
<1>1. Init => JoinIsTimely
  BY DEF Init, JoinIsTimely
<1> QED
  BY <1>1, JoinIsTimelyStep, Invariance, PTL DEF Spec

(* ... and every frame it waits through brings it nearer to that: the part  *)
(* of JoinResolves that does not depend on fairness.                        *)
THEOREM JoinsCountDown == Spec => EveryFrameCounts
<1>1. IInv /\ JoinIsTimely /\ [Next]_vars
        => [m_state = "AwaitJoin" /\ m_state' = "AwaitJoin" =>
              /\ m_stateAge' >= m_stateAge
              /\ phase = "idle" /\ phase' = "drain" => m_stateAge' > m_stateAge]_vars
  BY AwaitingJoinStep
<1> QED
  BY <1>1, JoinsAreTimely, Invariance, PTL DEF Spec, EveryFrameCounts

(* Neither a refusal nor a lost link nor the server ends a session: the     *)
(* branch of TickConnected that would is dead code.                         *)
THEOREM OnlyTheUserEnds == Spec => OnlyUserEnds
<1>1. IInv /\ [Next]_vars
        => [/\ m_state \in InProgress /\ m_state' \notin InProgress
            /\ ~(m_state = "AwaitJoin" /\ m_stateAge > JoinWait)
            => User]_vars
  <2> SUFFICES ASSUME IInv, Next, ~User, m_state \in InProgress, m_state' \notin InProgress
               PROVE  m_state = "AwaitJoin" /\ m_stateAge > JoinWait
    OBVIOUS
  <2>1. m_state' # m_state
    OBVIOUS
  <2>2. ~TickConnecting
    BY <2>1 DEF TickConnecting, TransitionTo, InProgress
  <2>3. ~TickConnected
    BY <2>1 DEF TickConnected, TransitionTo, EndFrame, IInv, FsmFollowsBridge
  <2>4. TickAwaitJoin
    BY <2>1, <2>2, <2>3 DEF Next, GameThread, StartFrame, BridgeTick, TickInactive, Network
  <2> QED
    BY <2>4 DEF TickAwaitJoin, TransitionTo, EndFrame, InProgress
<1> QED
  BY <1>1, Invariance, PTL DEF Spec, OnlyUserEnds

-----------------------------------------------------------------------------
(* NetGame implements SpawnFsm.                                             *)

(* One packet is one step of the spawn machine, or none.                    *)
LEMMA HandlePacketMovesFsm ==
  ASSUME IInv, HandlePacket
  PROVE  [Fsm!Next]_(Fsm!svars)
<1> USE DEF Fsm!svars, Told
<1>1. inbox # <<>> /\ UNCHANGED <<s_connectionRequested, s_spawnStage>>
  BY DEF HandlePacket, Packet_ConnectionSucceeded, InitGame, IgnoredPacket,
         RequestClass, ScrSetSpawnInfo, ScrDialogBox, GameModeRestart,
         ScrTogglePlayerSpectating, SpectateExitSpawn, Receive, requestVars, stageVars
<1>2. s_connectionRequested = TRUE
  BY <1>1 DEF IInv, QueueInv, FlagsNest, TypeOK, BridgeTypeOK
<1>3. CASE UNCHANGED <<spawnVars, bIsSpectating, iGameInited>>
  BY <1>1, <1>3 DEF spawnVars
<1>4. CASE InitGame
  <2>1. iGameInited' = TRUE /\ UNCHANGED <<spawnVars, bIsSpectating>>
    BY <1>4 DEF InitGame, worldVars
  <2>2. iGameInited \in BOOLEAN
    BY DEF IInv, TypeOK, BridgeTypeOK
  <2> QED
    BY <1>1, <2>1, <2>2 DEF spawnVars, Fsm!Next, Fsm!Join
<1>5. CASE RequestClass
  <2>1. /\ SpawnInfo' = "fresh" /\ g_spawnInfoReceived'
        /\ UNCHANGED <<iGameInited, iSpawned, bIsSpectating>>
    BY <1>5 DEF RequestClass, joinVars, worldVars
  <2> QED
    BY <1>1, <1>2, <2>1 DEF Fsm!Next, Fsm!Granted
<1>6. CASE ScrSetSpawnInfo
  <2>1. /\ SpawnInfo' = "fresh"
        /\ UNCHANGED <<iGameInited, iSpawned, g_spawnInfoReceived, bIsSpectating>>
    BY <1>6 DEF ScrSetSpawnInfo, joinVars, worldVars
  <2> QED
    BY <1>1, <1>2, <2>1 DEF Fsm!Next, Fsm!Informed
<1>7. CASE GameModeRestart
  <2>1. /\ ~iSpawned' /\ ~g_spawnInfoReceived'
        /\ UNCHANGED <<iGameInited, SpawnInfo, bIsSpectating>>
    BY <1>7 DEF GameModeRestart, joinVars, worldVars
  <2> QED
    BY <1>1, <2>1 DEF Fsm!Next, Fsm!GameModeRestart
<1>8. CASE ScrTogglePlayerSpectating
  <2>1. /\ UNCHANGED <<iGameInited, SpawnInfo, g_spawnInfoReceived>>
        /\ \/ bIsSpectating' = TRUE /\ UNCHANGED iSpawned
           \/ bIsSpectating' = FALSE /\ iSpawned' = (iSpawned \/ bIsSpectating)
    <3>1. iSpawned \in BOOLEAN /\ bIsSpectating \in BOOLEAN
      BY DEF IInv, TypeOK, BridgeTypeOK
    <3>2. CASE SpectateExitSpawn
      BY <3>1, <3>2 DEF SpectateExitSpawn, sampSpawn, joinVars
    <3>3. CASE ~SpectateExitSpawn
      BY <1>8, <3>1, <3>3 DEF ScrTogglePlayerSpectating, joinVars, spawnVars
    <3> QED
      BY <3>2, <3>3
  <2> QED
    BY <1>1, <2>1 DEF Fsm!Next, Fsm!Spectate, Fsm!Unspectate
<1> QED
  BY <1>3, <1>4, <1>5, <1>6, <1>7, <1>8
  DEF HandlePacket, Packet_ConnectionSucceeded, IgnoredPacket, ScrDialogBox, joinVars, worldVars

(* A tick moves the machine by at most one stage.                           *)
LEMMA MaintainMovesFsm ==
  ASSUME IInv, Maintain
  PROVE  [Fsm!Next]_(Fsm!svars)
<1> USE DEF Fsm!svars, Told
<1>1. UNCHANGED <<iGameInited, s_connectionRequested>>
  BY DEF Maintain, joinVars
<1>2. CASE SpawnPaused
  BY <1>1, <1>2 DEF SpawnPaused, stageVars, spawnVars
<1>3. CASE AskForClass
  BY <1>1, <1>3 DEF AskForClass, MayAdvanceSpawn, Fsm!Next, Fsm!Ask, Fsm!MayAdvance
<1>4. CASE AwaitClass
  BY <1>1, <1>4 DEF AwaitClass, MayAdvanceSpawn, spawnVars, Fsm!Next, Fsm!Answered, Fsm!MayAdvance
<1>5. CASE AutoSpawn
  BY <1>1, <1>5 DEF AutoSpawn, MayAdvanceSpawn, sampSpawn, Fsm!Next, Fsm!Spawn, Fsm!MayAdvance
<1> QED
  BY <1>2, <1>3, <1>4, <1>5 DEF Maintain, AdvanceSpawn

LEMMA StepMovesFsm == IInv /\ [Next]_vars => [Fsm!Next]_(Fsm!svars)
<1> SUFFICES ASSUME IInv, [Next]_vars PROVE [Fsm!Next]_(Fsm!svars)
  OBVIOUS
<1>1. ASSUME UNCHANGED <<s_connectionRequested, iGameInited, SpawnInfo, iSpawned, s_spawnStage,
                         g_spawnInfoReceived, bIsSpectating>>
      PROVE  [Fsm!Next]_(Fsm!svars)
  BY <1>1 DEF Fsm!svars, Told
<1>2. CASE BridgeTick
  BY <1>2, HandlePacketMovesFsm, MaintainMovesFsm DEF BridgeTick
<1>3. ASSUME NEW requested \in BOOLEAN, BridgeDisconnect(requested)
      PROVE  [Fsm!Next]_(Fsm!svars)
  <2>1. ~Told'
    BY <1>3 DEF BridgeDisconnect, ResetFlags, Told
  <2>2. UNCHANGED bIsSpectating
    BY <1>3 DEF BridgeDisconnect
  <2> QED
    BY <1>3, <2>1, <2>2, BridgeDisconnectClears DEF Fsm!Next, Fsm!Leave
<1>4. CASE Connect
  <2>1. CASE BridgeConnect /\ m_state \notin InProgress
    <3>1. ~Told'
      BY <2>1 DEF BridgeConnect, ResetFlags, Told
    <3>2. UNCHANGED bIsSpectating
      BY <2>1 DEF BridgeConnect, worldVars
    <3> QED
      BY <2>1, <3>1, <3>2, BridgeConnectClears DEF Fsm!Next, Fsm!Leave
  <2> QED
    BY <1>3, <1>4, <2>1 DEF Connect, IInv, LifeInv
<1>5. CASE Disconnect
  BY <1>3, <1>5 DEF Disconnect
<1>6. CASE Network
  BY <1>1, <1>6 DEF Network, NetworkThread, requestVars, joinVars, stageVars, spawnVars, worldVars
<1>7. CASE Stay \/ StartFrame \/ AnswerDialog \/ Initialize \/ UNCHANGED vars
  BY <1>1, <1>7 DEF Stay, StartFrame, BeginTick, AnswerDialog, RespondToDialog, Initialize, vars,
     bridgeVars, requestVars, joinVars, stageVars, spawnVars, worldVars
<1>8. CASE Shutdown
  BY <1>1, <1>5, <1>8 DEF Shutdown, bridgeVars, requestVars, joinVars, stageVars, spawnVars, worldVars
<1> QED
  BY <1>2, <1>4, <1>5, <1>6, <1>7, <1>8
  DEF Next, GameThread, User, UserDisconnect,
      TickInactive, TickConnecting, TickAwaitJoin, TickConnected

(* Timeouts, dialogs, the queue and two paths that spawn: the player still  *)
(* gets into the world as SpawnFsm says.                                    *)
THEOREM ImplementsTheSpawnFsm == Spec => ImplementsSpawnFsm
<1>1. Init => Fsm!Init
  BY DEF Init, BridgeInit, Fsm!Init, Told
<1> QED
  BY <1>1, StepMovesFsm, Invariance, PTL DEF Spec, ImplementsSpawnFsm, Fsm!Spec

(* The machine never spawns a player whom this session's server has not     *)
(* told where: the timeout, a late answer and a restart cannot bring it     *)
(* there, nor what an earlier session left in SpawnInfo.                    *)
THEOREM NeverSpawnsUntold == Spec => []Fsm!SpawnIsTold
<1>1. Fsm!Init => Fsm!SpawnIsTold
  BY DEF Fsm!Init, Fsm!SpawnIsTold
<1>2. Fsm!SpawnIsTold /\ [Fsm!Next]_(Fsm!svars) => Fsm!SpawnIsTold'
  BY DEF Fsm!SpawnIsTold, Fsm!svars, Fsm!Next, Fsm!Join, Fsm!Leave, Fsm!Granted, Fsm!Informed,
     Fsm!Ask, Fsm!Answered, Fsm!Spawn, Fsm!Spectate, Fsm!Unspectate, Fsm!GameModeRestart
<1> QED
  BY <1>1, <1>2, ImplementsTheSpawnFsm, PTL DEF ImplementsSpawnFsm, Fsm!Spec

(* The machine spawns once in a session.  This is what the violated run     *)
(* `netgame_restart` comes from: after a gamemode restart nothing but the   *)
(* end of the session gets it out of Done.                                  *)
THEOREM FsmSpawnsOnceASession == Spec => Fsm!SpawnsOnceASession
<1>1. [Fsm!Next]_(Fsm!svars)
        => [s_spawnStage = "Done" => s_spawnStage' = "Done" \/ ~iGameInited']_(Fsm!svars)
  BY DEF Fsm!svars, Fsm!Next, Fsm!Join, Fsm!Leave, Fsm!Granted, Fsm!Informed,
     Fsm!Ask, Fsm!Answered, Fsm!Spawn, Fsm!Spectate, Fsm!Unspectate, Fsm!GameModeRestart
<1> QED
  BY <1>1, ImplementsTheSpawnFsm, PTL DEF ImplementsSpawnFsm, Fsm!Spec, Fsm!SpawnsOnceASession
=============================================================================
