----------------------------- MODULE RosterProofs -----------------------------
(***************************************************************************)
(* For any number of slots, names, places and sessions: a speaker's name   *)
(* is the one the server gave last, if that is one a join takes; who is    *)
(* streamed in has a position; a spawn is where the server said.           *)
(***************************************************************************)
EXTENDS LocalPlayer, TLAPS

(* Nobody is announced between the acceptance and InitGame: what an earlier*)
(* session left in a slot is overwritten before anybody speaks from it, or *)
(* stands behind a name no join takes.                                     *)
NoneAnnouncedYet ==
  phase = "accepted" => \A id \in Ids : announced[id] = Nobody

RosterInv == RosterTypeOK /\ SpeakersNamed /\ StreamedHavePosition /\ NoneAnnouncedYet

(* A name a join takes, a rename takes too, and cuts it to a name.         *)
LEMMA NamesAreTaken ==
  /\ Nobody \in StoredNames
  /\ \A name \in Names :
       /\ name \in StoredNames /\ Cut[name] \in StoredNames
       /\ JoinTakes(name) => RenameTakes(name)
<1>1. ASSUME NEW name \in Names PROVE NameLength[name] \in Nat /\ Cut[name] \in Names
  BY NamesAssumption
<1> QED  BY <1>1 DEF StoredNames, JoinTakes, RenameTakes

(* A slot whose fields are replaced by others of their types is a slot.    *)
LEMMA SlotFields ==
  ASSUME NEW s \in Slots
  PROVE  /\ \A n \in StoredNames : [s EXCEPT !.name = n] \in Slots
         /\ [s EXCEPT !.streamed = TRUE, !.onfoot = "given", !.incar = "given"] \in Slots
         /\ [s EXCEPT !.incar = "none", !.streamed = FALSE] \in Slots
         /\ \A q \in Positions : [s EXCEPT !.onfoot = q] \in Slots
         /\ \A q \in Positions : [s EXCEPT !.incar = q] \in Slots
  BY DEF Slots, Positions

LEMMA RosterInvInitially == RosterInit => RosterInv
<1> SUFFICES ASSUME RosterInit PROVE RosterInv
  OBVIOUS
<1>1. Empty \in Slots /\ Nobody \in StoredNames
  BY NamesAreTaken DEF Empty, Slots, Positions
<1>2. RosterTypeOK
  BY <1>1, RosterAssumption DEF RosterInit, RosterTypeOK, Ids
<1>3. SpeakersNamed /\ NoneAnnouncedYet
  BY DEF RosterInit, SpeakersNamed, Speaker, NoneAnnouncedYet
<1>4. StreamedHavePosition
  BY DEF RosterInit, StreamedHavePosition, Empty
<1> QED  BY <1>2, <1>3, <1>4 DEF RosterInv

(* An RPC or a packet writes one slot and, at most, its announcement: it   *)
(* is enough that the slot it writes is right.                             *)
LEMMA OneSlot ==
  ASSUME RosterInv, UNCHANGED me, NEW id \in Ids, NEW slot \in Slots,
         playerInfo' = [playerInfo EXCEPT ![id] = slot],
         NEW said \in StoredNames, announced' = [announced EXCEPT ![id] = said],
         phase = "accepted" => said = Nobody,
         phase = "in" /\ said # Nobody /\ JoinTakes(said) => slot.name \in {said, Cut[said]},
         slot.streamed => slot.onfoot # "none" /\ slot.incar # "none"
  PROVE  RosterInv'
<1> USE DEF RosterInv, me
<1>1. RosterTypeOK'
  BY DEF RosterTypeOK
<1>2. playerInfo'[id] = slot /\ announced'[id] = said
  BY DEF RosterTypeOK
<1>3. \A i \in Ids \ {id} : playerInfo'[i] = playerInfo[i] /\ announced'[i] = announced[i]
  BY DEF RosterTypeOK
<1>4. SpeakersNamed'
  BY <1>2, <1>3 DEF SpeakersNamed, Speaker, JoinTakes
<1>5. StreamedHavePosition'
  BY <1>2, <1>3 DEF StreamedHavePosition
<1>6. NoneAnnouncedYet'
  BY <1>2, <1>3 DEF NoneAnnouncedYet
<1> QED  BY <1>1, <1>4, <1>5, <1>6

(* The same for what leaves the name and the announcement alone.           *)
LEMMA OneSlotOnly ==
  ASSUME RosterInv, UNCHANGED <<me, announced>>, NEW id \in Ids, NEW slot \in Slots,
         playerInfo' = [playerInfo EXCEPT ![id] = slot],
         slot.name = playerInfo[id].name,
         slot.streamed => slot.onfoot # "none" /\ slot.incar # "none"
  PROVE  RosterInv'
<1>1. announced[id] \in StoredNames /\ announced' = [announced EXCEPT ![id] = announced[id]]
  BY DEF RosterInv, RosterTypeOK
<1>2. phase = "accepted" => announced[id] = Nobody
  BY DEF RosterInv, NoneAnnouncedYet
<1>3. phase = "in" /\ announced[id] # Nobody /\ JoinTakes(announced[id]) =>
        slot.name \in {announced[id], Cut[announced[id]]}
  BY DEF RosterInv, SpeakersNamed, Speaker
<1> QED  BY <1>1, <1>2, <1>3, OneSlot

(* The beginning and the end of a session.                                 *)
LEMMA SessionKeepsRosterInv ==
  ASSUME RosterInv,
         \/ Disconnect \/ BadNickname
         \/ \E id \in Ids : InitGame(id)
         \/ \E id \in Ids, nick \in Names : ConnectionSucceeded(id, nick)
  PROVE  RosterInv'
<1> USE DEF RosterInv
<1>1. ASSUME NEW id \in Ids, InitGame(id) PROVE RosterInv'
  <2>1. RosterTypeOK' /\ StreamedHavePosition' /\ NoneAnnouncedYet'
    BY <1>1 DEF InitGame, RosterTypeOK, StreamedHavePosition, NoneAnnouncedYet
  <2>2. SpeakersNamed'
    <3>1. CASE phase = "accepted"
      BY <1>1, <3>1 DEF InitGame, SpeakersNamed, NoneAnnouncedYet
    <3>2. CASE phase = "in"
      BY <1>1, <3>2 DEF InitGame, SpeakersNamed, Speaker, JoinTakes
    <3> QED  BY <1>1, <3>1, <3>2 DEF InitGame, RosterTypeOK
  <2> QED  BY <2>1, <2>2
<1>2. CASE Disconnect
  BY <1>2 DEF Disconnect, RosterTypeOK, SpeakersNamed, NoneAnnouncedYet, StreamedHavePosition
<1>3. CASE BadNickname
  <2>1. Empty \in Slots
    BY NamesAreTaken DEF Empty, Slots, Positions
  <2>2. RosterTypeOK'
    BY <1>3, <2>1 DEF BadNickname, resetPools, RosterTypeOK, me
  <2>3. SpeakersNamed' /\ NoneAnnouncedYet'
    BY <1>3 DEF BadNickname, SpeakersNamed, NoneAnnouncedYet, me
  <2>4. \A id \in Ids : playerInfo'[id] = playerInfo[id] \/ playerInfo'[id] = Empty
    BY <1>3 DEF BadNickname, resetPools, RosterTypeOK
  <2>5. StreamedHavePosition'
    BY <2>4 DEF StreamedHavePosition, Empty
  <2> QED  BY <2>2, <2>3, <2>5
<1>4. ASSUME NEW id \in Ids, NEW nick \in Names, ConnectionSucceeded(id, nick) PROVE RosterInv'
  <2> DEFINE slot == [playerInfo[id] EXCEPT !.name = nick]
  <2>1. playerInfo[id] \in Slots /\ Nobody \in StoredNames
    BY NamesAreTaken DEF RosterTypeOK
  <2>2. playerInfo' = [playerInfo EXCEPT ![id] = slot]
    BY <1>4 DEF ConnectionSucceeded
  <2>3. slot \in Slots
    BY <2>1, NamesAreTaken, SlotFields
  <2>4. slot.streamed = playerInfo[id].streamed /\ slot.onfoot = playerInfo[id].onfoot
        /\ slot.incar = playerInfo[id].incar
    BY <2>1 DEF Slots
  <2> HIDE DEF slot
  <2>5. RosterTypeOK'
    BY <1>4, <2>1, <2>2, <2>3 DEF ConnectionSucceeded, RosterTypeOK
  <2>6. SpeakersNamed' /\ NoneAnnouncedYet'
    BY <1>4 DEF ConnectionSucceeded, SpeakersNamed, NoneAnnouncedYet
  <2>7. StreamedHavePosition'
    BY <2>2, <2>4 DEF StreamedHavePosition, RosterTypeOK
  <2> QED  BY <2>5, <2>6, <2>7
<1> QED  BY <1>1, <1>2, <1>3, <1>4

(* The RPCs about who is there and what they are called.                   *)
LEMMA NamingKeepsRosterInv ==
  ASSUME RosterInv, NEW id \in Ids,
         \/ ServerQuit(id)
         \/ \E name \in Names : ServerJoin(id, name) \/ ScrSetPlayerName(id, name)
  PROVE  RosterInv'
<1> DEFINE old == playerInfo[id]
           Renamed(n) == [old EXCEPT !.name = n]
<1>1. /\ old \in Slots
      /\ old.streamed => old.onfoot # "none" /\ old.incar # "none"
      /\ playerInfo = [playerInfo EXCEPT ![id] = old]
  BY DEF RosterInv, RosterTypeOK, StreamedHavePosition
<1>2. ASSUME NEW n \in StoredNames
      PROVE  /\ Renamed(n) \in Slots /\ Renamed(n).name = n
             /\ Renamed(n).streamed => Renamed(n).onfoot # "none" /\ Renamed(n).incar # "none"
  <2>1. Renamed(n) \in Slots
    BY <1>1, SlotFields
  <2> QED  BY <1>1, <2>1 DEF Slots
<1> HIDE DEF Renamed, old
<1>3. CASE ServerQuit(id)
  <2>1. playerInfo' = [playerInfo EXCEPT ![id] = Renamed(Nobody)]
    BY <1>3 DEF ServerQuit, Renamed, old
  <2>2. announced' = [announced EXCEPT ![id] = Nobody] /\ UNCHANGED me
    BY <1>3 DEF ServerQuit
  <2> QED  BY <1>2, <2>1, <2>2, NamesAreTaken, OneSlot
<1>4. ASSUME NEW name \in Names, ServerJoin(id, name) PROVE RosterInv'
  <2>1. announced' = [announced EXCEPT ![id] = name] /\ UNCHANGED me /\ phase = "in"
    BY <1>4 DEF ServerJoin
  <2>2. CASE JoinTakes(name)
    <3>1. playerInfo' = [playerInfo EXCEPT ![id] = Renamed(name)]
      BY <1>4, <2>2 DEF ServerJoin, JoinedSlot, Renamed, old
    <3> QED  BY <1>2, <2>1, <3>1, NamesAreTaken, OneSlot
  <2>3. CASE ~JoinTakes(name)
    <3>1. playerInfo' = [playerInfo EXCEPT ![id] = old]
      BY <1>1, <1>4, <2>3 DEF ServerJoin, JoinedSlot
    <3> QED  BY <1>1, <2>1, <2>3, <3>1, NamesAreTaken, OneSlot
  <2> QED  BY <2>2, <2>3
<1>5. ASSUME NEW name \in Names, ScrSetPlayerName(id, name) PROVE RosterInv'
  <2> DEFINE said == IF announced[id] = Nobody THEN Nobody ELSE name
  <2>1. announced' = [announced EXCEPT ![id] = said] /\ UNCHANGED me
    BY <1>5 DEF ScrSetPlayerName
  <2>2. said \in StoredNames /\ Cut[name] \in StoredNames
    BY NamesAreTaken
  <2>3. phase = "accepted" => said = Nobody
    BY DEF RosterInv, NoneAnnouncedYet
  <2>4. said # Nobody => said = name
    OBVIOUS
  <2> HIDE DEF said
  <2>5. CASE RenameTakes(name)
    <3>1. playerInfo' = [playerInfo EXCEPT ![id] = Renamed(Cut[name])]
      BY <1>5, <2>5 DEF ScrSetPlayerName, RenamedSlot, Renamed, old
    <3> QED  BY <1>2, <2>1, <2>2, <2>3, <2>4, <3>1, OneSlot
  <2>6. CASE ~RenameTakes(name)
    <3>1. playerInfo' = [playerInfo EXCEPT ![id] = old]
      BY <1>1, <1>5, <2>6 DEF ScrSetPlayerName, RenamedSlot
    <3>2. ~JoinTakes(name)
      BY <2>6, NamesAreTaken
    <3> QED  BY <1>1, <2>1, <2>2, <2>3, <2>4, <3>1, <3>2, OneSlot
  <2> QED  BY <2>5, <2>6
<1> QED  BY <1>3, <1>4, <1>5

(* Streaming and sync packets: where players are.                          *)
LEMMA PlacingKeepsRosterInv ==
  ASSUME RosterInv, NEW id \in Ids,
         \/ WorldPlayerAdd(id) \/ WorldPlayerRemove(id)
         \/ PlayerSync(id) \/ VehicleSync(id) \/ MarkersSync(id)
  PROVE  RosterInv'
<1> DEFINE old == playerInfo[id]
<1>1. old \in Slots /\ (old.streamed => old.onfoot # "none" /\ old.incar # "none")
  BY DEF RosterInv, RosterTypeOK, StreamedHavePosition
<1>2. ASSUME NEW slot \in Slots, playerInfo' = [playerInfo EXCEPT ![id] = slot],
             UNCHANGED <<me, announced>>, slot.name = old.name,
             slot.streamed => slot.onfoot # "none" /\ slot.incar # "none"
      PROVE  RosterInv'
  BY <1>2, OneSlotOnly
<1>3. CASE WorldPlayerAdd(id)
  <2> DEFINE slot == [old EXCEPT !.streamed = TRUE, !.onfoot = "given", !.incar = "given"]
  <2>1. slot \in Slots
    BY <1>1, SlotFields
  <2>2. slot.onfoot # "none" /\ slot.incar # "none" /\ slot.name = old.name
    BY <1>1 DEF Slots
  <2>3. playerInfo' = [playerInfo EXCEPT ![id] = slot] /\ UNCHANGED <<me, announced>>
    BY <1>3 DEF WorldPlayerAdd
  <2> HIDE DEF slot
  <2> QED  BY <1>2, <2>1, <2>2, <2>3
<1>4. CASE WorldPlayerRemove(id)
  <2> DEFINE slot == [old EXCEPT !.incar = "none", !.streamed = FALSE]
  <2>1. slot \in Slots
    BY <1>1, SlotFields
  <2>2. ~slot.streamed /\ slot.name = old.name
    BY <1>1 DEF Slots
  <2>3. playerInfo' = [playerInfo EXCEPT ![id] = slot] /\ UNCHANGED <<me, announced>>
    BY <1>4 DEF WorldPlayerRemove, RemovedSlot
  <2> HIDE DEF slot
  <2> QED  BY <1>2, <2>1, <2>2, <2>3
<1>5. CASE PlayerSync(id) \/ MarkersSync(id)
  <2>1. PICK q \in {"cut", "given"} : playerInfo' = [playerInfo EXCEPT ![id].onfoot = q]
    BY <1>5 DEF PlayerSync, MarkersSync
  <2> DEFINE slot == [old EXCEPT !.onfoot = q]
  <2>2. slot \in Slots
    BY <1>1, SlotFields DEF Positions
  <2>3. slot.onfoot # "none" /\ slot.name = old.name
        /\ slot.streamed = old.streamed /\ slot.incar = old.incar
    BY <1>1 DEF Slots
  <2>4. playerInfo' = [playerInfo EXCEPT ![id] = slot] /\ UNCHANGED <<me, announced>>
    BY <1>5, <2>1 DEF PlayerSync, MarkersSync
  <2> HIDE DEF slot
  <2> QED  BY <1>1, <1>2, <2>2, <2>3, <2>4
<1>6. CASE VehicleSync(id)
  <2>1. PICK q \in {"cut", "given", old.incar} : playerInfo' = [playerInfo EXCEPT ![id].incar = q]
    BY <1>6 DEF VehicleSync
  <2> DEFINE slot == [old EXCEPT !.incar = q]
  <2>2. q \in Positions
    BY <1>1 DEF Slots, Positions
  <2>3. slot \in Slots
    BY <1>1, <2>2, SlotFields
  <2>4. slot.incar = q /\ slot.name = old.name
        /\ slot.streamed = old.streamed /\ slot.onfoot = old.onfoot
    BY <1>1, <2>2 DEF Slots
  <2>5. playerInfo' = [playerInfo EXCEPT ![id] = slot] /\ UNCHANGED <<me, announced>>
    BY <1>6, <2>1 DEF VehicleSync
  <2> HIDE DEF slot
  <2> QED  BY <1>1, <1>2, <2>1, <2>3, <2>4, <2>5
<1> QED  BY <1>3, <1>4, <1>5, <1>6

LEMMA StepKeepsRosterInv == RosterInv /\ [RosterNext]_vars => RosterInv'
<1> SUFFICES ASSUME RosterInv, [RosterNext]_vars PROVE RosterInv'
  OBVIOUS
<1>1. CASE UNCHANGED vars
  BY <1>1 DEF RosterInv, RosterTypeOK, SpeakersNamed, Speaker, StreamedHavePosition,
              NoneAnnouncedYet, JoinTakes, vars
<1>2. CASE RosterNext
  BY <1>2, SessionKeepsRosterInv, NamingKeepsRosterInv, PlacingKeepsRosterInv DEF RosterNext
<1> QED  BY <1>1, <1>2

(* The roster's state keeps its types.                                     *)
THEOREM RosterTypeCorrect == RosterSpec => []RosterTypeOK
<1>1. RosterInv => RosterTypeOK
  BY DEF RosterInv
<1> QED  BY <1>1, RosterInvInitially, StepKeepsRosterInv, PTL DEF RosterSpec

(* Whoever the server has announced speaks under the name it gave last, if *)
(* that name is one a join takes.                                          *)
THEOREM NamesAreCurrent == RosterSpec => []SpeakersNamed
<1>1. RosterInv => SpeakersNamed
  BY DEF RosterInv
<1> QED  BY <1>1, RosterInvInitially, StepKeepsRosterInv, PTL DEF RosterSpec

(* Whoever is streamed in has a position, or what a truncated packet left. *)
THEOREM StreamedArePlaced == RosterSpec => []StreamedHavePosition
<1>1. RosterInv => StreamedHavePosition
  BY DEF RosterInv
<1> QED  BY <1>1, RosterInvInitially, StepKeepsRosterInv, PTL DEF RosterSpec

-----------------------------------------------------------------------------
(* The local player, composed with the roster.                             *)

(* Whoever the spawn machine is about to spawn has been told where.        *)
LocalPlayerInv == g_spawnInfoReceived \/ s_spawnStage \in {"Ready", "Done"} => told

LEMMA LocalPlayerInvInitially == LocalPlayerInit => LocalPlayerInv
  BY DEF LocalPlayerInit, LocalPlayerInv

LEMMA StepKeepsLocalPlayerInv ==
  LocalPlayerInv /\ [LocalPlayerNext]_<<vars, localVars>> => LocalPlayerInv'
<1> SUFFICES ASSUME LocalPlayerInv, [LocalPlayerNext]_<<vars, localVars>> PROVE LocalPlayerInv'
  OBVIOUS
<1> USE DEF LocalPlayerInv, spawnFsm
<1>1. CASE UNCHANGED localVars
  BY <1>1 DEF localVars
<1>2. CASE RosterStep
  BY <1>2 DEF RosterStep, LeaveSession
<1>3. CASE GameModeRestart
  BY <1>3 DEF GameModeRestart
<1>4. ASSUME NEW toggle \in BOOLEAN, ScrTogglePlayerSpectating(toggle) PROVE LocalPlayerInv'
  BY <1>4 DEF ScrTogglePlayerSpectating
<1>5. ASSUME NEW p \in Places,
             RequestClass(p) \/ ScrSetSpawnInfo(p) \/ ScrSetPlayerPos(p) \/ Walk(p)
      PROVE  LocalPlayerInv'
  BY <1>5 DEF RequestClass, ScrSetSpawnInfo, ScrSetPlayerPos, Walk
<1>6. CASE Tick
  BY <1>6 DEF Tick, Paused, AskForClass, AwaitClass, AutoSpawn
<1> QED  BY <1>1, <1>2, <1>3, <1>4, <1>5, <1>6 DEF LocalPlayerNext

(* The local player's own steps leave the roster alone, so every behaviour *)
(* of the two together is one of the roster, with its theorems.            *)
THEOREM LocalPlayerKeepsRoster == LocalPlayerSpec => RosterSpec
<1>1. LocalPlayerInit => RosterInit
  BY DEF LocalPlayerInit
<1>2. [LocalPlayerNext]_<<vars, localVars>> => [RosterNext]_vars
  BY DEF LocalPlayerNext, RosterStep, Tick, GameModeRestart, ScrTogglePlayerSpectating,
         RequestClass, ScrSetSpawnInfo, ScrSetPlayerPos, Walk
<1> QED  BY <1>1, <1>2, PTL DEF LocalPlayerSpec, RosterSpec

(* Wherever the player spawns, is teleported or reports himself, a speaker *)
(* has his name, as SpeakersNamed says it, and whoever is streamed in a    *)
(* position.                                                               *)
THEOREM NamesAndPlacesKept == LocalPlayerSpec => []SpeakersNamed /\ []StreamedHavePosition
BY LocalPlayerKeepsRoster, NamesAreCurrent, StreamedArePlaced, PTL

(* The types of what the local player adds to the roster.                  *)
OwnTypes ==
  /\ iSpawned \in BOOLEAN /\ g_spawnInfoReceived \in BOOLEAN
  /\ s_spawnStage \in {"Idle", "WaitingClass", "Ready", "Done"}
  /\ bIsSpectating \in BOOLEAN /\ told \in BOOLEAN
  /\ SpawnInfo \in Places /\ fNormalModePos \in Places /\ pedAt \in Places
  /\ sent \in Places \cup {Silent}

LEMMA StepKeepsOwnTypes ==
  OwnTypes /\ [LocalPlayerNext]_<<vars, localVars>> => OwnTypes'
<1> SUFFICES ASSUME OwnTypes, [LocalPlayerNext]_<<vars, localVars>> PROVE OwnTypes'
  OBVIOUS
<1> USE DEF OwnTypes
<1>1. CASE UNCHANGED localVars
  BY <1>1 DEF localVars
<1>2. CASE RosterStep
  BY <1>2 DEF RosterStep, LeaveSession, spawnFsm
<1>3. CASE GameModeRestart
  BY <1>3 DEF GameModeRestart
<1>4. ASSUME NEW toggle \in BOOLEAN, ScrTogglePlayerSpectating(toggle) PROVE OwnTypes'
  BY <1>4 DEF ScrTogglePlayerSpectating, sampSpawn, SpawnPlace
<1>5. ASSUME NEW p \in Places,
             RequestClass(p) \/ ScrSetSpawnInfo(p) \/ ScrSetPlayerPos(p) \/ Walk(p)
      PROVE  OwnTypes'
  BY <1>5 DEF RequestClass, ScrSetSpawnInfo, ScrSetPlayerPos, Walk, spawnFsm
<1>6. CASE Tick
  <2>1. /\ iSpawned' \in BOOLEAN /\ g_spawnInfoReceived' \in BOOLEAN
        /\ s_spawnStage' \in {"Idle", "WaitingClass", "Ready", "Done"}
        /\ bIsSpectating' \in BOOLEAN /\ pedAt' \in Places
        /\ told' \in BOOLEAN /\ SpawnInfo' \in Places
    BY <1>6 DEF Tick, Paused, AskForClass, AwaitClass, AutoSpawn, sampSpawn, SpawnPlace, spawnFsm
  <2>2. fNormalModePos' \in Places
    BY <1>6, <2>1 DEF Tick
  <2>3. BodyPlaces \subseteq Places
    BY PlacesAssumption DEF BodyPlaces
  <2>4. sent' \in Places \cup {Silent}
    BY <1>6, <2>3 DEF Tick
  <2> QED  BY <2>1, <2>2, <2>4
<1> QED  BY <1>1, <1>2, <1>3, <1>4, <1>5, <1>6 DEF LocalPlayerNext

(* The local player's state and the roster's keep their types.             *)
THEOREM LocalPlayerTypeCorrect == LocalPlayerSpec => []LocalPlayerTypeOK
<1>1. LocalPlayerInit => OwnTypes
  BY PlacesAssumption DEF LocalPlayerInit, OwnTypes
<1>2. RosterTypeOK /\ OwnTypes => LocalPlayerTypeOK
  BY DEF OwnTypes, LocalPlayerTypeOK
<1> QED
  BY <1>1, <1>2, LocalPlayerKeepsRoster, RosterTypeCorrect, StepKeepsOwnTypes, PTL
  DEF LocalPlayerSpec

(* A spawn puts the ped at the last spawn information, which is of this    *)
(* session unless the spawn ends spectating before any class was answered. *)
THEOREM SpawnsAlwaysWhereTold == LocalPlayerSpec => SpawnsWhereTold
<1> DEFINE Placed == ~iSpawned /\ iSpawned' =>
             pedAt' = SpawnInfo /\ (told \/ s_spawnStage \in {"Idle", "WaitingClass"})
<1>1. LocalPlayerTypeOK /\ LocalPlayerInv /\ [LocalPlayerNext]_<<vars, localVars>>
        => [Placed]_<<vars, localVars>>
  <2> SUFFICES ASSUME LocalPlayerTypeOK, LocalPlayerInv, LocalPlayerNext, ~iSpawned, iSpawned'
               PROVE  pedAt' = SpawnInfo /\ (told \/ s_spawnStage \in {"Idle", "WaitingClass"})
    OBVIOUS
  <2>1. told \/ s_spawnStage \in {"Idle", "WaitingClass"}
    BY DEF LocalPlayerTypeOK, LocalPlayerInv
  <2>2. CASE Tick
    <3>1. AutoSpawn
      BY <2>2 DEF Tick, Paused, AskForClass, AwaitClass, spawnFsm
    <3>2. pedAt' = SpawnInfo
      BY <3>1 DEF AutoSpawn, sampSpawn, SpawnPlace
    <3> QED  BY <2>1, <3>2
  <2>3. ASSUME NEW toggle \in BOOLEAN, ScrTogglePlayerSpectating(toggle) PROVE pedAt' = SpawnInfo
    BY <2>3 DEF ScrTogglePlayerSpectating, sampSpawn, SpawnPlace
  <2>4. CASE RosterStep
    BY <2>4 DEF RosterStep, LeaveSession, spawnFsm
  <2>5. CASE GameModeRestart
    BY <2>5 DEF GameModeRestart
  <2>6. ASSUME NEW p \in Places,
               RequestClass(p) \/ ScrSetSpawnInfo(p) \/ ScrSetPlayerPos(p) \/ Walk(p)
        PROVE  FALSE
    BY <2>6 DEF RequestClass, ScrSetSpawnInfo, ScrSetPlayerPos, Walk, spawnFsm
  <2> QED  BY <2>1, <2>2, <2>3, <2>4, <2>5, <2>6 DEF LocalPlayerNext
<1> QED
  BY <1>1, LocalPlayerTypeCorrect, LocalPlayerInvInitially, StepKeepsLocalPlayerInv, PTL
  DEF LocalPlayerSpec, SpawnsWhereTold

-----------------------------------------------------------------------------
(* LocalPlayer implements SpawnFsm, as NetGame does.                       *)

(* The end of Tick moves the machine by at most one stage.                 *)
LEMMA TickMovesFsm ==
  ASSUME LocalPlayerTypeOK, Tick
  PROVE  [Fsm!Next]_(Fsm!svars)
<1> USE DEF Fsm!svars, Fsm!Next, Fsm!MayAdvance, MayAdvance
<1>1. UNCHANGED <<phase, told>>
  BY DEF Tick, vars
<1>2. CASE Paused
  BY <1>1, <1>2 DEF Paused, spawnFsm
<1>3. CASE AskForClass
  BY <1>1, <1>3 DEF AskForClass, Fsm!Ask
<1>4. CASE AwaitClass
  BY <1>1, <1>4 DEF AwaitClass, Fsm!Answered
<1>5. CASE AutoSpawn
  BY <1>1, <1>5 DEF AutoSpawn, sampSpawn, Fsm!Spawn
<1> QED  BY <1>2, <1>3, <1>4, <1>5 DEF Tick

(* Of the roster's steps it only sees InitGame and the session's end.      *)
LEMMA RosterMovesFsm ==
  ASSUME LocalPlayerTypeOK, RosterStep
  PROVE  [Fsm!Next]_(Fsm!svars)
<1> USE DEF Fsm!svars, Fsm!Next
<1>1. CASE phase' = "out"
  BY <1>1 DEF RosterStep, LeaveSession, Fsm!Leave
<1>2. CASE phase' # "out"
  <2>1. UNCHANGED <<told, iSpawned, s_spawnStage, g_spawnInfoReceived, bIsSpectating>>
    BY <1>2 DEF RosterStep, spawnFsm
  <2>2. phase' = phase \/ (phase # "in" /\ phase' \in {"accepted", "in"})
    BY <1>2 DEF RosterStep, RosterNext, InitGame, Disconnect, BadNickname, ServerQuit,
       WorldPlayerAdd, WorldPlayerRemove, PlayerSync, VehicleSync, MarkersSync,
       ConnectionSucceeded, ServerJoin, ScrSetPlayerName, me
  <2> QED  BY <2>1, <2>2 DEF Fsm!Join
<1> QED  BY <1>1, <1>2

(* Each handler is one step of it, or none.                                *)
LEMMA HandlersMoveFsm ==
  ASSUME LocalPlayerTypeOK,
         \/ GameModeRestart
         \/ \E toggle \in BOOLEAN : ScrTogglePlayerSpectating(toggle)
         \/ \E p \in Places :
              RequestClass(p) \/ ScrSetSpawnInfo(p) \/ ScrSetPlayerPos(p) \/ Walk(p)
  PROVE  [Fsm!Next]_(Fsm!svars)
<1> USE DEF Fsm!svars, Fsm!Next
<1>1. CASE GameModeRestart
  BY <1>1 DEF GameModeRestart, vars, Fsm!GameModeRestart
<1>2. ASSUME NEW toggle \in BOOLEAN, ScrTogglePlayerSpectating(toggle)
      PROVE  [Fsm!Next]_(Fsm!svars)
  <2>1. UNCHANGED <<phase, told, s_spawnStage, g_spawnInfoReceived>> /\ bIsSpectating' = toggle
    BY <1>2 DEF ScrTogglePlayerSpectating, vars
  <2>2. iSpawned \in BOOLEAN /\ bIsSpectating \in BOOLEAN
    BY DEF LocalPlayerTypeOK
  <2>3. iSpawned' = IF bIsSpectating /\ ~toggle THEN TRUE ELSE iSpawned
    BY <1>2, <2>2 DEF ScrTogglePlayerSpectating, sampSpawn
  <2> QED  BY <2>1, <2>2, <2>3 DEF Fsm!Spectate, Fsm!Unspectate
<1>3. ASSUME NEW p \in Places,
             RequestClass(p) \/ ScrSetSpawnInfo(p) \/ ScrSetPlayerPos(p) \/ Walk(p)
      PROVE  [Fsm!Next]_(Fsm!svars)
  BY <1>3 DEF RequestClass, ScrSetSpawnInfo, ScrSetPlayerPos, Walk, vars, spawnFsm,
     Fsm!Granted, Fsm!Informed
<1> QED  BY <1>1, <1>2, <1>3

(* What the places, teleports and packets add changes no step of the spawn *)
(* machine, so NetGame and LocalPlayer speak of the same one.              *)
THEOREM LocalPlayerImplementsTheSpawnFsm == LocalPlayerSpec => ImplementsSpawnFsm
<1>1. LocalPlayerInit => Fsm!Init
  BY DEF LocalPlayerInit, RosterInit, Fsm!Init
<1>2. LocalPlayerTypeOK /\ [LocalPlayerNext]_<<vars, localVars>> => [Fsm!Next]_(Fsm!svars)
  <2> SUFFICES ASSUME LocalPlayerTypeOK, [LocalPlayerNext]_<<vars, localVars>>
               PROVE  [Fsm!Next]_(Fsm!svars)
    OBVIOUS
  <2>1. CASE UNCHANGED <<vars, localVars>>
    BY <2>1 DEF vars, localVars, Fsm!svars
  <2>2. CASE LocalPlayerNext
    BY <2>2, TickMovesFsm, RosterMovesFsm, HandlersMoveFsm DEF LocalPlayerNext
  <2> QED  BY <2>1, <2>2
<1> QED
  BY <1>1, <1>2, LocalPlayerTypeCorrect, PTL DEF LocalPlayerSpec, ImplementsSpawnFsm, Fsm!Spec
=============================================================================
