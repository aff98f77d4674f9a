--------------------------------- MODULE World ---------------------------------
(***************************************************************************)
(* What the server dresses the session in: its time of day (WorldClock)    *)
(* and the model the player's ped wears.  The model is swapped once at     *)
(* boot (hooks.cpp) and then on the server's SetPlayerSkin                 *)
(* (sampraknet_bridge.cpp), both on a blocking load (game/game.h), while   *)
(* the game streams models in and out between two ticks.                   *)
(*                                                                         *)
(* The two share the session and the game's thread: nobody connects before *)
(* the boot swap, and no RPC is handled outside the tick.  The models      *)
(* ordered exist; the ped stays alive.  What the swap does to tasks, clump *)
(* and sound is left out, and so is the rebuild it requests: it is called  *)
(* for model 0 alone, which no swap sets, and patches.cpp has turned       *)
(* CClothes::RebuildPlayer into a return.                                  *)
(***************************************************************************)
EXTENDS WorldClock

CONSTANTS
  Models,        \* model ids; 0 is the "player" model the game starts with
  BootSkin,      \* 7
  PlayerIds

ASSUME WorldAssumption ==
  0 \in Models /\ Models \subseteq Nat /\ BootSkin \in Models \ {0} /\ PlayerIds \subseteq Nat

Nobody == -1           \* g_myPlayerID between sessions
Huge == -1             \* a skin of 2^31 or more, once cast to int
Untold == -2

VARIABLES
  allow_chat,      \* set by the boot swap; there is no way to connect before
  loaded,          \* the models streaming has in memory
  modelIndex,      \* the ped's m_modelIndex
  g_myPlayerID,
  told             \* the server's side: the skin of its last order to this
                   \* player in game whose model was there to be worn

skin == <<allow_chat, loaded, modelIndex, g_myPlayerID, told>>
worldVars == <<vars, skin>>

SkinTypeOK ==
  /\ allow_chat \in BOOLEAN
  /\ loaded \subseteq Models /\ modelIndex \in Models
  /\ g_myPlayerID \in PlayerIds \cup {Nobody}
  /\ told \in Models \cup {Untold}

WorldInit ==
  /\ WorldClockInit
  /\ allow_chat = FALSE /\ loaded = {0} /\ modelIndex = 0
  /\ g_myPlayerID = Nobody /\ told = Untold

-----------------------------------------------------------------------------
(* Streaming, in CGame::Process: it drops any model nobody wears and loads *)
(* what it likes.                                                          *)
Stream ==
  /\ thread = "game"
  /\ \E m \in Models : loaded' = loaded \cup {m} \/ (m # modelIndex /\ loaded' = loaded \ {m})
  /\ UNCHANGED <<vars, allow_chat, modelIndex, g_myPlayerID, told>>

(* The load's answer, and what is loaded after it: it may not be done when *)
(* the 200 looks are over.  A model that is not positive is refused, there *)
(* or not.                                                                 *)
EnsureModelLoadedHopeful(m, before) ==       \* mutant: a time-out is no failure
  IF m <= 0 THEN {[ok |-> FALSE, loaded |-> before]}
  ELSE {[ok |-> TRUE, loaded |-> before], [ok |-> TRUE, loaded |-> before \cup {m}]}
EnsureModelLoaded(m, before) ==
  CASE m <= 0 -> {[ok |-> FALSE, loaded |-> before]}
    [] m > 0 /\ m \in before -> {[ok |-> TRUE, loaded |-> before]}
    [] OTHER -> {[ok |-> FALSE, loaded |-> before], [ok |-> TRUE, loaded |-> before \cup {m}]}

(* The swap loads once more, and goes on whatever the answer.              *)
SafeSetPlayerPedModel(m, before) ==
  \E load \in EnsureModelLoaded(m, before) : loaded' = load.loaded /\ modelIndex' = m

(* TickGameReady, in Present.                                              *)
OnGameReadyOnce ==
  /\ thread = "game" /\ ~ allow_chat /\ allow_chat' = TRUE
  /\ SafeSetPlayerPedModel(BootSkin, loaded)
  /\ UNCHANGED <<vars, g_myPlayerID, told>>

-----------------------------------------------------------------------------
(* The session.                                                            *)

SessionBegins(id) ==
  /\ allow_chat /\ Accepted
  /\ g_myPlayerID' = id /\ told' = Untold
  /\ UNCHANGED <<allow_chat, loaded, modelIndex>>

SessionEnds ==
  /\ Disconnect
  /\ g_myPlayerID' = Nobody
  /\ UNCHANGED <<allow_chat, loaded, modelIndex, told>>

(* The order is for one player and left aside before InitGame; the model   *)
(* is loaded before the swap, which is left out if it cannot be.           *)
AddressedInGame(id) == link = "in"           \* mutant: anybody's order
Addressed(id) == link = "in" /\ g_myPlayerID = id

HeededAnyway(load) == TRUE                   \* mutant: the answer is ignored
Heeded(load) == load.ok

ScrSetPlayerSkin(id, uiSkin) ==
  /\ thread = "tick" /\ link # "out"
  /\ \E load \in EnsureModelLoaded(uiSkin, loaded) :
       /\ \/ Addressed(id) /\ Heeded(load) /\ SafeSetPlayerPedModel(uiSkin, load.loaded)
          \/ Addressed(id) /\ ~ Heeded(load) /\ loaded' = load.loaded /\ UNCHANGED modelIndex
          \/ ~ Addressed(id) /\ UNCHANGED <<loaded, modelIndex>>
       /\ told' = IF link = "in" /\ id = g_myPlayerID /\ uiSkin \in load.loaded
                  THEN uiSkin ELSE told
  /\ UNCHANGED <<vars, allow_chat, g_myPlayerID>>

(* What concerns the clock alone.                                          *)
ClockStep ==
  /\ \/ CGameProcess \/ InitGame \/ EndTick
     \/ \E h \in HourBytes : WorldTime(h) \/ \E m \in MinuteBytes : SetTimeEx(h, m)
  /\ UNCHANGED skin

WorldNext ==
  \/ ClockStep \/ Stream \/ OnGameReadyOnce \/ SessionEnds
  \/ \E id \in PlayerIds :
       SessionBegins(id) \/ \E uiSkin \in Models \cup {Huge} : ScrSetPlayerSkin(id, uiSkin)

WorldSpec == WorldInit /\ [][WorldNext]_worldVars

-----------------------------------------------------------------------------
(* In a session the ped is never swapped to a model that is not loaded,    *)
(* the crash EnsureModelLoaded is there to avoid: the swap itself asks     *)
(* again but does not look at the answer, and the boot swap has no other.  *)
ServerSwapsLoaded ==
  [][link # "out" /\ modelIndex' # modelIndex => modelIndex' \in loaded']_worldVars

(* The player wears the last skin ordered for him in this session that was *)
(* to be had, across orders to others, orders that fail and models that    *)
(* streaming takes out.  (Model 0 is refused even where it is loaded.)     *)
WearsOwnOrder == link = "in" /\ told > 0 => modelIndex = told
=============================================================================
