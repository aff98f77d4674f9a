------------------------------ MODULE WorldProofs ------------------------------
(***************************************************************************)
(* For days and hours of any length, any models and any number of          *)
(* sessions: what the player sees is the time this session's server gave,  *)
(* and what he wears is the skin it ordered for him, swapped only to       *)
(* models that were loaded.                                                *)
(***************************************************************************)
EXTENDS World, TLAPS

-----------------------------------------------------------------------------
(* The clock alone.                                                        *)

(* What this session's server gave is what g_world holds, whatever it held *)
(* before; and the last tick of a session left the clock at it.            *)
GivenIsKept ==
  /\ said.hour # Unsaid => serverTimeKnown /\ worldTimeHour = said.hour
  /\ said.minute # Unsaid => said.hour # Unsaid /\ worldTimeMinute = said.minute

SeenIsKept ==
  /\ Seen /\ serverTimeKnown
  /\ worldTimeHour \in 0 .. LastHour /\ worldTimeMinute \in 0 .. LastMinute
  => hour = worldTimeHour /\ minute = worldTimeMinute

ClockInv == WorldClockTypeOK /\ GivenIsKept /\ SeenIsKept

LEMMA UnsaidIsNoTime == Unsaid \notin HourBytes /\ Unsaid \notin MinuteBytes
  BY WorldClockAssumption DEF Unsaid, HourBytes, MinuteBytes

LEMMA SetWorldTimeIsTime ==
  ASSUME NEW h, NEW m, SetWorldTime(h, m),
         hour \in 0 .. LastHour, minute \in 0 .. LastMinute
  PROVE  hour' \in 0 .. LastHour /\ minute' \in 0 .. LastMinute
  BY DEF SetWorldTime, clock

LEMMA NextMinuteIsTime ==
  ASSUME NextMinute, hour \in 0 .. LastHour, minute \in 0 .. LastMinute
  PROVE  hour' \in 0 .. LastHour /\ minute' \in 0 .. LastMinute
  BY WorldClockAssumption DEF NextMinute

LEMMA ClockInvInitially == WorldClockInit => ClockInv
<1> SUFFICES ASSUME WorldClockInit PROVE ClockInv
  OBVIOUS
<1>1. said \in [hour : HourBytes \cup {Unsaid}, minute : MinuteBytes \cup {Unsaid}]
  BY DEF WorldClockInit, NothingSaid
<1>2. 0 \in 0 .. LastMinute /\ 0 \in MinuteBytes
      /\ worldTimeHour \in HourBytes
  BY WorldClockAssumption DEF WorldClockInit, MinuteBytes, HourBytes
<1>3. WorldClockTypeOK
  BY <1>1, <1>2 DEF WorldClockInit, WorldClockTypeOK
<1>4. GivenIsKept /\ SeenIsKept
  BY DEF WorldClockInit, GivenIsKept, SeenIsKept, Seen, NothingSaid
<1> QED  BY <1>3, <1>4 DEF ClockInv

LEMMA StepKeepsClockInv == ClockInv /\ [WorldClockNext]_vars => ClockInv'
<1> SUFFICES ASSUME ClockInv, [WorldClockNext]_vars PROVE ClockInv'
  OBVIOUS
<1> USE DEF ClockInv
<1>1. CASE UNCHANGED vars
  BY <1>1 DEF vars, WorldClockTypeOK, GivenIsKept, SeenIsKept, Seen
<1>2. CASE CGameProcess
  <2>1. hour' \in 0 .. LastHour /\ minute' \in 0 .. LastMinute
    BY <1>2, NextMinuteIsTime DEF CGameProcess, clock, WorldClockTypeOK
  <2>2. WorldClockTypeOK'
    BY <1>2, <2>1 DEF CGameProcess, WorldClockTypeOK, g_world
  <2>3. GivenIsKept' /\ SeenIsKept'
    BY <1>2 DEF CGameProcess, GivenIsKept, SeenIsKept, Seen, g_world
  <2> QED  BY <2>2, <2>3
<1>3. CASE Accepted
  <2>2. said' \in [hour : HourBytes \cup {Unsaid}, minute : MinuteBytes \cup {Unsaid}]
    BY <1>3 DEF Accepted, NothingSaid
  <2>3. WorldClockTypeOK'
    BY <1>3, <2>2 DEF Accepted, WorldClockTypeOK, g_world, clock
  <2>4. GivenIsKept' /\ SeenIsKept'
    BY <1>3 DEF Accepted, NothingSaid, GivenIsKept, SeenIsKept, Seen
  <2> QED  BY <2>3, <2>4
<1>4. CASE Disconnect
  BY <1>4 DEF Disconnect, WorldClockTypeOK, GivenIsKept, SeenIsKept, Seen, g_world, clock
<1>5. CASE EndTick
  <2>1. hour' \in 0 .. LastHour /\ minute' \in 0 .. LastMinute
    BY <1>5, SetWorldTimeIsTime DEF EndTick, clock, WorldClockTypeOK
  <2>2. WorldClockTypeOK'
    BY <1>5, <2>1 DEF EndTick, WorldClockTypeOK, g_world
  <2>3. GivenIsKept'
    BY <1>5 DEF EndTick, GivenIsKept, g_world
  <2>4. SeenIsKept'
    BY <1>5 DEF EndTick, Pins, SetWorldTime, SeenIsKept, Seen, g_world
  <2> QED  BY <2>2, <2>3, <2>4
<1>6. CASE InitGame
  BY <1>6 DEF InitGame, WorldClockTypeOK, GivenIsKept, SeenIsKept, Seen, g_world, clock
<1>7. ASSUME NEW h \in HourBytes, WorldTime(h) PROVE ClockInv'
  <2>1. said' \in [hour : HourBytes \cup {Unsaid}, minute : MinuteBytes \cup {Unsaid}]
        /\ said'.hour = h /\ said'.minute = said.minute
    BY <1>7 DEF WorldTime, WorldClockTypeOK
  <2>2. hour' \in 0 .. LastHour /\ minute' \in 0 .. LastMinute
    BY <1>7, SetWorldTimeIsTime DEF WorldTime, WorldClockTypeOK
  <2>3. WorldClockTypeOK'
    BY <1>7, <2>1, <2>2 DEF WorldTime, WorldClockTypeOK
  <2>4. GivenIsKept'
    BY <1>7, <2>1, UnsaidIsNoTime DEF WorldTime, GivenIsKept
  <2>5. SeenIsKept'
    BY <1>7 DEF WorldTime, SeenIsKept, Seen
  <2> QED  BY <2>3, <2>4, <2>5
<1>8. ASSUME NEW h \in HourBytes, NEW m \in MinuteBytes, SetTimeEx(h, m) PROVE ClockInv'
  <2>1. said' \in [hour : HourBytes \cup {Unsaid}, minute : MinuteBytes \cup {Unsaid}]
        /\ said'.hour = h /\ said'.minute = m
    BY <1>8 DEF SetTimeEx, WorldClockTypeOK
  <2>2. hour' \in 0 .. LastHour /\ minute' \in 0 .. LastMinute
    BY <1>8, SetWorldTimeIsTime DEF SetTimeEx, WorldClockTypeOK
  <2>3. WorldClockTypeOK'
    BY <1>8, <2>1, <2>2 DEF SetTimeEx, WorldClockTypeOK
  <2>4. GivenIsKept'
    BY <1>8, <2>1, UnsaidIsNoTime DEF SetTimeEx, GivenIsKept
  <2>5. SeenIsKept'
    BY <1>8 DEF SetTimeEx, SeenIsKept, Seen
  <2> QED  BY <2>3, <2>4, <2>5
<1> QED  BY <1>1, <1>2, <1>3, <1>4, <1>5, <1>6, <1>7, <1>8 DEF WorldClockNext

LEMMA KeptIsPinned == ClockInv => ClockPinned
<1> SUFFICES ASSUME ClockInv, Seen, said.hour \in 0 .. LastHour
             PROVE  /\ said.minute \in 0 .. LastMinute
                         => hour = said.hour /\ minute = said.minute
                    /\ worldTimeMinute \in 0 .. LastMinute => hour = said.hour
  BY DEF ClockPinned
<1>1. said.hour # Unsaid /\ \A m \in 0 .. LastMinute : m # Unsaid
  BY DEF Unsaid
<1>2. serverTimeKnown /\ worldTimeHour = said.hour
  BY <1>1 DEF ClockInv, GivenIsKept
<1>3. said.minute \in 0 .. LastMinute => worldTimeMinute = said.minute
  BY <1>1 DEF ClockInv, GivenIsKept
<1> QED  BY <1>2, <1>3 DEF ClockInv, SeenIsKept

-----------------------------------------------------------------------------
(* The two together: every step of the composition is one of the clock's   *)
(* or leaves it alone.                                                     *)

LEMMA WorldStepsAreClocks == [WorldNext]_worldVars => [WorldClockNext]_vars
<1> SUFFICES ASSUME [WorldNext]_worldVars PROVE [WorldClockNext]_vars
  OBVIOUS
<1>1. CASE UNCHANGED worldVars
  BY <1>1 DEF worldVars
<1>2. CASE ClockStep
  BY <1>2 DEF ClockStep, WorldClockNext
<1>3. CASE Stream \/ OnGameReadyOnce
  BY <1>3 DEF Stream, OnGameReadyOnce
<1>4. CASE SessionEnds
  BY <1>4 DEF SessionEnds, WorldClockNext
<1>5. ASSUME NEW id \in PlayerIds, SessionBegins(id) PROVE WorldClockNext
  BY <1>5 DEF SessionBegins, WorldClockNext
<1>6. ASSUME NEW id \in PlayerIds, NEW uiSkin \in Models \cup {Huge}, ScrSetPlayerSkin(id, uiSkin)
      PROVE  UNCHANGED vars
  BY <1>6 DEF ScrSetPlayerSkin
<1> QED  BY <1>1, <1>2, <1>3, <1>4, <1>5, <1>6 DEF WorldNext

(* The composed world is a world clock.                                    *)
THEOREM WorldImplementsClock == WorldSpec => WorldClockSpec
<1>1. WorldInit => WorldClockInit
  BY DEF WorldInit
<1> QED  BY <1>1, WorldStepsAreClocks, PTL DEF WorldSpec, WorldClockSpec

(* A time of day, or an hour, that this session's server has given is what *)
(* the player sees.                                                        *)
THEOREM ServerTimeIsSeen == WorldSpec => []ClockPinned
<1>1. WorldClockSpec => []ClockInv
  BY ClockInvInitially, StepKeepsClockInv, PTL DEF WorldClockSpec
<1> QED  BY <1>1, WorldImplementsClock, KeptIsPinned, PTL

-----------------------------------------------------------------------------
(* The skin.  Whatever EnsureModelLoaded says yes to is loaded and         *)
(* positive, and it never takes a model out.                               *)

LEMMA LoadKeepsAndTells ==
  ASSUME NEW m \in Int, NEW before, NEW load \in EnsureModelLoaded(m, before)
  PROVE  /\ load.ok => m > 0 /\ m \in load.loaded
         /\ m > 0 /\ m \in load.loaded => load.ok
         /\ load.loaded \subseteq before \cup {m}
         /\ ~ load.ok => load.loaded = before
  BY DEF EnsureModelLoaded

(* Nobody is in a session before the boot swap, and no order is kept over  *)
(* from the session before.                                                *)
OrderOfSession ==
  /\ link \in {"out", "accepted", "in"}
  /\ link # "out" => allow_chat
  /\ link = "accepted" => told = Untold

SkinInv == SkinTypeOK /\ OrderOfSession /\ WearsOwnOrder

LEMMA SkinsAreIntegers == Models \cup {Huge} \subseteq Int /\ BootSkin \in Models
  BY WorldAssumption DEF Huge

LEMMA SkinInvInitially == WorldInit => SkinInv
<1> SUFFICES ASSUME WorldInit PROVE SkinInv
  OBVIOUS
<1>1. SkinTypeOK
  BY WorldAssumption DEF WorldInit, SkinTypeOK
<1>2. OrderOfSession /\ WearsOwnOrder
  BY DEF WorldInit, WorldClockInit, OrderOfSession, WearsOwnOrder
<1> QED  BY <1>1, <1>2 DEF SkinInv

LEMMA BootSwapKeepsSkinInv == SkinInv /\ OnGameReadyOnce => SkinInv'
<1> SUFFICES ASSUME SkinInv, OnGameReadyOnce PROVE SkinInv'
  OBVIOUS
<1>1. PICK load \in EnsureModelLoaded(BootSkin, loaded) :
        loaded' = load.loaded /\ modelIndex' = BootSkin
  BY DEF OnGameReadyOnce, SafeSetPlayerPedModel
<1>2. load.loaded \subseteq loaded \cup {BootSkin}
  BY LoadKeepsAndTells, SkinsAreIntegers
<1>3. SkinTypeOK'
  BY <1>1, <1>2, SkinsAreIntegers DEF OnGameReadyOnce, SkinInv, SkinTypeOK
<1>4. link' = "out"
  BY DEF OnGameReadyOnce, SkinInv, OrderOfSession, vars
<1>5. OrderOfSession' /\ WearsOwnOrder'
  BY <1>4 DEF OrderOfSession, WearsOwnOrder
<1> QED  BY <1>3, <1>5 DEF SkinInv

(* A heeded order swaps to its own skin, loaded; any other leaves the ped. *)
LEMMA OrderSwaps ==
  ASSUME SkinInv, NEW id \in PlayerIds, NEW uiSkin \in Models \cup {Huge},
         ScrSetPlayerSkin(id, uiSkin)
  PROVE  /\ SkinInv'
         /\ modelIndex' # modelIndex => modelIndex' \in loaded'
<1>0. uiSkin \in Int /\ Huge \notin Models
  BY SkinsAreIntegers, WorldAssumption DEF Huge
<1>1. PICK load \in EnsureModelLoaded(uiSkin, loaded) :
        /\ \/ Addressed(id) /\ Heeded(load) /\ SafeSetPlayerPedModel(uiSkin, load.loaded)
           \/ Addressed(id) /\ ~ Heeded(load) /\ loaded' = load.loaded /\ UNCHANGED modelIndex
           \/ ~ Addressed(id) /\ UNCHANGED <<loaded, modelIndex>>
        /\ told' = IF link = "in" /\ id = g_myPlayerID /\ uiSkin \in load.loaded
                   THEN uiSkin ELSE told
  BY DEF ScrSetPlayerSkin
<1>2. /\ load.ok => uiSkin > 0 /\ uiSkin \in load.loaded
      /\ uiSkin > 0 /\ uiSkin \in load.loaded => load.ok
      /\ load.loaded \subseteq loaded \cup {uiSkin}
      /\ ~ load.ok => load.loaded = loaded
  BY <1>0, <1>1, LoadKeepsAndTells
<1>3. loaded \subseteq Models /\ Huge \notin loaded
  BY <1>0 DEF SkinInv, SkinTypeOK
<1>4. load.ok => uiSkin \in Models
  BY <1>2, WorldAssumption DEF Huge
<1>5. uiSkin \in load.loaded => uiSkin \in Models
  BY <1>2, <1>3, <1>4
<1>6. load.loaded \subseteq Models
  BY <1>2, <1>3, <1>4
<1>7. told' \in Models \cup {Untold} /\ link' = link /\ g_myPlayerID' = g_myPlayerID
      /\ allow_chat' = allow_chat
  BY <1>1, <1>5 DEF SkinInv, SkinTypeOK, ScrSetPlayerSkin, vars
<1>8. CASE Addressed(id) /\ Heeded(load) /\ SafeSetPlayerPedModel(uiSkin, load.loaded)
  <2>1. PICK again \in EnsureModelLoaded(uiSkin, load.loaded) :
          loaded' = again.loaded /\ modelIndex' = uiSkin
    BY <1>8 DEF SafeSetPlayerPedModel
  <2>2. uiSkin > 0 /\ uiSkin \in load.loaded
    BY <1>8, <1>2 DEF Heeded
  <2>3. again.loaded = load.loaded
    BY <2>2, <1>0, LoadKeepsAndTells DEF EnsureModelLoaded
  <2>4. SkinTypeOK'
    BY <1>7, <1>6, <2>1, <2>2, <2>3, <1>5 DEF SkinInv, SkinTypeOK
  <2>5. told' = uiSkin /\ link = "in"
    BY <1>8, <1>1, <2>2 DEF Addressed
  <2> QED  BY <1>7, <2>1, <2>2, <2>3, <2>4, <2>5 DEF SkinInv, OrderOfSession, WearsOwnOrder
<1>9. CASE Addressed(id) /\ ~ Heeded(load) /\ loaded' = load.loaded /\ UNCHANGED modelIndex
  <2>1. SkinTypeOK'
    BY <1>9, <1>7, <1>6 DEF SkinInv, SkinTypeOK
  <2>2. link = "in" /\ (told' = told \/ ~ (told' > 0))
    BY <1>9, <1>1, <1>2, <1>0 DEF Addressed, Heeded
  <2> QED  BY <1>9, <1>7, <2>1, <2>2 DEF SkinInv, OrderOfSession, WearsOwnOrder
<1>10. CASE ~ Addressed(id) /\ UNCHANGED <<loaded, modelIndex>>
  <2>1. told' = told
    BY <1>10, <1>1 DEF Addressed
  <2> QED
    BY <1>10, <1>7, <2>1 DEF SkinInv, SkinTypeOK, OrderOfSession, WearsOwnOrder
<1> QED  BY <1>1, <1>8, <1>9, <1>10

LEMMA StepKeepsSkinInv == SkinInv /\ [WorldNext]_worldVars => SkinInv'
<1> SUFFICES ASSUME SkinInv, [WorldNext]_worldVars PROVE SkinInv'
  OBVIOUS
<1>1. CASE UNCHANGED worldVars
  BY <1>1 DEF worldVars, vars, skin, SkinInv, SkinTypeOK, OrderOfSession, WearsOwnOrder
<1>2. CASE ClockStep
  <2>1. UNCHANGED skin /\ (link' = link \/ (link # "out" /\ link' = "in"))
    BY <1>2 DEF ClockStep, CGameProcess, InitGame, EndTick, WorldTime, SetTimeEx
  <2>2. SkinTypeOK' /\ OrderOfSession'
    BY <2>1 DEF skin, SkinInv, SkinTypeOK, OrderOfSession
  <2>3. WearsOwnOrder'
    <3>1. CASE link' = link
      BY <3>1, <2>1 DEF skin, SkinInv, WearsOwnOrder
    <3>2. CASE link = "accepted"
      BY <3>2, <2>1 DEF skin, SkinInv, OrderOfSession, WearsOwnOrder, Untold
    <3>3. link' = link \/ link = "accepted"
      BY <2>1 DEF SkinInv, OrderOfSession
    <3> QED  BY <3>1, <3>2, <3>3
  <2> QED  BY <2>1, <2>2, <2>3 DEF SkinInv
<1>3. CASE Stream
  BY <1>3 DEF Stream, vars, SkinInv, SkinTypeOK, OrderOfSession, WearsOwnOrder
<1>4. CASE OnGameReadyOnce
  BY <1>4, BootSwapKeepsSkinInv
<1>5. CASE SessionEnds
  BY <1>5 DEF SessionEnds, Disconnect, SkinInv, SkinTypeOK, OrderOfSession, WearsOwnOrder
<1>6. ASSUME NEW id \in PlayerIds, SessionBegins(id) PROVE SkinInv'
  BY <1>6 DEF SessionBegins, Accepted, SkinInv, SkinTypeOK, OrderOfSession, WearsOwnOrder
<1>7. ASSUME NEW id \in PlayerIds, NEW uiSkin \in Models \cup {Huge}, ScrSetPlayerSkin(id, uiSkin)
      PROVE  SkinInv'
  BY <1>7, OrderSwaps
<1> QED  BY <1>1, <1>2, <1>3, <1>4, <1>5, <1>6, <1>7 DEF WorldNext

(* The player wears what was ordered for him.                              *)
THEOREM OrdersAreWorn == WorldSpec => []WearsOwnOrder
<1>1. SkinInv => WearsOwnOrder
  BY DEF SkinInv
<1> QED  BY <1>1, SkinInvInitially, StepKeepsSkinInv, PTL DEF WorldSpec

(* No swap within a session is to a model that is not loaded.              *)
THEOREM SessionSwapsAreLoaded == WorldSpec => ServerSwapsLoaded
<1>1. SkinInv /\ [WorldNext]_worldVars
        => [link # "out" /\ modelIndex' # modelIndex => modelIndex' \in loaded']_worldVars
  <2> SUFFICES ASSUME SkinInv, WorldNext, link # "out", modelIndex' # modelIndex
               PROVE  modelIndex' \in loaded'
    BY DEF worldVars
  <2>1. CASE ClockStep \/ Stream \/ SessionEnds
    BY <2>1 DEF ClockStep, skin, Stream, SessionEnds
  <2>2. CASE OnGameReadyOnce
    BY <2>2 DEF OnGameReadyOnce, SkinInv, OrderOfSession
  <2>3. ASSUME NEW id \in PlayerIds, SessionBegins(id) PROVE FALSE
    BY <2>3 DEF SessionBegins, Accepted
  <2>4. ASSUME NEW id \in PlayerIds, NEW uiSkin \in Models \cup {Huge},
               ScrSetPlayerSkin(id, uiSkin)
        PROVE  modelIndex' \in loaded'
    BY <2>4, OrderSwaps
  <2> QED  BY <2>1, <2>2, <2>3, <2>4 DEF WorldNext
<1>2. WorldSpec => []SkinInv
  BY SkinInvInitially, StepKeepsSkinInv, PTL DEF WorldSpec
<1> QED  BY <1>1, <1>2, PTL DEF WorldSpec, ServerSwapsLoaded
=============================================================================
