-------------------------------- MODULE Sync --------------------------------
(***************************************************************************)
(* Outgoing position sync: the end of bridge::Tick and the three senders   *)
(* it reaches (sampraknet_bridge.cpp 3075-3320, 3535-3572).                *)
(*                                                                         *)
(* Every frame in which the local player is in the world, Tick decides by  *)
(* a 50 ms gate of its own whether to send, and by the ped's seat what to  *)
(* send: an in-car packet, or an on-foot packet followed by an aim packet. *)
(* Each sender has a second gate with a rate and a "last sent" tick of its *)
(* own.  All five ticks are GetTickCount() values, DWORDs that come back   *)
(* to 0 after Wrap milliseconds.                                           *)
(*                                                                         *)
(* The several GetTickCount() calls of one frame are taken to return the   *)
(* same tick.  Of the packets' data only the vehicle's id is modelled.     *)
(***************************************************************************)
EXTENDS Integers

CONSTANTS
  Wrap,         \* ticks before GetTickCount() comes back to 0: 2^32
  LoadTick,     \* GetTickCount() when the DLL was loaded
  BodyRate,     \* 50: the gate of Tick
  OnfootRate,   \* 50: iNetModeNormalOnfootSendRate
  IncarRate,    \* 40: iNetModeNormalIncarSendRate
  FiringRate,   \* 40: iNetModeFiringSendRate
  FrameTimes,   \* how long a frame may take
  SilenceCap,   \* bound of the history variable silence
  Vehicles,     \* network ids below MAX_VEHICLES
  NoVehicle     \* INVALID_VEHICLE_ID; also "the ped sits in no vehicle"

ASSUME ClockAssumption ==
  /\ Wrap \in Nat
  /\ LoadTick \in 1 .. Wrap - 1
  /\ FrameTimes \subseteq 1 .. Wrap - 1
ASSUME RateAssumption ==
  /\ BodyRate \in Nat /\ BodyRate < Wrap
  /\ OnfootRate \in 1 .. BodyRate
  /\ IncarRate \in 1 .. BodyRate
  /\ FiringRate \in 1 .. OnfootRate /\ FiringRate < BodyRate
  /\ SilenceCap \in Nat /\ SilenceCap >= 2 * BodyRate
ASSUME WorldAssumption == NoVehicle \notin Vehicles

VARIABLES
  now,                          \* GetTickCount()
  s_lastSyncTick,               \* static of Tick, 0 at load
  dwLastOnFootDataSentTick,
  dwLastInVehicleDataSentTick,
  dwLastAimDataSentTick,
  inWorld,             \* iAreWeConnected, iGameInited, iSpawned, ~bIsSpectating
  g_localVehicleId,    \* the vehicle the server last seated the player in
  pedVehicle,          \* the vehicle the ped drives
  sent                 \* what the last frame sent

(* History, read by no action: how long ago the last body packet left, how *)
(* long the one before it had been gone by then, how long the player has   *)
(* been in the world without one, and whether the clock has wrapped.       *)
VARIABLES sinceBody, bodyGap, silence, wrapped

clocks == <<now, s_lastSyncTick, dwLastOnFootDataSentTick,
            dwLastInVehicleDataSentTick, dwLastAimDataSentTick>>
world  == <<inWorld, g_localVehicleId, pedVehicle>>
history == <<sinceBody, bodyGap, silence, wrapped>>
vars == <<clocks, world, sent, history>>

Ticks == 0 .. Wrap - 1
Nothing == [body |-> "none", vehicle |-> NoVehicle, aim |-> FALSE]
Sendings == [body : {"none", "onfoot", "incar"}, vehicle : Vehicles \cup {NoVehicle},
             aim : BOOLEAN]

TypeOK ==
  /\ now \in Ticks /\ s_lastSyncTick \in Ticks
  /\ dwLastOnFootDataSentTick \in Ticks
  /\ dwLastInVehicleDataSentTick \in Ticks
  /\ dwLastAimDataSentTick \in Ticks
  /\ inWorld \in BOOLEAN
  /\ g_localVehicleId \in Vehicles \cup {NoVehicle}
  /\ pedVehicle \in Vehicles \cup {NoVehicle}
  /\ sent \in Sendings
  /\ sinceBody \in 0 .. BodyRate /\ bodyGap \in 0 .. BodyRate
  /\ silence \in 0 .. SilenceCap /\ wrapped \in BOOLEAN

-----------------------------------------------------------------------------
(* DWORD arithmetic.                                                       *)

PlusUnwrapped(t, d) == t + d                  \* mutant: more than 32 bits
Plus(t, d)  == IF t + d < Wrap THEN t + d ELSE t + d - Wrap
Minus(t, d) == IF t >= d THEN t - d ELSE t - d + Wrap
UpTo(cap, n) == IF n < cap THEN n ELSE cap

(* The gate of SendOnFootFullSyncData and SendAimSyncData, and that of     *)
(* inCarUpdate, which lets a last tick of 0 pass instead of stopping it.   *)
Due(last, t, rate)      == last # 0 /\ last < Minus(t, rate)
InCarDue(last, t, rate) == ~ (last # 0 /\ last >= Minus(t, rate))

Init ==
  /\ now = LoadTick
  /\ s_lastSyncTick = 0
  /\ dwLastOnFootDataSentTick = LoadTick
  /\ dwLastInVehicleDataSentTick = LoadTick
  /\ dwLastAimDataSentTick = LoadTick
  /\ inWorld = FALSE
  /\ g_localVehicleId = NoVehicle
  /\ pedVehicle = NoVehicle
  /\ sent = Nothing
  /\ sinceBody = BodyRate /\ bodyGap = BodyRate /\ silence = 0
  /\ wrapped = FALSE

-----------------------------------------------------------------------------
(* The sync part of Tick at tick t.                                        *)

BodyDue(t)   == Minus(t, s_lastSyncTick) >= BodyRate
DrivesKnown  == pedVehicle # NoVehicle /\ g_localVehicleId \in Vehicles

(* inCarUpdate: addressed to the vehicle of the last seat RPC.             *)
inCarUpdate(t) ==
  /\ \/ /\ InCarDue(dwLastInVehicleDataSentTick, t, IncarRate)
        /\ sent' = [body |-> "incar", vehicle |-> g_localVehicleId, aim |-> FALSE]
        /\ dwLastInVehicleDataSentTick' = t
     \/ /\ ~ InCarDue(dwLastInVehicleDataSentTick, t, IncarRate)
        /\ sent' = Nothing
        /\ UNCHANGED dwLastInVehicleDataSentTick
  /\ UNCHANGED <<dwLastOnFootDataSentTick, dwLastAimDataSentTick>>

(* Mutants: the tick stamped outside the gate, and one tick for both gates. *)
onFootUpdateStamping(t) ==
  LET body == Due(dwLastOnFootDataSentTick, t, OnfootRate)
  IN  /\ sent' = [body |-> IF body THEN "onfoot" ELSE "none", vehicle |-> NoVehicle,
                  aim |-> TRUE]
      /\ dwLastOnFootDataSentTick' = t /\ dwLastAimDataSentTick' = t
      /\ UNCHANGED dwLastInVehicleDataSentTick
onFootUpdateOneTick(t) ==
  LET body == Due(dwLastOnFootDataSentTick, t, OnfootRate)
      last == IF body THEN t ELSE dwLastOnFootDataSentTick
      aim  == Due(last, t, FiringRate)
  IN  /\ sent' = [body |-> IF body THEN "onfoot" ELSE "none", vehicle |-> NoVehicle,
                  aim |-> aim]
      /\ dwLastOnFootDataSentTick' = IF body \/ aim THEN t ELSE last
      /\ UNCHANGED <<dwLastInVehicleDataSentTick, dwLastAimDataSentTick>>

(* SendOnFootFullSyncData, and SendAimSyncData whether or not the body     *)
(* packet left.                                                            *)
onFootUpdateAtNormalPos(t) ==
  LET body == Due(dwLastOnFootDataSentTick, t, OnfootRate)
      aim  == Due(dwLastAimDataSentTick, t, FiringRate)
  IN  /\ sent' = [body    |-> IF body THEN "onfoot" ELSE "none",
                  vehicle |-> NoVehicle,
                  aim     |-> aim]
      /\ dwLastOnFootDataSentTick' = IF body THEN t ELSE dwLastOnFootDataSentTick
      /\ dwLastAimDataSentTick'    = IF aim  THEN t ELSE dwLastAimDataSentTick
      /\ UNCHANGED dwLastInVehicleDataSentTick

(* Mutant: inCarUpdate returns before Tick has stamped its own tick.       *)
SendSyncUnstamped(t) ==
  \/ /\ inWorld /\ BodyDue(t) /\ DrivesKnown
     /\ inCarUpdate(t) /\ UNCHANGED s_lastSyncTick
  \/ /\ inWorld /\ BodyDue(t) /\ ~ DrivesKnown
     /\ onFootUpdateAtNormalPos(t) /\ s_lastSyncTick' = t
  \/ /\ ~ (inWorld /\ BodyDue(t)) /\ sent' = Nothing
     /\ UNCHANGED <<s_lastSyncTick, dwLastOnFootDataSentTick,
                    dwLastInVehicleDataSentTick, dwLastAimDataSentTick>>

SendSync(t) ==
  \/ /\ inWorld /\ BodyDue(t) /\ DrivesKnown
     /\ inCarUpdate(t)
     /\ s_lastSyncTick' = t
  \/ /\ inWorld /\ BodyDue(t) /\ ~ DrivesKnown
     /\ onFootUpdateAtNormalPos(t)
     /\ s_lastSyncTick' = t
  \/ /\ ~ (inWorld /\ BodyDue(t))
     /\ sent' = Nothing
     /\ UNCHANGED <<s_lastSyncTick, dwLastOnFootDataSentTick,
                    dwLastInVehicleDataSentTick, dwLastAimDataSentTick>>

Record(dt) ==
  LET gap   == UpTo(BodyRate, sinceBody + dt)
      quiet == IF inWorld THEN UpTo(SilenceCap, silence + dt) ELSE 0
  IN  IF sent'.body # "none"
      THEN sinceBody' = 0 /\ bodyGap' = gap /\ silence' = 0
      ELSE sinceBody' = gap /\ bodyGap' = bodyGap /\ silence' = quiet

(* A frame of dt milliseconds ends in a Tick.                              *)
Frame(dt) ==
  /\ now' = Plus(now, dt)
  /\ wrapped' = (wrapped \/ now + dt >= Wrap)
  /\ SendSync(now')
  /\ Record(dt)
  /\ UNCHANGED world

-----------------------------------------------------------------------------
(* What happens between two frames: the player spawns, spectates or loses  *)
(* the session; the ped gets in or out of a vehicle by itself; and RPCs 70 *)
(* and 71 only record the server's seat.                                   *)

Between == UNCHANGED <<clocks, sent, sinceBody, bodyGap, wrapped>>

EnterWorld ==
  /\ ~ inWorld /\ inWorld' = TRUE
  /\ silence' = 0
  /\ Between /\ UNCHANGED <<g_localVehicleId, pedVehicle>>

LeaveWorld ==
  /\ inWorld /\ inWorld' = FALSE
  /\ silence' = 0
  /\ Between /\ UNCHANGED <<g_localVehicleId, pedVehicle>>

PedSits(v) ==
  /\ pedVehicle' = v
  /\ Between /\ UNCHANGED <<inWorld, g_localVehicleId, silence>>

ScrPutPlayerInVehicle(v) ==
  /\ g_localVehicleId' = v
  /\ Between /\ UNCHANGED <<inWorld, pedVehicle, silence>>

ScrRemovePlayerFromVehicle ==
  /\ g_localVehicleId' = NoVehicle
  /\ Between /\ UNCHANGED <<inWorld, pedVehicle, silence>>

Next ==
  \/ \E dt \in FrameTimes : Frame(dt)
  \/ EnterWorld \/ LeaveWorld
  \/ \E v \in Vehicles \cup {NoVehicle} : PedSits(v)
  \/ \E v \in Vehicles : ScrPutPlayerInVehicle(v)
  \/ ScrRemovePlayerFromVehicle

Spec == Init /\ [][Next]_vars

-----------------------------------------------------------------------------
(* Two body packets are never closer than the 50 ms of Tick's gate, by the *)
(* true time between them: also when one was in-car and the other on foot, *)
(* across a respawn, and when GetTickCount() wraps between the two.        *)
BodyPaced == bodyGap >= BodyRate

(* Until the clock wraps, a player in the world is never silent for twice  *)
(* the rate at the end of a frame: two gates in a row may refuse one       *)
(* sending, never two, whatever the frame times and however the player     *)
(* changes between foot and car.                                           *)
SilenceBounded == ~ wrapped => silence < 2 * BodyRate

(* Until the clock wraps, every on-foot packet has its aim packet: the two *)
(* gates, with ticks and rates of their own, never drift apart.            *)
AimFollowsBody == ~ wrapped /\ sent.body = "onfoot" => sent.aim

(* "otherwise fall back to on-foot sync (also covers walking into a car    *)
(* ourselves)": an in-car packet names the vehicle the ped drives.         *)
DrivenVehicle == [][sent'.body = "incar" => sent'.vehicle = pedVehicle]_vars
=============================================================================
