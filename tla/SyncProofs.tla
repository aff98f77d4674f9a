----------------------------- MODULE SyncProofs -----------------------------
(***************************************************************************)
(* Proofs about Sync: types and pacing for every clock, wrapping or not;   *)
(* bounded silence and paired aim packets until it wraps.                  *)
(***************************************************************************)
EXTENDS Sync, TLAPS

(* The gap since the last body packet is at least what Tick's gate sees.   *)
PaceInv ==
  /\ sinceBody >= UpTo(BodyRate, Minus(now, s_lastSyncTick))
  /\ bodyGap >= BodyRate

(* Before a wrap: the order of the ticks, and how silence is bounded by    *)
(* each of them.                                                           *)
OrderInv ==
  /\ s_lastSyncTick <= now
  /\ dwLastOnFootDataSentTick \in LoadTick .. now
  /\ dwLastInVehicleDataSentTick \in LoadTick .. now
  /\ dwLastAimDataSentTick # 0
  /\ dwLastAimDataSentTick <= s_lastSyncTick \/ dwLastAimDataSentTick = LoadTick

QuietInv ==
  /\ silence <= now - dwLastOnFootDataSentTick
  /\ silence <= now - dwLastInVehicleDataSentTick
  /\ silence <= (now - s_lastSyncTick) + BodyRate
  /\ silence < 2 * BodyRate

-----------------------------------------------------------------------------
(* What one frame does to the ticks, with its three ways out.              *)

(* DWORD additions and subtractions of ticks are ticks.                    *)
LEMMA TickArithmetic ==
  ASSUME NEW t \in Ticks, NEW d \in Ticks
  PROVE  Plus(t, d) \in Ticks /\ Minus(t, d) \in Ticks
BY ClockAssumption DEF Ticks, Plus, Minus

(* A frame moves the clock to another tick.                                *)
LEMMA FrameTick ==
  ASSUME TypeOK, NEW dt \in FrameTimes, Frame(dt)
  PROVE  dt \in 1 .. Wrap - 1 /\ now' \in Ticks /\ now' = Plus(now, dt)
<1>1. dt \in 1 .. Wrap - 1
  BY ClockAssumption
<1>2. now \in Ticks /\ dt \in Ticks /\ now' = Plus(now, dt)
  BY <1>1, ClockAssumption DEF TypeOK, Ticks, Frame
<1> QED
  BY <1>1, <1>2, TickArithmetic

(* The ticks of the senders and the record of what was sent keep to their  *)
(* sets.                                                                   *)
LEMMA SendTypes ==
  ASSUME TypeOK, NEW t \in Ticks, SendSync(t)
  PROVE  /\ s_lastSyncTick' \in Ticks /\ dwLastOnFootDataSentTick' \in Ticks
         /\ dwLastInVehicleDataSentTick' \in Ticks
         /\ dwLastAimDataSentTick' \in Ticks
         /\ sent' \in Sendings
<1>0. Nothing \in Sendings
  BY WorldAssumption DEF Nothing, Sendings
<1>1. CASE inWorld /\ BodyDue(t) /\ DrivesKnown
  <2>1. inCarUpdate(t) /\ s_lastSyncTick' = t
    BY <1>1 DEF SendSync
  <2>2. sent' \in Sendings
    <3>1. [body |-> "incar", vehicle |-> g_localVehicleId, aim |-> FALSE] \in Sendings
      BY <1>1 DEF DrivesKnown, Sendings, TypeOK
    <3> QED
      BY <1>0, <2>1, <3>1 DEF inCarUpdate
  <2> QED
    BY <2>1, <2>2 DEF inCarUpdate, TypeOK
<1>2. CASE inWorld /\ BodyDue(t) /\ ~ DrivesKnown
  <2>1. onFootUpdateAtNormalPos(t) /\ s_lastSyncTick' = t
    BY <1>2 DEF SendSync
  <2>2. /\ Due(dwLastOnFootDataSentTick, t, OnfootRate) \in BOOLEAN
        /\ Due(dwLastAimDataSentTick, t, FiringRate) \in BOOLEAN
    BY DEF Due
  <2>3. sent' \in Sendings
    BY <2>1, <2>2, WorldAssumption DEF onFootUpdateAtNormalPos, Sendings, TypeOK
  <2>4. /\ dwLastOnFootDataSentTick' \in Ticks /\ dwLastAimDataSentTick' \in Ticks
        /\ dwLastInVehicleDataSentTick' \in Ticks
    BY <2>1 DEF onFootUpdateAtNormalPos, TypeOK
  <2> QED
    BY <2>1, <2>3, <2>4
<1>3. CASE ~ (inWorld /\ BodyDue(t))
  BY <1>0, <1>3 DEF SendSync, TypeOK
<1> QED
  BY <1>1, <1>2, <1>3

(* The history variables, too, keep to their sets.                         *)
LEMMA RecordTypes ==
  ASSUME TypeOK, NEW dt \in FrameTimes, Record(dt)
  PROVE  /\ sinceBody' \in 0 .. BodyRate /\ bodyGap' \in 0 .. BodyRate
         /\ silence' \in 0 .. SilenceCap
<1>1. dt \in Nat /\ BodyRate \in Nat /\ SilenceCap \in Nat
  BY ClockAssumption, RateAssumption
<1>2. UpTo(BodyRate, sinceBody + dt) \in 0 .. BodyRate
  BY <1>1 DEF UpTo, TypeOK
<1>3. UpTo(SilenceCap, silence + dt) \in 0 .. SilenceCap
  BY <1>1 DEF UpTo, TypeOK
<1> QED
  BY <1>1, <1>2, <1>3 DEF Record, TypeOK

-----------------------------------------------------------------------------
LEMMA InitTypes == Init => TypeOK
<1> SUFFICES ASSUME Init PROVE TypeOK
  OBVIOUS
<1>1. /\ LoadTick \in Ticks /\ 0 \in Ticks
      /\ BodyRate \in 0 .. BodyRate /\ 0 \in 0 .. SilenceCap
  BY ClockAssumption, RateAssumption DEF Ticks
<1>2. Nothing \in Sendings
  BY WorldAssumption DEF Nothing, Sendings
<1> QED
  BY <1>1, <1>2, WorldAssumption DEF Init, TypeOK

LEMMA NextTypes == TypeOK /\ [Next]_vars => TypeOK'
<1> SUFFICES ASSUME TypeOK, [Next]_vars PROVE TypeOK'
  OBVIOUS
<1>1. CASE \E dt \in FrameTimes : Frame(dt)
  <2>1. PICK dt \in FrameTimes : Frame(dt)
    BY <1>1
  <2>2. now' \in Ticks /\ SendSync(now') /\ Record(dt) /\ UNCHANGED world
    BY <2>1, FrameTick DEF Frame
  <2>3. wrapped' \in BOOLEAN
    BY <2>1 DEF Frame
  <2> QED
    BY <2>2, <2>3, SendTypes, RecordTypes DEF TypeOK, world
<1>2. CASE EnterWorld \/ LeaveWorld
  <2>1. 0 \in 0 .. SilenceCap
    BY RateAssumption
  <2> QED
    BY <1>2, <2>1 DEF EnterWorld, LeaveWorld, Between, clocks, TypeOK
<1>4. CASE \E v \in Vehicles \cup {NoVehicle} : PedSits(v)
  BY <1>4 DEF PedSits, Between, clocks, TypeOK
<1>5. CASE \/ \E v \in Vehicles : ScrPutPlayerInVehicle(v)
           \/ ScrRemovePlayerFromVehicle
  BY <1>5 DEF ScrPutPlayerInVehicle, ScrRemovePlayerFromVehicle, Between,
              clocks, TypeOK
<1>6. CASE UNCHANGED vars
  BY <1>6 DEF vars, clocks, world, history, TypeOK
<1> QED
  BY <1>1, <1>2, <1>4, <1>5, <1>6 DEF Next

(* Every variable keeps to its set, for every clock and set of vehicles.   *)
THEOREM TypeCorrect == Spec => []TypeOK
<1> QED
  BY InitTypes, NextTypes, PTL DEF Spec

-----------------------------------------------------------------------------
(* What the actions between two frames leave alone.                        *)
LEMMA BetweenFrames ==
  ASSUME [Next]_vars, ~ \E dt \in FrameTimes : Frame(dt)
  PROVE  /\ UNCHANGED <<clocks, sent, sinceBody, bodyGap, wrapped>>
         /\ silence' = silence \/ silence' = 0
BY DEF Next, vars, history, EnterWorld, LeaveWorld, PedSits,
       ScrPutPlayerInVehicle, ScrRemovePlayerFromVehicle, Between

(* A body packet leaves only through Tick's gate, which is stamped in the  *)
(* same frame.                                                             *)
LEMMA SendStamps ==
  ASSUME NEW t, SendSync(t)
  PROVE  \/ inWorld /\ BodyDue(t) /\ s_lastSyncTick' = t
         \/ sent'.body = "none" /\ s_lastSyncTick' = s_lastSyncTick
BY DEF SendSync, Nothing

LEMMA PaceStep ==
  ASSUME TypeOK, PaceInv, [Next]_vars
  PROVE  PaceInv'
<1>1. CASE \E dt \in FrameTimes : Frame(dt)
  <2>1. PICK dt \in FrameTimes : Frame(dt)
    BY <1>1
  <2> DEFINE t == now'
             gap == UpTo(BodyRate, sinceBody + dt)
  <2>2. dt \in 1 .. Wrap - 1 /\ t \in Ticks /\ t = Plus(now, dt) /\ SendSync(t) /\ Record(dt)
    BY <2>1, FrameTick DEF Frame
  <2>3. gap >= UpTo(BodyRate, Minus(t, s_lastSyncTick)) /\ gap \in 0 .. BodyRate
    <3> HIDE DEF t
    <3> QED
      BY <2>2, ClockAssumption, RateAssumption
      DEF PaceInv, UpTo, Minus, Plus, TypeOK, Ticks
  <2>4. CASE inWorld /\ BodyDue(t) /\ s_lastSyncTick' = t
    <3>1. Minus(t, s_lastSyncTick) >= BodyRate
      BY <2>4 DEF BodyDue
    <3>2. gap >= BodyRate
      BY <2>3, <3>1, <2>2, RateAssumption, ClockAssumption DEF UpTo, Minus, TypeOK, Ticks
    <3>3. Minus(t, s_lastSyncTick') = 0
      BY <2>2, <2>4, ClockAssumption DEF Minus, Ticks
    <3>4. UpTo(BodyRate, 0) = 0
      BY RateAssumption DEF UpTo
    <3>5. (UpTo(BodyRate, Minus(now, s_lastSyncTick)))' = 0
      BY <3>3, <3>4, RateAssumption DEF UpTo, Minus
    <3>6. (sinceBody' = 0 /\ bodyGap' = gap) \/ (sinceBody' = gap /\ bodyGap' = bodyGap)
      BY <2>2 DEF Record
    <3>7. gap \in Int /\ gap >= 0 /\ bodyGap \in Int
      BY <2>3, RateAssumption DEF TypeOK
    <3>8. sinceBody' >= 0 /\ bodyGap' >= BodyRate
      <4> HIDE DEF gap
      <4> QED
        BY <3>2, <3>6, <3>7, RateAssumption DEF PaceInv
    <3> QED
      BY <3>5, <3>8 DEF PaceInv
  <2>5. CASE sent'.body = "none" /\ s_lastSyncTick' = s_lastSyncTick
    <3>1. sinceBody' = gap /\ bodyGap' = bodyGap
      BY <2>2, <2>5 DEF Record
    <3>2. (UpTo(BodyRate, Minus(now, s_lastSyncTick)))'
             = UpTo(BodyRate, Minus(t, s_lastSyncTick))
      BY <2>5 DEF UpTo, Minus
    <3> QED
      BY <2>3, <3>1, <3>2 DEF PaceInv
  <2> QED
    BY <2>2, <2>4, <2>5, SendStamps
<1>2. CASE ~ \E dt \in FrameTimes : Frame(dt)
  BY <1>2, BetweenFrames DEF PaceInv, clocks, UpTo, Minus
<1> QED
  BY <1>1, <1>2

(* Two body packets are at least BodyRate milliseconds of true time apart, *)
(* for every clock, rate and frame time: Tick's gate holds across changes  *)
(* of sender, respawns and the wrap of GetTickCount().                     *)
THEOREM BodyAlwaysPaced == Spec => []BodyPaced
<1>1. Init => PaceInv
  BY ClockAssumption, RateAssumption DEF Init, PaceInv, UpTo, Minus
<1>2. PaceInv => BodyPaced
  BY DEF PaceInv, BodyPaced
<1>3. TypeOK /\ PaceInv /\ [Next]_vars => PaceInv'
  BY PaceStep
<1> QED
  BY <1>1, <1>2, <1>3, TypeCorrect, PTL DEF Spec

-----------------------------------------------------------------------------
(* Until the clock wraps the ticks are ordered as the events they stamp,   *)
(* and a gate that refuses knows a sending that is recent.                 *)
LEMMA FrameSteady ==
  ASSUME TypeOK, ~ wrapped', NEW dt \in FrameTimes, Frame(dt)
  PROVE  dt \in 1 .. Wrap - 1 /\ now' = now + dt /\ now' \in Ticks
<1>1. dt \in 1 .. Wrap - 1 /\ now' \in Ticks /\ now' = Plus(now, dt)
  BY FrameTick
<1>2. now + dt < Wrap
  <2>1. ~ (now + dt >= Wrap)
    BY Zenon DEF Frame
  <2> QED
    BY <1>1, <2>1, ClockAssumption DEF TypeOK, Ticks
<1> QED
  BY <1>1, <1>2 DEF Plus

LEMMA OrderStep ==
  ASSUME TypeOK, OrderInv, ~ wrapped', [Next]_vars
  PROVE  OrderInv'
<1>1. CASE \E dt \in FrameTimes : Frame(dt)
  <2>1. PICK dt \in FrameTimes : Frame(dt)
    BY <1>1
  <2>2. now' \in Ticks /\ now' > now /\ SendSync(now')
    BY <2>1, FrameSteady DEF Frame, TypeOK, Ticks
  <2>3. LoadTick \in Nat /\ Wrap \in Nat
    BY ClockAssumption
  <2>4. CASE inWorld /\ BodyDue(now') /\ DrivesKnown
    <3>1. /\ s_lastSyncTick' = now'
          /\ dwLastOnFootDataSentTick' = dwLastOnFootDataSentTick
          /\ dwLastAimDataSentTick' = dwLastAimDataSentTick
          /\ dwLastInVehicleDataSentTick' \in {dwLastInVehicleDataSentTick, now'}
      BY <2>2, <2>4 DEF SendSync, inCarUpdate
    <3> QED
      BY <2>2, <2>3, <3>1 DEF OrderInv, TypeOK, Ticks
  <2>5. CASE inWorld /\ BodyDue(now') /\ ~ DrivesKnown
    <3>1. /\ s_lastSyncTick' = now'
          /\ dwLastOnFootDataSentTick' \in {dwLastOnFootDataSentTick, now'}
          /\ dwLastAimDataSentTick' \in {dwLastAimDataSentTick, now'}
          /\ dwLastInVehicleDataSentTick' = dwLastInVehicleDataSentTick
      BY <2>2, <2>5 DEF SendSync, onFootUpdateAtNormalPos
    <3> QED
      BY <2>2, <2>3, <3>1 DEF OrderInv, TypeOK, Ticks
  <2>6. CASE ~ (inWorld /\ BodyDue(now'))
    BY <2>2, <2>3, <2>6 DEF SendSync, OrderInv, TypeOK, Ticks
  <2> QED
    BY <2>4, <2>5, <2>6
<1>2. CASE ~ \E dt \in FrameTimes : Frame(dt)
  BY <1>2, BetweenFrames DEF OrderInv, clocks
<1> QED
  BY <1>1, <1>2

(* A gate that refuses without wrapping: the last sending is within rate.  *)
LEMMA Refusal ==
  ASSUME NEW last \in Ticks, NEW t \in Ticks, NEW rate \in Ticks, last <= t, last # 0
  PROVE  /\ ~ Due(last, t, rate) => t - last <= rate
         /\ ~ InCarDue(last, t, rate) => t - last <= rate
         /\ Due(last, t, rate) /\ t >= rate => last < t - rate
         /\ last < t - rate => Due(last, t, rate)
BY ClockAssumption DEF Due, InCarDue, Minus, Ticks

LEMMA QuietStep ==
  ASSUME TypeOK, OrderInv, QuietInv, ~ wrapped', [Next]_vars
  PROVE  QuietInv'
<1>1. CASE \E dt \in FrameTimes : Frame(dt)
  <2>1. PICK dt \in FrameTimes : Frame(dt)
    BY <1>1
  <2> DEFINE t == now'
             quiet == IF inWorld THEN UpTo(SilenceCap, silence + dt) ELSE 0
  <2>2. /\ dt \in 1 .. Wrap - 1 /\ t = now + dt /\ t \in Ticks
        /\ SendSync(t) /\ Record(dt)
    BY <2>1, FrameSteady DEF Frame
  <2>3. /\ quiet \in Nat /\ quiet <= silence + dt
        /\ ~ inWorld => quiet = 0
    BY <2>2, RateAssumption DEF UpTo, TypeOK
  <2>4. silence' = 0 \/ silence' = quiet
    BY <2>2 DEF Record
  <2>5. sent'.body = "none" => silence' = quiet
    BY <2>2 DEF Record
  <2>6. sent'.body # "none" => silence' = 0
    BY <2>2 DEF Record
  <2>7. OrderInv'
    BY OrderStep
  <2>8. /\ BodyRate \in 1 .. Wrap - 1 /\ OnfootRate \in 1 .. BodyRate
        /\ IncarRate \in 1 .. BodyRate /\ LoadTick \in 1 .. Wrap - 1 /\ Wrap \in Nat
    BY ClockAssumption, RateAssumption
  <2>9. /\ now \in Ticks /\ s_lastSyncTick \in 0 .. now
        /\ dwLastOnFootDataSentTick \in LoadTick .. now
        /\ dwLastInVehicleDataSentTick \in LoadTick .. now
        /\ silence \in Nat
    BY <2>8, RateAssumption DEF TypeOK, OrderInv, Ticks
  <2>10. CASE inWorld /\ BodyDue(t) /\ DrivesKnown
    <3>1. /\ s_lastSyncTick' = t
          /\ dwLastOnFootDataSentTick' = dwLastOnFootDataSentTick
      BY <2>2, <2>10 DEF SendSync, inCarUpdate
    <3>2. CASE InCarDue(dwLastInVehicleDataSentTick, t, IncarRate)
      <4>1. sent'.body = "incar" /\ dwLastInVehicleDataSentTick' = t
        BY <2>2, <2>10, <3>2 DEF SendSync, inCarUpdate
      <4>2. silence' = 0
        BY <2>6, <4>1
      <4> QED
        BY <2>2, <2>8, <2>9, <3>1, <4>1, <4>2 DEF QuietInv, Ticks
    <3>3. CASE ~ InCarDue(dwLastInVehicleDataSentTick, t, IncarRate)
      <4>1. sent'.body = "none" /\ dwLastInVehicleDataSentTick' = dwLastInVehicleDataSentTick
        BY <2>2, <2>10, <3>3 DEF SendSync, inCarUpdate, Nothing
      <4>2. t - dwLastInVehicleDataSentTick <= IncarRate
        BY <2>2, <2>8, <2>9, <3>3, Refusal DEF Ticks
      <4>3. silence' = quiet
        BY <2>5, <4>1
      <4> HIDE DEF quiet
      <4> QED
        BY <2>2, <2>3, <2>8, <2>9, <3>1, <4>1, <4>2, <4>3 DEF QuietInv, Ticks
    <3> QED
      BY <3>2, <3>3
  <2>11. CASE inWorld /\ BodyDue(t) /\ ~ DrivesKnown
    <3>1. /\ s_lastSyncTick' = t
          /\ dwLastInVehicleDataSentTick' = dwLastInVehicleDataSentTick
      BY <2>2, <2>11 DEF SendSync, onFootUpdateAtNormalPos
    <3>2. CASE Due(dwLastOnFootDataSentTick, t, OnfootRate)
      <4>1. sent'.body = "onfoot" /\ dwLastOnFootDataSentTick' = t
        BY <2>2, <2>11, <3>2 DEF SendSync, onFootUpdateAtNormalPos
      <4>2. silence' = 0
        BY <2>6, <4>1
      <4> QED
        BY <2>2, <2>8, <2>9, <3>1, <4>1, <4>2 DEF QuietInv, Ticks
    <3>3. CASE ~ Due(dwLastOnFootDataSentTick, t, OnfootRate)
      <4>1. sent'.body = "none" /\ dwLastOnFootDataSentTick' = dwLastOnFootDataSentTick
        BY <2>2, <2>11, <3>3 DEF SendSync, onFootUpdateAtNormalPos
      <4>2. t - dwLastOnFootDataSentTick <= OnfootRate
        BY <2>2, <2>8, <2>9, <3>3, Refusal DEF Ticks
      <4>3. silence' = quiet
        BY <2>5, <4>1
      <4> HIDE DEF quiet
      <4> QED
        BY <2>2, <2>3, <2>8, <2>9, <3>1, <4>1, <4>2, <4>3 DEF QuietInv, Ticks
    <3> QED
      BY <3>2, <3>3
  <2>12. CASE ~ (inWorld /\ BodyDue(t))
    <3>1. /\ s_lastSyncTick' = s_lastSyncTick
          /\ dwLastOnFootDataSentTick' = dwLastOnFootDataSentTick
          /\ dwLastInVehicleDataSentTick' = dwLastInVehicleDataSentTick
          /\ sent'.body = "none"
      BY <2>2, <2>12 DEF SendSync, Nothing
    <3>2. inWorld => t - s_lastSyncTick < BodyRate
      BY <2>2, <2>8, <2>9, <2>12 DEF BodyDue, Minus, Ticks
    <3>3. silence' = quiet
      BY <2>5, <3>1
    <3>4. quiet = 0 \/ t - s_lastSyncTick < BodyRate
      BY <2>3, <3>2
    <3> HIDE DEF quiet
    <3> QED
      BY <2>2, <2>3, <2>8, <2>9, <3>1, <3>3, <3>4 DEF QuietInv, Ticks
  <2> QED
    BY <2>10, <2>11, <2>12
<1>2. CASE ~ \E dt \in FrameTimes : Frame(dt)
  <2>1. UNCHANGED clocks /\ (silence' = silence \/ silence' = 0)
    BY <1>2, BetweenFrames
  <2>2. BodyRate \in Nat /\ BodyRate >= 1 /\ LoadTick \in Nat /\ Wrap \in Nat
    BY ClockAssumption, RateAssumption
  <2> QED
    BY <2>1, <2>2 DEF QuietInv, OrderInv, TypeOK, Ticks, clocks
<1> QED
  BY <1>1, <1>2

(* An on-foot packet that passes its gate finds the gate of the aim packet *)
(* open as well.                                                           *)
LEMMA AimStep ==
  ASSUME TypeOK, OrderInv, AimFollowsBody, ~ wrapped', [Next]_vars
  PROVE  AimFollowsBody'
<1>1. CASE \E dt \in FrameTimes : Frame(dt)
  <2>1. PICK dt \in FrameTimes : Frame(dt)
    BY <1>1
  <2> DEFINE t == now'
  <2>2. t \in Ticks /\ t > now /\ SendSync(t)
    BY <2>1, FrameSteady DEF Frame, TypeOK, Ticks
  <2>3. SUFFICES ASSUME sent'.body = "onfoot" PROVE sent'.aim
    BY DEF AimFollowsBody
  <2>4. /\ BodyDue(t) /\ onFootUpdateAtNormalPos(t)
        /\ Due(dwLastOnFootDataSentTick, t, OnfootRate)
    BY <2>2, <2>3 DEF SendSync, inCarUpdate, onFootUpdateAtNormalPos, Nothing
  <2>5. sent'.aim = Due(dwLastAimDataSentTick, t, FiringRate)
    BY <2>4 DEF onFootUpdateAtNormalPos
  <2>6. t - s_lastSyncTick >= BodyRate
    BY <2>2, <2>4, ClockAssumption DEF BodyDue, Minus, OrderInv, TypeOK, Ticks
  <2>7. /\ BodyRate \in Ticks /\ OnfootRate \in 1 .. BodyRate
        /\ FiringRate \in 1 .. OnfootRate /\ FiringRate < BodyRate
        /\ LoadTick \in 1 .. Wrap - 1 /\ Wrap \in Nat
    BY ClockAssumption, RateAssumption DEF Ticks
  <2>8. /\ dwLastOnFootDataSentTick \in LoadTick .. now
        /\ dwLastAimDataSentTick \in Ticks /\ dwLastAimDataSentTick # 0
        /\ dwLastAimDataSentTick <= s_lastSyncTick \/ dwLastAimDataSentTick = LoadTick
        /\ s_lastSyncTick \in Ticks /\ now \in Ticks
    BY DEF OrderInv, TypeOK
  <2> HIDE DEF t
  <2>9. dwLastOnFootDataSentTick < t - OnfootRate
    <3>1. t >= OnfootRate /\ OnfootRate \in Ticks
      BY <2>2, <2>6, <2>7, <2>8 DEF Ticks
    <3>2. dwLastOnFootDataSentTick \in Ticks /\ dwLastOnFootDataSentTick # 0
          /\ dwLastOnFootDataSentTick <= t
      BY <2>2, <2>7, <2>8 DEF Ticks
    <3> QED
      BY <2>2, <2>4, <3>1, <3>2, Refusal
  <2>10. /\ dwLastAimDataSentTick < t - FiringRate
         /\ dwLastAimDataSentTick <= t /\ FiringRate \in Ticks
    BY <2>2, <2>6, <2>7, <2>8, <2>9 DEF Ticks
  <2>11. Due(dwLastAimDataSentTick, t, FiringRate)
    BY <2>2, <2>8, <2>10, Refusal
  <2> QED
    BY <2>5, <2>11
<1>2. CASE ~ \E dt \in FrameTimes : Frame(dt)
  BY <1>2, BetweenFrames DEF AimFollowsBody
<1> QED
  BY <1>1, <1>2

(* What holds until the clock wraps.                                       *)
SteadyInv == ~ wrapped => OrderInv /\ QuietInv

LEMMA SteadyInit == Init => SteadyInv /\ AimFollowsBody
<1> SUFFICES ASSUME Init PROVE SteadyInv /\ AimFollowsBody
  OBVIOUS
<1>1. OrderInv
  BY ClockAssumption DEF Init, OrderInv
<1>2. QuietInv
  BY ClockAssumption, RateAssumption DEF Init, QuietInv
<1>3. AimFollowsBody
  BY DEF Init, AimFollowsBody, Nothing
<1> QED
  BY <1>1, <1>2, <1>3 DEF SteadyInv

(* Once wrapped, for ever wrapped.                                         *)
LEMMA WrappedStays ==
  ASSUME [Next]_vars, ~ wrapped'
  PROVE  ~ wrapped
<1>1. CASE \E dt \in FrameTimes : Frame(dt)
  BY <1>1 DEF Frame
<1>2. CASE ~ \E dt \in FrameTimes : Frame(dt)
  BY <1>2, BetweenFrames
<1> QED
  BY <1>1, <1>2

LEMMA SteadyStep == TypeOK /\ SteadyInv /\ [Next]_vars => SteadyInv'
<1> SUFFICES ASSUME TypeOK, SteadyInv, [Next]_vars, ~ wrapped' PROVE OrderInv' /\ QuietInv'
  BY DEF SteadyInv
<1>1. OrderInv /\ QuietInv
  BY WrappedStays DEF SteadyInv
<1> QED
  BY <1>1, OrderStep, QuietStep

(* Until GetTickCount() wraps, a player in the world is never silent for   *)
(* twice the rate of Tick's gate.                                          *)
THEOREM SilenceAlwaysBounded == Spec => []SilenceBounded
<1>1. Init => SteadyInv
  BY SteadyInit
<1>2. SteadyInv => SilenceBounded
  BY DEF SteadyInv, QuietInv, SilenceBounded
<1> QED
  BY <1>1, <1>2, SteadyStep, TypeCorrect, PTL DEF Spec

(* Until GetTickCount() wraps, every on-foot packet leaves with its aim    *)
(* packet.                                                                 *)
THEOREM AimAlwaysFollows == Spec => []AimFollowsBody
<1>1. Init => SteadyInv /\ AimFollowsBody
  BY SteadyInit
<1>2. TypeOK /\ SteadyInv /\ AimFollowsBody /\ [Next]_vars => AimFollowsBody'
  <2> SUFFICES ASSUME TypeOK, SteadyInv, AimFollowsBody, [Next]_vars PROVE AimFollowsBody'
    OBVIOUS
  <2>1. CASE wrapped'
    BY <2>1 DEF AimFollowsBody
  <2>2. CASE ~ wrapped'
    BY <2>2, WrappedStays, AimStep DEF SteadyInv
  <2> QED
    BY <2>1, <2>2
<1> QED
  BY <1>1, <1>2, SteadyStep, TypeCorrect, PTL DEF Spec
=============================================================================
