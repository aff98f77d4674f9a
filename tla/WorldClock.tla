------------------------------ MODULE WorldClock ------------------------------
(***************************************************************************)
(* The server's world time: WorldTime, SetTimeEx and InitGame, the clock   *)
(* of the game, and the tick that pins the one to the other, over several  *)
(* sessions (sampraknet_bridge.cpp, g_world; game/game.h, SetWorldTime).   *)
(*                                                                         *)
(* A day has the hours 0 .. LastHour, an hour the minutes 0 .. LastMinute: *)
(* 23 and 59 in the program.  A byte the server sends may be one more.     *)
(***************************************************************************)
EXTENDS Integers

CONSTANTS
  LastHour, LastMinute

ASSUME WorldClockAssumption ==
  LastHour \in Nat /\ LastMinute \in Nat

HourBytes == 0 .. LastHour + 1
MinuteBytes == 0 .. LastMinute + 1
Unsaid == -1

VARIABLES
  link,          \* "out", "accepted" or, once iGameInited, "in"
  thread,        \* what the game thread does: "game" or "tick"
  worldTimeHour, worldTimeMinute, serverTimeKnown,      \* g_world
  hour, minute,  \* CClock
  said           \* the server's side: the hour and the minute it last gave
                 \* in this session by WorldTime or SetTimeEx

vars == <<link, thread, worldTimeHour, worldTimeMinute, serverTimeKnown,
          hour, minute, said>>
g_world == <<worldTimeHour, worldTimeMinute, serverTimeKnown>>
clock == <<hour, minute>>

(* The game's clock shows a time of day; g_world holds what was sent.      *)
WorldClockTypeOK ==
  /\ link \in {"out", "accepted", "in"} /\ thread \in {"game", "tick"}
  /\ worldTimeHour \in HourBytes /\ worldTimeMinute \in MinuteBytes
  /\ serverTimeKnown \in BOOLEAN
  /\ hour \in 0 .. LastHour /\ minute \in 0 .. LastMinute
  /\ said \in [hour : HourBytes \cup {Unsaid}, minute : MinuteBytes \cup {Unsaid}]

NothingSaid == [hour |-> Unsaid, minute |-> Unsaid]

WorldClockInit ==
  /\ link = "out" /\ thread = "game"
  /\ worldTimeHour \in 0 .. LastHour /\ worldTimeMinute = 0 /\ serverTimeKnown = FALSE
  /\ hour \in 0 .. LastHour /\ minute = 0
  /\ said = NothingSaid

-----------------------------------------------------------------------------
(* The game: CGame::Process, in which a minute may pass, before each tick. *)

NextMinute ==
  IF minute < LastMinute THEN minute' = minute + 1 /\ hour' = hour
  ELSE minute' = 0 /\ hour' = IF hour < LastHour THEN hour + 1 ELSE 0

CGameProcess ==
  /\ thread = "game" /\ thread' = "tick"
  /\ NextMinute \/ UNCHANGED clock
  /\ UNCHANGED <<link, g_world, said>>

(* SetWorldTime refuses what is not a time of day.                         *)
SetWorldTimeUnchecked(h, m) == hour' = h /\ minute' = m      \* mutant
SetWorldTime(h, m) ==
  IF h \in 0 .. LastHour /\ m \in 0 .. LastMinute
  THEN hour' = h /\ minute' = m
  ELSE UNCHANGED clock

-----------------------------------------------------------------------------
(* A session, whose packets are handled in the tick.  None of this touches *)
(* g_world: what the last server said is still there for the next.         *)

Accepted ==
  /\ thread = "tick" /\ link = "out" /\ link' = "accepted"
  /\ said' = NothingSaid
  /\ UNCHANGED <<thread, g_world, clock>>

(* InitGame reads a world time and drops it.                               *)
InitGame ==
  /\ thread = "tick" /\ link # "out" /\ link' = "in"
  /\ UNCHANGED <<thread, g_world, clock, said>>

(* Of the user, from Present; of a timeout, at the end of the tick.        *)
Disconnect ==
  /\ link # "out" /\ link' = "out"
  /\ UNCHANGED <<thread, g_world, clock, said>>

(* Neither handler asks whether the game is inited.                        *)
WorldTime(h) ==
  /\ thread = "tick" /\ link # "out"
  /\ worldTimeHour' = h /\ serverTimeKnown' = TRUE
  /\ SetWorldTime(h, worldTimeMinute)
  /\ said' = [said EXCEPT !.hour = h]
  /\ UNCHANGED <<link, thread, worldTimeMinute>>

SetTimeEx(h, m) ==
  /\ thread = "tick" /\ link # "out"
  /\ worldTimeHour' = h /\ worldTimeMinute' = m /\ serverTimeKnown' = TRUE
  /\ SetWorldTime(h, m)
  /\ said' = [said EXCEPT !.hour = h, !.minute = m]
  /\ UNCHANGED <<link, thread>>

(* The end of Tick pins the clock, once any server has said a time.        *)
PinsOnce == link = "in" /\ serverTimeKnown /\ said.hour = Unsaid     \* mutant
Pins == link = "in" /\ serverTimeKnown

EndTick ==
  /\ thread = "tick" /\ thread' = "game"
  /\ \/ Pins /\ SetWorldTime(worldTimeHour, worldTimeMinute)
     \/ ~ Pins /\ UNCHANGED clock
  /\ UNCHANGED <<link, g_world, said>>

WorldClockNext ==
  \/ CGameProcess \/ Accepted \/ InitGame \/ Disconnect \/ EndTick
  \/ \E h \in HourBytes : WorldTime(h) \/ \E m \in MinuteBytes : SetTimeEx(h, m)

WorldClockSpec == WorldClockInit /\ [][WorldClockNext]_vars

-----------------------------------------------------------------------------
(* The frame the player sees: after the tick, in a session.                *)
Seen == thread = "game" /\ link = "in"

(* A time of day this session's server has given is what the player sees,  *)
(* whatever the game's clock does in between and whether the RPC came      *)
(* before InitGame or after it; and so is an hour given alone, even where  *)
(* the minute it goes with is left from an earlier session.                *)
ClockPinned ==
  Seen /\ said.hour \in 0 .. LastHour =>
    /\ said.minute \in 0 .. LastMinute => hour = said.hour /\ minute = said.minute
    /\ worldTimeMinute \in 0 .. LastMinute => hour = said.hour
=============================================================================
