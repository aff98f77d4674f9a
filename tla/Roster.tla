-------------------------------- MODULE Roster --------------------------------
(***************************************************************************)
(* playerInfo, the bridge's table of players (sampraknet_bridge.cpp), over *)
(* several sessions.                                                       *)
(*                                                                         *)
(* The server's RPCs are reliable and ordered, so its side of each is the  *)
(* same step as the handler.  Joins before InitGame would be dropped; the  *)
(* server announces everybody after it.  Sync packets come at any time.    *)
(*                                                                         *)
(* A name is a model value with a length; of a position only whether the   *)
(* slot has one.  iIsConnected, which one status line counts, and the      *)
(* marker flag, which nothing reads, are left out.                         *)
(***************************************************************************)
EXTENDS Integers

CONSTANTS
  LastId,        \* MAX_PLAYERS - 1
  Names,
  NameLength,    \* the characters of a name
  Cut            \* what a rename stores of a name: 23 bytes of its UTF-8

ASSUME RosterAssumption == LastId \in Nat
ASSUME NamesAssumption  == NameLength \in [Names -> Nat] /\ Cut \in [Names -> Names]

Ids == 0 .. LastId
Nobody == "nobody"       \* the empty name

VARIABLES
  phase,         \* "out", "accepted" or, once iGameInited, "in"
  g_myPlayerID,
  playerInfo,
  announced      \* the server's side: whom it has announced in this session

vars == <<phase, g_myPlayerID, playerInfo, announced>>
me == <<phase, g_myPlayerID>>

(* A position was given, or never, or cut short: the handlers of the sync  *)
(* packets zero the record and read into it what the packet holds.         *)
Positions == {"none", "cut", "given"}
StoredNames == Names \cup {Nobody}

Empty == [name |-> Nobody, streamed |-> FALSE, onfoot |-> "none", incar |-> "none"]
Slots == [name : StoredNames, streamed : BOOLEAN, onfoot : Positions, incar : Positions]

(* The slots and the own id have their types, and an id while in a session. *)
RosterTypeOK ==
  /\ phase \in {"out", "accepted", "in"}
  /\ g_myPlayerID \in Ids \cup {-1} /\ (phase # "out" => g_myPlayerID \in Ids)
  /\ playerInfo \in [Ids -> Slots]
  /\ announced \in [Ids -> StoredNames]

RosterInit ==
  /\ phase = "out" /\ g_myPlayerID = -1
  /\ playerInfo = [i \in Ids |-> Empty]
  /\ announced = [i \in Ids |-> Nobody]

-----------------------------------------------------------------------------
(* A session begins and ends.                                              *)

(* memset of one stPlayerInfo: only the first slot is cleared.             *)
resetPools == [playerInfo EXCEPT ![0] = Empty]

(* Connect and ID_CONNECTION_REQUEST_ACCEPTED: the own slot gets the       *)
(* nickname as the user typed it.                                          *)
ConnectionSucceeded(id, nick) ==
  /\ phase = "out" /\ phase' = "accepted"
  /\ g_myPlayerID' = id
  /\ playerInfo' = [playerInfo EXCEPT ![id].name = nick]
  /\ announced' = [i \in Ids |-> Nobody]

(* The server may refuse the nickname, before it lets the client in.       *)
BadNickname ==
  /\ phase = "accepted"
  /\ playerInfo' = resetPools
  /\ UNCHANGED <<me, announced>>

(* The id is that of the packet, whatever the acceptance said; nothing     *)
(* keeps the packet from coming twice.                                     *)
InitGame(id) ==
  /\ phase # "out" /\ phase' = "in"
  /\ g_myPlayerID' = id
  /\ UNCHANGED <<playerInfo, announced>>

Disconnect ==
  /\ phase # "out" /\ phase' = "out" /\ g_myPlayerID' = -1
  /\ UNCHANGED <<playerInfo, announced>>

-----------------------------------------------------------------------------
(* RPCs about players.                                                     *)

JoinTakes(name)   == NameLength[name] <= 20
RenameTakes(name) == NameLength[name] < 64

JoinedSlotKeepingName(id, name) ==       \* mutant: a known slot keeps its name
  IF JoinTakes(name) /\ playerInfo[id].name = Nobody
    THEN [playerInfo EXCEPT ![id].name = name] ELSE playerInfo
JoinedSlot(id, name) ==
  IF JoinTakes(name) THEN [playerInfo EXCEPT ![id].name = name] ELSE playerInfo

(* A join whose name is too long is dropped whole, and the slot keeps what *)
(* it holds.                                                               *)
ServerJoin(id, name) ==
  /\ phase = "in"
  /\ announced' = [announced EXCEPT ![id] = name]
  /\ playerInfo' = JoinedSlot(id, name)
  /\ UNCHANGED me

ServerQuit(id) ==
  /\ phase = "in"
  /\ announced' = [announced EXCEPT ![id] = Nobody]
  /\ playerInfo' = [playerInfo EXCEPT ![id].name = Nobody]
  /\ UNCHANGED me

RenamedSlot(id, name) ==
  IF RenameTakes(name) THEN [playerInfo EXCEPT ![id].name = Cut[name]] ELSE playerInfo

(* A rename is not gated and comes with the server's own success flag; one *)
(* that failed changes nothing on either side.                             *)
ScrSetPlayerName(id, name) ==
  /\ phase # "out"
  /\ playerInfo' = RenamedSlot(id, name)
  /\ announced' = [announced EXCEPT ![id] = IF @ = Nobody THEN @ ELSE name]
  /\ UNCHANGED me

WorldPlayerAdd(id) ==
  /\ phase = "in"
  /\ playerInfo' = [playerInfo EXCEPT ![id].streamed = TRUE, ![id].onfoot = "given",
                                      ![id].incar = "given"]
  /\ UNCHANGED <<me, announced>>

(* The in-car position is zeroed, the one on foot stays.                   *)
RemovedSlotOnlyPosition(id) == [playerInfo EXCEPT ![id].incar = "none"]   \* mutant
RemovedSlot(id) == [playerInfo EXCEPT ![id].incar = "none", ![id].streamed = FALSE]

WorldPlayerRemove(id) ==
  /\ phase = "in" /\ playerInfo' = RemovedSlot(id)
  /\ UNCHANGED <<me, announced>>

-----------------------------------------------------------------------------
(* Sync packets: gated by the link alone, and late ones are taken too.     *)

PlayerSync(id) ==
  /\ phase # "out"
  /\ \E position \in {"cut", "given"} :
       playerInfo' = [playerInfo EXCEPT ![id].onfoot = position]
  /\ UNCHANGED <<me, announced>>

(* A packet that names no vehicle is dropped before the record is zeroed.  *)
VehicleSync(id) ==
  /\ phase # "out"
  /\ \E position \in {"cut", "given", playerInfo[id].incar} :
       playerInfo' = [playerInfo EXCEPT ![id].incar = position]
  /\ UNCHANGED <<me, announced>>

(* One entry of the packet, of an active player; an inactive one changes   *)
(* only the marker flag.                                                   *)
MarkersSync(id) ==
  /\ phase # "out"
  /\ playerInfo' = [playerInfo EXCEPT ![id].onfoot = "given"]
  /\ UNCHANGED <<me, announced>>

RosterNext ==
  \/ Disconnect \/ BadNickname
  \/ \E id \in Ids :
       \/ InitGame(id)
       \/ ServerQuit(id) \/ WorldPlayerAdd(id) \/ WorldPlayerRemove(id)
       \/ PlayerSync(id) \/ VehicleSync(id) \/ MarkersSync(id)
       \/ \E name \in Names :
            \/ ConnectionSucceeded(id, name)
            \/ ServerJoin(id, name) \/ ScrSetPlayerName(id, name)

RosterSpec == RosterInit /\ [][RosterNext]_vars

-----------------------------------------------------------------------------
(* Chat, and the kill feed, take a player's name from the slot as it is.   *)
Speaker(id) == playerInfo[id].name

(* Everybody the server has announced speaks under the name it gave last,  *)
(* or what a rename stores of it, whoever had the slot in an earlier       *)
(* session, and whatever was dropped before: provided that that name is    *)
(* one a join takes.  Behind a longer one the slot may hold anything.      *)
SpeakersNamed ==
  phase = "in" =>
    \A id \in Ids : announced[id] # Nobody /\ JoinTakes(announced[id]) =>
      Speaker(id) \in {announced[id], Cut[announced[id]]}

(* A streamed-in player has a position on foot and in a car, but for what  *)
(* a truncated sync packet takes from him, also when the slot was streamed *)
(* in and out before.                                                      *)
StreamedHavePosition ==
  \A id \in Ids :
    playerInfo[id].streamed => playerInfo[id].onfoot # "none" /\ playerInfo[id].incar # "none"
=============================================================================
