------------------------------ MODULE RakClient ------------------------------
(***************************************************************************)
(* The vendored RakNet client as the bridge sees it: one link to one        *)
(* server, and the queue its network thread fills and its Receive() call    *)
(* empties.  Everything below the queue (sockets, acknowledgements,         *)
(* retransmission) is folded into the four things the bridge can observe:   *)
(* the link comes up, is refused, drops, or carries one more packet.        *)
(*                                                                          *)
(*   link = "closed"   never opened, or closed by Disconnect()              *)
(*          "opening"  a connection request is out                          *)
(*          "up"       the server accepted it                               *)
(*          "dead"     refused, failed or lost; nothing more can arrive     *)
(*                                                                          *)
(* RPCs are packets like any other: RakPeer::Receive dispatches them on the *)
(* caller's thread, in queue order.                                         *)
(***************************************************************************)
EXTENDS Naturals, Sequences

CONSTANTS
  PlayerIds,   \* the ids a server may assign to this client
  NoPlayer,    \* "no id": -1 in the code, and the argument of id-less packets
  MaxInbox     \* bound on the packets queued at one time

ASSUME PlayerIdsAssumption == NoPlayer \notin PlayerIds
ASSUME MaxInboxAssumption  == MaxInbox \in Nat \ {0}

VARIABLES link, inbox

linkVars == <<link, inbox>>

-----------------------------------------------------------------------------
(* Packets.                                                                *)

Refusals == {"ConnectionAttemptFailed", "NoFreeIncomingConnections",
             "InvalidPassword", "ConnectionBanned"}

Losses == {"ConnectionLost", "DisconnectionNotification"}

(* What a server may send that carries no player id: its remote procedure   *)
(* calls, and a time-stamped packet too short to hold anything.             *)
ServerPackets == {"InitGameShort", "ConnectionRejected", "TimestampShort",
                  "ClassAccepted", "ClassRefused", "SetSpawnInfo",
                  "DialogShow", "DialogHide", "GameModeRestart",
                  "SpectateOn", "SpectateOff"}

Packets == [kind : {"Accepted", "InitGame"}, id : PlayerIds]
             \cup [kind : Refusals \cup Losses \cup ServerPackets, id : {NoPlayer}]

Plain(k) == [kind |-> k, id |-> NoPlayer]

LinkTypeOK ==
  /\ link \in {"closed", "opening", "up", "dead"}
  /\ inbox \in Seq(Packets)

LinkInit ==
  /\ link = "closed"
  /\ inbox = <<>>

-----------------------------------------------------------------------------
(* What the owner of the client does to it.                                *)

(* RakClient::Connect: drops whatever was there, then sends the request.    *)
(* The call may also fail at once, and the caller ignores its result.       *)
OpenLink ==
  /\ link' \in {"opening", "dead"}
  /\ inbox' = <<>>

(* RakPeer::Disconnect stops the network thread and frees what it queued.   *)
CloseLink ==
  /\ link' = "closed"
  /\ inbox' = <<>>

-----------------------------------------------------------------------------
(* What the network thread does.                                           *)

Enqueue(p) ==
  /\ Len(inbox) < MaxInbox
  /\ inbox' = Append(inbox, p)

AcceptLink ==
  /\ link = "opening"
  /\ link' = "up"
  /\ \E i \in PlayerIds : Enqueue([kind |-> "Accepted", id |-> i])

RefuseLink ==
  /\ link = "opening"
  /\ link' = "dead"
  /\ \E k \in Refusals : Enqueue(Plain(k))

DropLink ==
  /\ link = "up"
  /\ link' = "dead"
  /\ \E k \in Losses : Enqueue(Plain(k))

Carry(p) ==
  /\ link = "up"
  /\ UNCHANGED link
  /\ Enqueue(p)
=============================================================================
