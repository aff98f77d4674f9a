------------------------------- MODULE Session -------------------------------
(***************************************************************************)
(* What the client promises about one connection to a server, whatever the  *)
(* flags, packets and frames behind it: it is opened, accepted under some   *)
(* id, joined, and its player spawned, in that order and one step at a      *)
(* time; it can end at any point, and nothing of it is left when it has.    *)
(***************************************************************************)
CONSTANTS PlayerIds, NoPlayer

VARIABLES
  stage,  \* how far the session has got
  id      \* the id the server gave this client, NoPlayer when it has none

svars == <<stage, id>>

Init == stage = "offline" /\ id = NoPlayer

(* A new session may be opened at any time; it replaces the one in progress. *)
Open  == stage' = "opening" /\ id' = NoPlayer
Close == stage' = "offline" /\ id' = NoPlayer

Accept == stage = "opening" /\ stage' = "joining" /\ id' \in PlayerIds

(* Joining may find the player spawned: the server can end a spectating     *)
(* that it began on connect before the game is joined.                      *)
Join == stage = "joining" /\ stage' \in {"joined", "spawned"} /\ id' \in PlayerIds

(* A new gamemode sends its game information again.                         *)
Rejoin == stage \in {"joined", "spawned"} /\ stage' = stage /\ id' \in PlayerIds

Spawn   == stage = "joined" /\ stage' = "spawned" /\ id' = id
Unspawn == stage = "spawned" /\ stage' = "joined" /\ id' = id

Next == Open \/ Close \/ Accept \/ Join \/ Rejoin \/ Spawn \/ Unspawn

Spec == Init /\ [][Next]_svars
=============================================================================
