------------------------------- MODULE SpawnFsm -------------------------------
(***************************************************************************)
(* What the client promises about getting its player into the world,       *)
(* whatever the timers, dialogs, queues and positions behind it.  The      *)
(* bridge asks the server for a class, waits for an answer, and spawns;    *)
(* the server may also end a spectating it began, which spawns as well.    *)
(*                                                                         *)
(* Two models hold this machine: NetGame with its timeout, its dialogs and *)
(* the packet queue, LocalPlayer with the places.  Both implement it.      *)
(***************************************************************************)
VARIABLES
  joined,                \* this session's InitGame was handled
  told,                  \* this session's server has sent spawn information
  iSpawned, s_spawnStage, g_spawnInfoReceived, bIsSpectating

svars == <<joined, told, iSpawned, s_spawnStage, g_spawnInfoReceived, bIsSpectating>>

Init ==
  /\ ~joined /\ ~told
  /\ ~iSpawned /\ s_spawnStage = "Idle" /\ ~g_spawnInfoReceived
  /\ ~bIsSpectating

(* A session is joined, or ends; its end forgets everything but that the   *)
(* player was spectating.                                                  *)
Join ==
  /\ ~joined /\ joined'
  /\ UNCHANGED <<told, iSpawned, s_spawnStage, g_spawnInfoReceived, bIsSpectating>>

Leave ==
  /\ ~joined' /\ ~told'
  /\ ~iSpawned' /\ s_spawnStage' = "Idle" /\ ~g_spawnInfoReceived'
  /\ UNCHANGED bIsSpectating

(* A class was granted, at whatever stage and even before the game is      *)
(* joined; or spawn information came without one.                          *)
Granted ==
  /\ told' /\ g_spawnInfoReceived'
  /\ UNCHANGED <<joined, iSpawned, s_spawnStage, bIsSpectating>>

Informed ==
  /\ told'
  /\ UNCHANGED <<joined, iSpawned, s_spawnStage, g_spawnInfoReceived, bIsSpectating>>

(* The stages.  An answer that does not come in time is asked for again.   *)
MayAdvance == joined /\ ~iSpawned

Ask ==
  /\ MayAdvance /\ s_spawnStage = "Idle"
  /\ s_spawnStage' = "WaitingClass" /\ ~g_spawnInfoReceived'
  /\ UNCHANGED <<joined, told, iSpawned, bIsSpectating>>

Answered ==
  /\ MayAdvance /\ s_spawnStage = "WaitingClass"
  /\ s_spawnStage' = IF g_spawnInfoReceived THEN "Ready" ELSE "Idle"
  /\ UNCHANGED <<joined, told, iSpawned, g_spawnInfoReceived, bIsSpectating>>

Spawn ==
  /\ MayAdvance /\ s_spawnStage = "Ready"
  /\ s_spawnStage' = "Done" /\ iSpawned' /\ ~bIsSpectating'
  /\ UNCHANGED <<joined, told, g_spawnInfoReceived>>

(* The server takes the player out of the world, and lets him back in; who *)
(* was never in is spawned by that.                                        *)
Spectate ==
  /\ bIsSpectating'
  /\ UNCHANGED <<joined, told, iSpawned, s_spawnStage, g_spawnInfoReceived>>

Unspectate ==
  /\ ~bIsSpectating' /\ iSpawned' = (iSpawned \/ bIsSpectating)
  /\ UNCHANGED <<joined, told, s_spawnStage, g_spawnInfoReceived>>

GameModeRestart ==
  /\ ~iSpawned' /\ ~g_spawnInfoReceived'
  /\ UNCHANGED <<joined, told, s_spawnStage, bIsSpectating>>

Next ==
  \/ Join \/ Leave \/ Granted \/ Informed
  \/ Ask \/ Answered \/ Spawn
  \/ Spectate \/ Unspectate \/ GameModeRestart

Spec == Init /\ [][Next]_svars

-----------------------------------------------------------------------------
(* Whoever is about to be spawned by the machine, or was, has been told    *)
(* where by the server of this session.                                    *)
SpawnIsTold == g_spawnInfoReceived \/ s_spawnStage \in {"Ready", "Done"} => told

(* The machine runs once in a session: what it has spawned it never spawns *)
(* again, not even after a gamemode restart has taken the player out.      *)
SpawnsOnceASession == [][s_spawnStage = "Done" => s_spawnStage' = "Done" \/ ~joined']_svars
=============================================================================
