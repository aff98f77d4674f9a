-------------------------------- MODULE Boot --------------------------------
(***************************************************************************)
(* How the client gets into a game that is already starting (dllmain.cpp,  *)
(* hooks.cpp).                                                             *)
(*                                                                         *)
(* Three threads.  MainThread, created when the DLL is loaded, installs    *)
(* the hooks one by one while the game runs on; its last act starts        *)
(* HookThread (module Overlay).  The game's thread shows frames, and once  *)
(* Present is hooked TickGameReady counts them, kicks the game out of its  *)
(* menu, waits for the player's ped and lets the user in.                  *)
(*                                                                         *)
(* The byte patches, the guards whose failure is only logged, resets of    *)
(* the device (they change nothing here) and the log files are left out.   *)
(***************************************************************************)
EXTENDS Overlay

CONSTANTS
  MinFrames,     \* 5: frames before the menu may be left
  SettleFrames   \* 30: frames between the first ped and the user's entry

ASSUME BootAssumption == MinFrames \in Nat \ {0} /\ SettleFrames \in Nat

VARIABLES
  mainAt,            \* what MainThread does next
  started,           \* HookThread has been created
  scriptHooked,      \* hkRunningScriptProcess is enabled
  clients,           \* RakClient objects made so far
  m_initialized,     \* CNetGame's
  gs,                \* the game's system state
  ped,               \* there is a player ped
  g_bootDone,
  scmRan,            \* history: the game's own script has run
  byHand,            \* history: somebody started a game from the menu
  g_totalFrames, g_kickedToPlaying, settle

net == <<clients, m_initialized>>
world == <<gs, ped, g_bootDone, scmRan, byHand>>
ready == <<g_totalFrames, g_kickedToPlaying, settle>>
install == <<mainAt, started, scriptHooked>>
bootVars == <<install, net, world, ready>>
allVars == <<overlayVars, bootVars>>

BootTypeOK ==
  /\ OverlayTypeOK
  /\ mainAt \in {"scripts", "create", "register", "overlay", "done"}
  /\ started \in BOOLEAN
  /\ clients \in 0 .. 2
  /\ {scriptHooked, m_initialized, ped, g_bootDone, scmRan, byHand,
      g_kickedToPlaying} \subseteq BOOLEAN
  /\ gs \in {"starting", "frontend", "initPlaying", "playing"}
  /\ g_totalFrames \in 0 .. MinFrames /\ settle \in 0 .. SettleFrames

(* The order of MainThread and of GameReady_Install, for a step that did   *)
(* what it should and for one that failed.                                 *)
AfterOverlayFirst(step, ok) ==           \* mutant: D3D_Start comes first
  CASE step = "attach"   -> "overlay"
    [] step = "overlay"  -> "scripts"
    [] step = "scripts"  -> IF ok THEN "create" ELSE "done"
    [] step = "create"   -> IF ok THEN "register" ELSE "done"
    [] step = "register" -> "done"
After(step, ok) ==
  CASE step = "attach"   -> "scripts"
    [] step = "scripts"  -> IF ok THEN "create" ELSE "overlay"
    [] step = "create"   -> IF ok THEN "register" ELSE "overlay"
    [] step = "register" -> "overlay"
    [] step = "overlay"  -> "done"

BootInit ==
  /\ OverlayInit
  /\ mainAt = After("attach", TRUE) /\ started = FALSE /\ scriptHooked = FALSE
  /\ clients = 0 /\ m_initialized = FALSE
  /\ gs = "starting" /\ ped = FALSE /\ g_bootDone = FALSE
  /\ scmRan = FALSE /\ byHand = FALSE
  /\ g_totalFrames = 0 /\ g_kickedToPlaying = FALSE /\ settle = 0

-----------------------------------------------------------------------------
(* MainThread.  A script hook that cannot be installed ends                *)
(* GameReady_Install, whose result nobody reads: the overlay starts anyway.*)

InstallScriptHook ==
  /\ mainAt = "scripts"
  /\ scriptHooked' \in BOOLEAN
  /\ mainAt' = After("scripts", scriptHooked')
  /\ UNCHANGED <<overlayVars, started, net, world, ready>>

(* CNetGame::Initialize: the RakClient first, the flags when it is set up. *)
CreateClient ==
  /\ mainAt = "create"
  /\ \E ok \in BOOLEAN :
       /\ clients' = IF ok THEN clients + 1 ELSE clients
       /\ mainAt' = After("create", ok)
  /\ UNCHANGED <<overlayVars, started, scriptHooked, m_initialized, world, ready>>

RegisterRPCs ==
  /\ mainAt = "register"
  /\ m_initialized' = TRUE /\ mainAt' = After("register", TRUE)
  /\ UNCHANGED <<overlayVars, started, scriptHooked, clients, world, ready>>

D3D_Start ==
  /\ mainAt = "overlay"
  /\ started' = TRUE /\ mainAt' = After("overlay", TRUE)
  /\ UNCHANGED <<overlayVars, scriptHooked, net, world, ready>>

MainThread == InstallScriptHook \/ CreateClient \/ RegisterRPCs \/ D3D_Start

OverlayThread == started /\ HookThread /\ UNCHANGED bootVars

-----------------------------------------------------------------------------
(* The game: its menu, its scripts.                                        *)

CreateGameDevice ==
  /\ gs = "starting"
  /\ \E d \in Devices : CreateDevice(d)
  /\ UNCHANGED bootVars

ReachMenu ==
  /\ gs = "starting" /\ device # NoDevice
  /\ gs' = "frontend"
  /\ UNCHANGED <<overlayVars, install, net, ped, g_bootDone, scmRan,
                 byHand, ready>>

StartByHand ==
  /\ gs = "frontend"
  /\ gs' = "initPlaying" /\ byHand' = TRUE
  /\ UNCHANGED <<overlayVars, install, net, ped, g_bootDone, scmRan, ready>>

BeginPlaying ==
  /\ gs = "initPlaying"
  /\ gs' = "playing"
  /\ UNCHANGED <<overlayVars, install, net, ped, g_bootDone, scmRan,
                 byHand, ready>>

(* Where the hook is in place no script ever runs again; the first call    *)
(* sets the player up instead.                                             *)
hkRunningScriptProcess ==
  \/ g_bootDone /\ UNCHANGED <<ped, g_bootDone>>
  \/ ~ g_bootDone /\ ped' = TRUE /\ g_bootDone' = TRUE

RunScripts ==
  /\ gs \in {"initPlaying", "playing"}
  /\ \/ scriptHooked /\ hkRunningScriptProcess /\ UNCHANGED scmRan
     \/ ~ scriptHooked /\ ped' = TRUE /\ scmRan' = TRUE /\ UNCHANGED g_bootDone
  /\ UNCHANGED <<overlayVars, gs, byHand, install, net, ready>>

-----------------------------------------------------------------------------
(* A frame of the game once Present is hooked.                             *)

KickFlagOnly ==                  \* mutant: the state is not written
  /\ gs = "frontend" /\ ~ g_kickedToPlaying
  /\ g_kickedToPlaying' = TRUE
  /\ UNCHANGED <<gs, settle, allow_chat>>
Kick ==
  /\ gs = "frontend" /\ ~ g_kickedToPlaying
  /\ gs' = "initPlaying" /\ g_kickedToPlaying' = TRUE
  /\ UNCHANGED <<settle, allow_chat>>

LastSettlingLate == SettleFrames + 1      \* mutant: one frame more
LastSettling == SettleFrames

Settle ==
  /\ g_kickedToPlaying \/ gs # "frontend"
  /\ \/ ~ ped /\ UNCHANGED <<settle, allow_chat>>
     \/ ped /\ settle < LastSettling /\ settle' = settle + 1 /\ UNCHANGED allow_chat
     \/ ped /\ settle = LastSettling /\ allow_chat' = TRUE /\ UNCHANGED settle
  /\ UNCHANGED <<gs, g_kickedToPlaying>>

TickGameReady ==
  \/ /\ g_totalFrames + 1 < MinFrames
     /\ g_totalFrames' = g_totalFrames + 1
     /\ UNCHANGED <<gs, g_kickedToPlaying, settle, allow_chat>>
  \/ /\ g_totalFrames + 1 >= MinFrames
     /\ g_totalFrames' = MinFrames
     /\ Kick \/ Settle

Frame ==
  /\ HookedPresent /\ TickGameReady
  /\ UNCHANGED <<install, net, ped, g_bootDone, scmRan, byHand>>

(* //connect: CNetGame::Connect initializes once more what is not.         *)
UserConnects ==
  /\ Idle /\ g_imgui_init /\ ~ m_initialized
  /\ clients < 2
  /\ clients' = clients + 1 /\ m_initialized' = TRUE
  /\ UNCHANGED <<overlayVars, install, world, ready>>

OtherOverlay ==
  /\ \E d \in Devices, slot \in {"reset", "present"} : Interfere(d, slot)
  /\ UNCHANGED bootVars

GameThread == CreateGameDevice \/ ReachMenu \/ BeginPlaying \/ RunScripts \/ Frame

BootNext ==
  MainThread \/ OverlayThread \/ GameThread \/ StartByHand \/ UserConnects
  \/ OtherOverlay

BootSpec == BootInit /\ [][BootNext]_allVars

-----------------------------------------------------------------------------
(* MainThread has tried to install the script hook and not succeeded.  It  *)
(* does not look at that, and the tick leaves the menu all the same.       *)
HookFailed == mainAt # "scripts" /\ ~ scriptHooked

(* After the client has left the menu, the game's own script has run only  *)
(* where somebody started a game by hand or the hook has failed: never     *)
(* because leaving the menu overtook the installing.                       *)
VanillaOnlyUnasked == scmRan /\ g_kickedToPlaying => byHand \/ HookFailed

(* There is one RakClient.  Both MainThread and //connect make one when    *)
(* CNetGame is not initialized; no lock keeps them apart, only that the    *)
(* user is let in long after MainThread has finished.                      *)
OneClient == clients <= 1

(* The user is let in, to chat and to connect, only where the game has     *)
(* been started and there is a player, and never before MainThread is done.*)
Under == gs \in {"initPlaying", "playing"}
EntersReadyGame == allow_chat => ped /\ Under /\ mainAt = "done"

(* No link of the chain that lets the user in comes undone.                *)
BootGoesForward ==
  [][/\ gs # "starting" => gs' # "starting"
     /\ Under => Under'
     /\ started => started'
     /\ ped => ped'
     /\ g_kickedToPlaying => g_kickedToPlaying'
     /\ g_totalFrames <= g_totalFrames' /\ settle <= settle'
     /\ allow_chat => allow_chat']_allVars

(* In the menu, and once there is a player, no frame goes by in vain: it   *)
(* lets the user in, leaves the menu, or is counted.                       *)
FramesLetIn ==
  [][Frame /\ (ped \/ gs = "frontend")
       => allow_chat' \/ (~ Under /\ Under')
            \/ g_totalFrames + settle < g_totalFrames' + settle']_allVars

(* The player is set up and the user let in, or HookThread has given up    *)
(* before there was a device.  Startup says that it comes to this.         *)
UserIsIn == (allow_chat /\ ped) \/ pc["hook"] = "gone"
=============================================================================
