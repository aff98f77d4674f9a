-------------------------------- MODULE Startup --------------------------------
(***************************************************************************)
(* A launch from the click to the game: the launcher's process (Launcher)  *)
(* and, inside the game's process, the client coming up (Boot).            *)
(*                                                                         *)
(* The game begins its own way to the menu while the launcher still waits  *)
(* and injects, so MainThread may find it anywhere: without a device, in   *)
(* its menu, or with a game started by hand.  MainThread is created by     *)
(* DllMain, and everything in the game ends with its process.              *)
(***************************************************************************)
EXTENDS Launcher, Boot

startupVars == <<launcherVars, allVars>>

StartupInit == LauncherInit /\ BootInit

Running == process = "running"
ClientRuns == Alive /\ dll = "loaded"

(* The game's own steps, which need no client.                             *)
GameComesUp == CreateGameDevice \/ ReachMenu \/ BeginPlaying
GameGoesOn == Running /\ (GameComesUp \/ RunScripts)
GameByHand == Running /\ StartByHand

(* DllMain's thread, the thread that one starts, and the hooks in the      *)
(* game's: each needs the DLL in a live process.                           *)
DllMain == ClientRuns /\ MainThread
DllHookThread == ClientRuns /\ OverlayThread
ShowFrame == Running /\ Frame
UserTypesConnect == Running /\ UserConnects
OthersInterfere == Running /\ OtherOverlay

InGame ==
  \/ GameGoesOn \/ GameByHand \/ DllMain \/ DllHookThread
  \/ ShowFrame \/ UserTypesConnect \/ OthersInterfere

StartupNext ==
  \/ LauncherNext /\ UNCHANGED allVars
  \/ InGame /\ UNCHANGED launcherVars

StartupSpec == StartupInit /\ [][StartupNext]_startupVars

(* The launcher's thread is scheduled and so are the client's; the game,   *)
(* while it lives, goes on from state to state, runs its scripts and shows *)
(* frames.  That it lives is not assumed.                                  *)
StartupFairness ==
  /\ WF_startupVars(RunGame /\ UNCHANGED allVars)
  /\ WF_startupVars(GameStarts /\ UNCHANGED allVars)
  /\ WF_startupVars(DllMain /\ UNCHANGED launcherVars)
  /\ WF_startupVars(DllHookThread /\ UNCHANGED launcherVars)
  /\ WF_startupVars(Running /\ GameComesUp /\ UNCHANGED launcherVars)
  /\ WF_startupVars(Running /\ RunScripts /\ UNCHANGED launcherVars)
  /\ WF_startupVars(ShowFrame /\ UNCHANGED launcherVars)

FairStartupSpec == StartupSpec /\ StartupFairness

-----------------------------------------------------------------------------
(* A launch ends with the user in or with no game: an error is shown and   *)
(* no game left, or the game has ended by itself, or HookThread gave up    *)
(* before there was a device.  Wherever in the game's own start the DLL    *)
(* arrives, nothing is waited for that has already gone by.                *)
LaunchEndsWell == <>(UserIsIn \/ (Over /\ ~ Alive))
=============================================================================
