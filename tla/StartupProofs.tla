---------------------------- MODULE StartupProofs ----------------------------
(***************************************************************************)
(* However often the launcher polls, and whatever fails: run_game leaves   *)
(* no handle, no path and no failed game behind, and its success is real.  *)
(* However many frames the game shows and wherever in its start the DLL    *)
(* arrives: there is one RakClient, and the game's own script runs only    *)
(* after a start by hand or where the script hook could not be installed.  *)
(* Together the two components, and the overlay inside the second, still   *)
(* do only what each does alone.                                           *)
(***************************************************************************)
EXTENDS Startup, OverlayProofs

(* What the launcher holds at each point.                                  *)
HandlesByPc ==
  /\ at \in {"find", "create", "box", "returned"} => handles = {}
  /\ at \in {"ready", "open", "done"} => handles = {"process"}
  /\ at = "fail" => handles \in {{}, {"process"}}
  /\ at \in {"alloc", "write", "thread", "error", "kill"}
       => handles = {"process", "inject"}
  /\ at \in {"wait", "code"} => handles = {"process", "inject", "loader"}

(* The path is in the game's memory only while the injection goes on.      *)
PathByPc == path = "allocated" => at \in {"write", "thread", "wait", "code"}

(* A game that lives was created, and can still be killed until run_game   *)
(* returns; after a failure it does not live.                              *)
GameByPc ==
  /\ Alive => at \notin {"find", "create"}
  /\ at = "fail" /\ Alive => Holds("process")
  /\ at = "returned" => result \in {0, 1}
  /\ at # "returned" => result = -1
  /\ at = "box" \/ result = 1 => ~ Alive

(* The loader answers once, and only where it was started.                 *)
LoaderByPc ==
  /\ loader # "done" => exitCode = "none"
  /\ at \in {"find", "create", "ready", "open", "alloc", "write", "thread"}
       => loader = "none"

(* A non-null answer comes from a loaded DLL or from the end of the game.  *)
AnswerOfLoader ==
  /\ loader = "done" => exitCode # "none"
  /\ at = "code" => loader = "done"
  /\ exitCode = "nonnull" => dll = "loaded" \/ process = "exited"
  /\ at = "done" \/ result = 0 => exitCode = "nonnull"

LauncherInv ==
  /\ LauncherTypeOK /\ HandlesByPc /\ PathByPc /\ GameByPc /\ LoaderByPc
  /\ AnswerOfLoader

LEMMA LauncherInvInit == LauncherInit => LauncherInv
  BY LauncherAssumption
  DEF LauncherInit, LauncherInv, LauncherTypeOK, HandlesByPc, PathByPc, GameByPc,
      LoaderByPc, AnswerOfLoader, Alive, Holds

(* One throw serves all the failures of the launcher.                      *)
LEMMA ThrowKeeps ==
  ASSUME LauncherInv, NEW opened \in SUBSET {"process", "inject", "loader"}, Throw(opened),
         handles \ opened = {} \/ handles \ opened = {"process"},
         Alive => "process" \in handles \ opened,
         at # "returned"
  PROVE  LauncherInv'
  BY DEF LauncherInv, LauncherTypeOK, HandlesByPc, PathByPc, GameByPc, LoaderByPc, AnswerOfLoader,
         Alive, Holds, Throw, Cleanup, remote

LEMMA LauncherInvNext == LauncherInv /\ [LauncherNext]_launcherVars => LauncherInv'
<1> SUFFICES ASSUME LauncherInv, [LauncherNext]_launcherVars PROVE LauncherInv'
  OBVIOUS
<1> USE LauncherAssumption
<1> USE DEF LauncherInv, LauncherTypeOK, HandlesByPc, PathByPc, GameByPc,
            LoaderByPc, AnswerOfLoader, Alive, Holds, remote
<1>1. CASE FindFiles
  <2>1. CASE Throw({})
    BY <1>1, <2>1, ThrowKeeps DEF FindFiles
  <2> QED BY <1>1, <2>1 DEF FindFiles
<1>2. CASE CreateProcess
  <2>1. CASE Throw({})
    BY <1>2, <2>1, ThrowKeeps DEF CreateProcess
  <2> QED BY <1>2, <2>1 DEF CreateProcess
<1>3. CASE wait_for_process_ready
  <2>1. CASE Throw({})
    BY <1>3, <2>1, ThrowKeeps DEF wait_for_process_ready
  <2> QED BY <1>3, <2>1 DEF wait_for_process_ready, LastPoll
<1>4. CASE Open
  <2>1. CASE Throw({})
    BY <1>4, <2>1, ThrowKeeps DEF Open
  <2> QED BY <1>4, <2>1 DEF Open
<1>5. CASE Alloc
  <2>1. CASE Throw({"inject"})
    BY <1>5, <2>1, ThrowKeeps DEF Alloc
  <2> QED BY <1>5, <2>1 DEF Alloc
<1>6. CASE Write
  <2>1. CASE Throw({"inject"})
    BY <1>6, <2>1, ThrowKeeps DEF Write
  <2> QED BY <1>6, <2>1 DEF Write
<1>7. CASE StartLoader
  <2>1. CASE Throw({"inject"})
    BY <1>7, <2>1, ThrowKeeps DEF StartLoader
  <2> QED BY <1>7, <2>1 DEF StartLoader
<1>8. CASE WaitForLoader
  <2>1. CASE Throw({"inject", "loader"})
    BY <1>8, <2>1, ThrowKeeps DEF WaitForLoader
  <2> QED BY <1>8, <2>1 DEF WaitForLoader, TimedOut
<1>9. CASE ReadExitCode
  <2>1. CASE Throw({"inject", "loader"})
    BY <1>9, <2>1, ThrowKeeps DEF ReadExitCode
  <2> QED BY <1>9, <2>1 DEF ReadExitCode, Cleanup
<1>10. CASE try_get_remote_last_error
  BY <1>10 DEF try_get_remote_last_error
<1>11. CASE KillAndThrow
  BY <1>11 DEF KillAndThrow, try_kill_process, KillWith, Rights
<1>12. CASE Done
  BY <1>12 DEF Done
<1>13. CASE Fail
  <2>1. CASE Alive
    BY <1>13, <2>1 DEF Fail, try_kill_process, KillWith, Rights, EndGame, Reading
  <2>2. CASE ~ Alive
    BY <1>13, <2>2 DEF Fail, try_kill_process, KillWith
  <2> QED BY <2>1, <2>2
<1>14. CASE DismissError
  BY <1>14 DEF DismissError
<1>15. CASE Game
  <2>1. CASE GameStarts
    BY <2>1 DEF GameStarts, mine
  <2>2. CASE GameExits
    BY <2>2 DEF GameExits, EndGame, Reading, mine
  <2>3. CASE ReadPath
    BY <2>3 DEF ReadPath, EndGame, Reading, mine
  <2>4. CASE LoadDll
    BY <2>4 DEF LoadDll, mine
  <2> QED BY <1>15, <2>1, <2>2, <2>3, <2>4 DEF Game
<1>16. CASE UNCHANGED launcherVars
  BY <1>16 DEF launcherVars
<1> QED
  BY <1>1, <1>2, <1>3, <1>4, <1>5, <1>6, <1>7, <1>8, <1>9, <1>10, <1>11, <1>12,
     <1>13, <1>14, <1>15, <1>16 DEF LauncherNext, RunGame, Finished

LEMMA LauncherInvariant == LauncherSpec => []LauncherInv
  BY LauncherInvInit, LauncherInvNext, PTL DEF LauncherSpec

(* Every variable of the launcher keeps to its set.                        *)
THEOREM LauncherTypeCorrect == LauncherSpec => []LauncherTypeOK
<1>1. LauncherInv => LauncherTypeOK
  BY DEF LauncherInv
<1> QED BY <1>1, LauncherInvariant, PTL

(* However run_game ends, its handles are closed and the path is freed.    *)
THEOREM NeverLeaks == LauncherSpec => []NothingLeft
<1>1. LauncherInv => NothingLeft
  BY DEF LauncherInv, HandlesByPc, PathByPc, NothingLeft, Over
<1> QED BY <1>1, LauncherInvariant, PTL

(* After an error no game is left, whichever step failed.                  *)
THEOREM FailureEndsGame == LauncherSpec => []FailureLeavesNoGame
<1>1. LauncherInv => FailureLeavesNoGame
  BY DEF LauncherInv, GameByPc, FailureLeavesNoGame
<1> QED BY <1>1, LauncherInvariant, PTL

(* Success is reported only of a loaded client or a game that has gone.    *)
THEOREM SuccessIsReal == LauncherSpec => []SuccessMeansLoaded
<1>1. LauncherInv => SuccessMeansLoaded
  BY DEF LauncherInv, AnswerOfLoader, SuccessMeansLoaded
<1> QED BY <1>1, LauncherInvariant, PTL

-----------------------------------------------------------------------------
(* The safe halves of the launcher's two liveness properties.              *)

(* A thread that reads the path is in a live game whose launcher waits for *)
(* it or has just given it up; while it waits, the path is there.          *)
ReaderInv ==
  /\ Reading => Alive /\ at \in {"wait", "fail"}
  /\ at \in {"write", "thread", "wait"} => path = "allocated"

LEMMA ReaderInvNext ==
  ASSUME LauncherInv, ReaderInv, [LauncherNext]_launcherVars
  PROVE  ReaderInv'
<1> USE DEF LauncherInv, LauncherTypeOK, LoaderByPc, AnswerOfLoader, Alive, Reading, ReaderInv,
            remote
<1>1. CASE FindFiles \/ CreateProcess \/ wait_for_process_ready \/ Open
  BY <1>1 DEF FindFiles, CreateProcess, wait_for_process_ready, Open, Throw, Cleanup
<1>2. CASE Alloc \/ Write \/ StartLoader
  BY <1>2 DEF Alloc, Write, StartLoader, Throw, Cleanup
<1>3. CASE WaitForLoader \/ ReadExitCode
  BY <1>3 DEF WaitForLoader, TimedOut, ReadExitCode, Throw, Cleanup
<1>4. CASE try_get_remote_last_error \/ KillAndThrow
  BY <1>4 DEF try_get_remote_last_error, KillAndThrow, try_kill_process, KillWith, EndGame
<1>5. CASE Done \/ Fail
  <2>1. CASE Alive /\ Fail
    BY <2>1 DEF Fail, GameByPc, try_kill_process, KillWith, Rights, EndGame
  <2>2. CASE ~ Alive /\ Fail
    BY <2>2 DEF Fail, try_kill_process, KillWith
  <2>3. CASE Done
    BY <2>3 DEF Done
  <2> QED
    BY <1>5, <2>1, <2>2, <2>3
<1>6. CASE Game
  BY <1>6 DEF Game, GameStarts, GameExits, ReadPath, LoadDll, EndGame, mine
<1>7. CASE DismissError \/ UNCHANGED launcherVars
  BY <1>7 DEF DismissError, launcherVars
<1> QED
  BY <1>1, <1>2, <1>3, <1>4, <1>5, <1>6, <1>7 DEF LauncherNext, RunGame, Finished

LEMMA ReaderInvariant == LauncherSpec => [](LauncherInv /\ ReaderInv)
<1>1. LauncherInit => LauncherInv /\ ReaderInv
  BY LauncherInvInit DEF LauncherInit, ReaderInv, Reading
<1>2. LauncherInv /\ ReaderInv /\ [LauncherNext]_launcherVars => (LauncherInv /\ ReaderInv)'
  BY LauncherInvNext, ReaderInvNext
<1> QED
  BY <1>1, <1>2, PTL DEF LauncherSpec

(* The launcher that has pulled the path from under a reader is about to   *)
(* kill the game, through the handle that may: FreedUnderReaderDies rests  *)
(* on nothing but that its thread goes on.                                 *)
THEOREM FreedReaderIsKilled == LauncherSpec => FreedUnderReaderEndsIt
<1>1. ASSUME LauncherInv, ReaderInv, LauncherNext, path = "freed", Reading, mine' # mine
      PROVE  process' = "exited"
  <2>1. at = "fail" /\ Alive
    BY <1>1 DEF ReaderInv
  <2>2. KillWith("process")
    BY <1>1, <2>1 DEF LauncherInv, GameByPc, KillWith, Holds, Rights
  <2>3. ~ Game
    BY <1>1 DEF Game, GameStarts, GameExits, ReadPath, LoadDll, mine
  <2>4. Fail
    BY <1>1, <2>1, <2>3
    DEF LauncherNext, Finished, RunGame, FindFiles, CreateProcess, wait_for_process_ready,
        Open, Alloc, Write, StartLoader, WaitForLoader, ReadExitCode,
        try_get_remote_last_error, KillAndThrow, Done, DismissError
  <2> QED
    BY <2>2, <2>4 DEF Fail, try_kill_process, EndGame
<1>2. LauncherInv /\ ReaderInv /\ [LauncherNext]_launcherVars
      => [path = "freed" /\ Reading /\ mine' # mine => process' = "exited"]_launcherVars
  BY <1>1
<1> QED
  BY <1>2, ReaderInvariant, PTL DEF LauncherSpec, FreedUnderReaderEndsIt

(* What a step of the launcher does to its place and its polls.            *)
LEMMA LauncherGoesForward ==
  ASSUME LauncherTypeOK, RunGame \/ DismissError
  PROVE  \/ polls' = polls /\ Place[at'] < Place[at]
         \/ at' = at /\ polls' = polls + 1
<1>1. CASE FindFiles \/ CreateProcess \/ Open \/ Alloc \/ Write \/ StartLoader
  BY <1>1 DEF FindFiles, CreateProcess, Open, Alloc, Write, StartLoader, Throw, Place
<1>2. CASE wait_for_process_ready
  BY <1>2 DEF wait_for_process_ready, Throw, Place
<1>3. CASE WaitForLoader \/ ReadExitCode \/ try_get_remote_last_error
  BY <1>3 DEF WaitForLoader, TimedOut, ReadExitCode, try_get_remote_last_error, Throw, Place
<1>4. CASE KillAndThrow \/ Done \/ Fail \/ DismissError
  BY <1>4 DEF KillAndThrow, Done, Fail, DismissError, Place
<1> QED
  BY <1>1, <1>2, <1>3, <1>4 DEF RunGame

LEMMA PlaceIsNatural == LauncherTypeOK => Place[at] \in Nat
BY DEF LauncherTypeOK, Place

(* run_game comes to its end in at most StepsLeft of its own steps, a      *)
(* natural number, however long the game takes for its own.                *)
THEOREM LauncherWindsDown == LauncherSpec => [](StepsLeft \in Nat) /\ NearerToReturn
<1>1. LauncherInv => StepsLeft \in Nat
  BY LauncherAssumption, PlaceIsNatural DEF LauncherInv, LauncherTypeOK, StepsLeft
<1>2. ASSUME LauncherInv, LauncherInv', [LauncherNext]_launcherVars
      PROVE  StepsLeft' <= StepsLeft /\ (mine' # mine => StepsLeft' < StepsLeft)
  <2>1. /\ Place[at] \in Nat /\ Place[at'] \in Nat
        /\ polls \in Nat /\ polls' \in Nat /\ ReadyPolls \in Nat
    BY <1>2, LauncherAssumption, PlaceIsNatural DEF LauncherInv, LauncherTypeOK, Place
  <2>2. CASE RunGame \/ DismissError
    BY <1>2, <2>1, <2>2, LauncherGoesForward DEF LauncherInv, StepsLeft, Place
  <2>3. CASE UNCHANGED mine
    BY <2>1, <2>3 DEF mine, StepsLeft, Place
  <2>4. RunGame \/ DismissError \/ UNCHANGED mine
    BY <1>2 DEF LauncherNext, Finished, Game, GameStarts, GameExits, ReadPath, LoadDll, mine,
                launcherVars
  <2> QED
    BY <2>2, <2>3, <2>4
<1>3. LauncherInv /\ LauncherInv' /\ [LauncherNext]_launcherVars
      => [StepsLeft' <= StepsLeft /\ (mine' # mine => StepsLeft' < StepsLeft)]_launcherVars
  BY <1>2
<1> QED
  BY <1>1, <1>3, LauncherInvariant, PTL DEF LauncherSpec, NearerToReturn

-----------------------------------------------------------------------------
(* Boot, and the overlay in it.                                            *)

(* A step of the client coming up is one of the overlay's, or none.        *)
LEMMA BootStepIsOverlays == [BootNext]_allVars => [OverlayNext]_overlayVars
<1> SUFFICES ASSUME [BootNext]_allVars PROVE [OverlayNext]_overlayVars
  OBVIOUS
<1>1. CASE UNCHANGED allVars
  BY <1>1 DEF allVars
<1>2. CASE MainThread
  BY <1>2 DEF MainThread, InstallScriptHook, CreateClient, RegisterRPCs, D3D_Start
<1>3. CASE OverlayThread
  BY <1>3 DEF OverlayThread, OverlayNext
<1>4. CASE Frame
  <2>1. allow_chat' \in {allow_chat, TRUE}
    BY <1>4 DEF Frame, TickGameReady, Kick, Settle
  <2> QED  BY <1>4, <2>1 DEF Frame, Present, OverlayNext
<1>5. CASE CreateGameDevice \/ OtherOverlay
  BY <1>5 DEF CreateGameDevice, OtherOverlay, OverlayNext, Environment
<1>6. CASE ReachMenu \/ BeginPlaying \/ RunScripts \/ StartByHand \/ UserConnects
  BY <1>6 DEF ReachMenu, BeginPlaying, RunScripts, StartByHand, UserConnects
<1> QED
  BY <1>1, <1>2, <1>3, <1>4, <1>5, <1>6 DEF BootNext, GameThread

(* The overlay's theorems hold of a game that is starting.                 *)
THEOREM BootImplementsOverlay == BootSpec => OverlaySpec
<1>1. BootInit => OverlayInit
  BY DEF BootInit
<1> QED  BY <1>1, BootStepIsOverlays, PTL DEF BootSpec, OverlaySpec

(* What Boot adds to the overlay keeps its types.                          *)
ClientTypes ==
  /\ mainAt \in {"scripts", "create", "register", "overlay", "done"}
  /\ started \in BOOLEAN /\ clients \in 0 .. 2
  /\ scriptHooked \in BOOLEAN /\ m_initialized \in BOOLEAN /\ ped \in BOOLEAN
  /\ g_bootDone \in BOOLEAN /\ scmRan \in BOOLEAN /\ byHand \in BOOLEAN
  /\ g_kickedToPlaying \in BOOLEAN
  /\ gs \in {"starting", "frontend", "initPlaying", "playing"}
  /\ g_totalFrames \in 0 .. MinFrames /\ settle \in 0 .. SettleFrames

(* MainThread has made one client where it got that far; what it did not   *)
(* do is done by //connect, in a game whose overlay is up.                 *)
ClientInv ==
  /\ mainAt \in {"scripts", "create"} => clients = 0 /\ ~ m_initialized
  /\ mainAt = "register" => clients = 1 /\ ~ m_initialized
  /\ mainAt \in {"overlay", "done"} => clients <= 1 /\ (clients = 1 => m_initialized)

(* Before HookThread is created no frame is the client's.                  *)
QuietInv ==
  /\ started => mainAt = "done"
  /\ ~ started => /\ pc["hook"] = "wait" /\ pc["game"] = "idle"
                  /\ \A d \in Devices : vtbl[d].reset = "orig" /\ vtbl[d].present = "orig"
                  /\ ~ g_imgui_init /\ ~ g_kickedToPlaying

(* How a game can be under way, and how its own script can have run.       *)
PlayInv ==
  /\ gs \in {"initPlaying", "playing"} => byHand \/ g_kickedToPlaying
  /\ scmRan => gs \in {"initPlaying", "playing"}
  /\ scmRan /\ scriptHooked => byHand

BootInv == ClientTypes /\ ClientInv /\ QuietInv /\ PlayInv

LEMMA BootInvInit == BootInit => BootInv
<1> SUFFICES ASSUME BootInit PROVE BootInv
  OBVIOUS
<1> USE DEF BootInit
<1>0. mainAt = "scripts"
  BY DEF After
<1>1. ClientTypes
  <2>1. 0 \in 0 .. 2 /\ 0 \in 0 .. MinFrames /\ 0 \in 0 .. SettleFrames
    BY BootAssumption
  <2> QED  BY <1>0, <2>1 DEF ClientTypes
<1>2. ClientInv /\ PlayInv
  BY <1>0 DEF ClientInv, PlayInv
<1>3. pc["hook"] = "wait" /\ pc["game"] = "idle"
  BY DEF OverlayInit, Threads
<1>4. \A d \in Devices : vtbl[d].reset = "orig" /\ vtbl[d].present = "orig"
  BY DEF OverlayInit
<1>5. QuietInv
  BY <1>3, <1>4 DEF QuietInv, OverlayInit
<1> QED  BY <1>1, <1>2, <1>5 DEF BootInv

(* MainThread's steps: the game's thread and HookThread wait meanwhile.    *)
LEMMA MainKeepsBootInv == BootInv /\ MainThread => BootInv'
<1> SUFFICES ASSUME BootInv, MainThread PROVE BootInv'
  OBVIOUS
<1> USE DEF BootInv
<1>1. UNCHANGED <<overlayVars, world, ready>>
  BY DEF MainThread, InstallScriptHook, CreateClient, RegisterRPCs, D3D_Start
<1>2. UNCHANGED <<pc, vtbl, g_imgui_init, g_kickedToPlaying, gs, scmRan, byHand, ped, g_bootDone,
                  g_totalFrames, settle>>
  BY <1>1 DEF overlayVars, thread, imgui, world, ready
<1>3. CASE InstallScriptHook
  <2>1. /\ mainAt = "scripts" /\ mainAt' \in {"create", "overlay"} /\ scriptHooked' \in BOOLEAN
        /\ UNCHANGED <<started, clients, m_initialized>>
    BY <1>3 DEF InstallScriptHook, After, net
  <2>2. ClientTypes' /\ ClientInv'
    BY <1>2, <2>1 DEF ClientTypes, ClientInv
  <2>3. QuietInv'
    BY <1>2, <2>1 DEF QuietInv
  <2>4. PlayInv'
    BY <1>2, <2>1 DEF PlayInv, QuietInv
  <2> QED  BY <2>2, <2>3, <2>4
<1>4. CASE CreateClient
  <2>1. /\ mainAt = "create" /\ UNCHANGED <<started, scriptHooked, m_initialized>>
        /\ \/ mainAt' = "register" /\ clients' = clients + 1
           \/ mainAt' = "overlay" /\ clients' = clients
    BY <1>4 DEF CreateClient, After
  <2>2. ClientTypes' /\ ClientInv'
    BY <1>2, <2>1 DEF ClientTypes, ClientInv
  <2>3. QuietInv' /\ PlayInv'
    BY <1>2, <2>1 DEF QuietInv, PlayInv
  <2> QED  BY <2>2, <2>3
<1>5. CASE RegisterRPCs
  <2>1. /\ mainAt = "register" /\ mainAt' = "overlay" /\ m_initialized' = TRUE
        /\ UNCHANGED <<started, scriptHooked, clients>>
    BY <1>5 DEF RegisterRPCs, After
  <2>2. ClientTypes' /\ ClientInv' /\ QuietInv' /\ PlayInv'
    BY <1>2, <2>1 DEF ClientTypes, ClientInv, QuietInv, PlayInv
  <2> QED  BY <2>2
<1>6. CASE D3D_Start
  <2>1. /\ mainAt = "overlay" /\ mainAt' = "done" /\ started' = TRUE
        /\ UNCHANGED <<scriptHooked, clients, m_initialized>>
    BY <1>6 DEF D3D_Start, After, net
  <2>2. ClientTypes' /\ ClientInv' /\ QuietInv' /\ PlayInv'
    BY <1>2, <2>1 DEF ClientTypes, ClientInv, QuietInv, PlayInv
  <2> QED  BY <2>2
<1> QED  BY <1>3, <1>4, <1>5, <1>6 DEF MainThread

(* A frame of the client's, which it shows only once HookThread runs.      *)
LEMMA FrameKeepsBootInv == BootInv /\ OverlayTypeOK /\ Frame => BootInv'
<1> SUFFICES ASSUME BootInv, OverlayTypeOK, Frame PROVE BootInv'
  OBVIOUS
<1> USE DEF BootInv
<1>1. UNCHANGED <<mainAt, started, scriptHooked, clients, m_initialized, ped, g_bootDone,
                  scmRan, byHand>>
  BY DEF Frame, install, net
<1>2. started
  BY DEF Frame, HookedPresent, QuietInv, OverlayTypeOK
<1>3. /\ g_totalFrames' \in 0 .. MinFrames /\ settle' \in 0 .. SettleFrames
      /\ g_kickedToPlaying' \in BOOLEAN /\ (gs' = gs \/ (gs' = "initPlaying" /\ g_kickedToPlaying'))
      /\ g_kickedToPlaying => g_kickedToPlaying'
      /\ gs' # gs => gs = "frontend"
  <2>1. g_totalFrames' \in 0 .. MinFrames
    BY BootAssumption DEF Frame, TickGameReady, ClientTypes
  <2>2. settle' \in 0 .. SettleFrames
    BY BootAssumption DEF Frame, TickGameReady, Kick, Settle, LastSettling, ClientTypes
  <2>3. \/ UNCHANGED <<gs, g_kickedToPlaying>>
        \/ gs = "frontend" /\ gs' = "initPlaying" /\ g_kickedToPlaying' = TRUE
    BY DEF Frame, TickGameReady, Kick, Settle
  <2> QED  BY <2>1, <2>2, <2>3 DEF ClientTypes
<1>4. ClientTypes' /\ ClientInv'
  BY <1>1, <1>3 DEF ClientTypes, ClientInv
<1>5. QuietInv'
  BY <1>1, <1>2 DEF QuietInv
<1>6. PlayInv'
  BY <1>1, <1>3 DEF PlayInv
<1> QED  BY <1>4, <1>5, <1>6

(* Everything else: HookThread, the game's own way up, the user, others.   *)
LEMMA OthersKeepBootInv ==
  ASSUME BootInv, OverlayTypeOK,
         \/ OverlayThread \/ CreateGameDevice \/ OtherOverlay
         \/ ReachMenu \/ BeginPlaying \/ StartByHand \/ RunScripts \/ UserConnects
  PROVE  BootInv'
<1> USE DEF BootInv
<1>1. CASE OverlayThread
  <2>1. started /\ UNCHANGED <<install, net, world, ready>>
    BY <1>1 DEF OverlayThread, bootVars
  <2>2. ClientTypes' /\ ClientInv' /\ PlayInv' /\ QuietInv'
    BY <2>1 DEF ClientTypes, ClientInv, PlayInv, QuietInv, install, net, world, ready
  <2> QED  BY <2>2
<1>2. CASE CreateGameDevice \/ OtherOverlay
  <2>1. UNCHANGED <<install, net, world, ready>>
    BY <1>2 DEF CreateGameDevice, OtherOverlay, bootVars
  <2>2. UNCHANGED <<pc, g_imgui_init>>
    BY <1>2 DEF CreateGameDevice, OtherOverlay, CreateDevice, Interfere, imgui, thread
  <2>3. ~ started => UNCHANGED vtbl
    <3>1. CASE CreateGameDevice
      BY <3>1 DEF CreateGameDevice, CreateDevice
    <3>2. ASSUME NEW d \in Devices, NEW slot \in {"reset", "present"}, Interfere(d, slot), ~ started
          PROVE  FALSE
      BY <3>2 DEF Interfere, QuietInv
    <3> QED  BY <1>2, <3>1, <3>2 DEF OtherOverlay
  <2>4. ClientTypes' /\ ClientInv' /\ PlayInv'
    BY <2>1 DEF ClientTypes, ClientInv, PlayInv, install, net, world, ready
  <2>5. QuietInv'
    BY <2>1, <2>2, <2>3 DEF QuietInv, install, ready
  <2> QED  BY <2>4, <2>5
<1>3. CASE ReachMenu \/ BeginPlaying \/ StartByHand \/ RunScripts
  <2>1. UNCHANGED <<overlayVars, install, net, ready>>
    BY <1>3 DEF ReachMenu, BeginPlaying, StartByHand, RunScripts
  <2>2. /\ ped' \in BOOLEAN /\ g_bootDone' \in BOOLEAN /\ scmRan' \in BOOLEAN
        /\ byHand' \in BOOLEAN /\ gs' \in {"starting", "frontend", "initPlaying", "playing"}
    BY <1>3 DEF ReachMenu, BeginPlaying, StartByHand, RunScripts, hkRunningScriptProcess,
                ClientTypes
  <2>3. PlayInv'
    BY <1>3, <2>1 DEF ReachMenu, BeginPlaying, StartByHand, RunScripts, PlayInv, install, ready
  <2>4. ClientTypes' /\ ClientInv'
    BY <2>1, <2>2 DEF ClientTypes, ClientInv, install, net, ready
  <2>5. QuietInv'
    BY <2>1 DEF QuietInv, install, ready, overlayVars, thread, imgui
  <2> QED  BY <2>3, <2>4, <2>5
<1>4. CASE UserConnects
  <2>1. /\ started /\ clients < 2 /\ ~ m_initialized
        /\ clients' = clients + 1 /\ m_initialized' = TRUE
        /\ UNCHANGED <<overlayVars, install, world, ready>>
    BY <1>4 DEF UserConnects, QuietInv
  <2>2. ClientTypes' /\ ClientInv'
    BY <2>1 DEF ClientTypes, ClientInv, QuietInv, install, world, ready
  <2>3. QuietInv' /\ PlayInv'
    BY <2>1 DEF QuietInv, PlayInv, install, world, ready
  <2> QED  BY <2>2, <2>3
<1> QED  BY <1>1, <1>2, <1>3, <1>4

LEMMA BootInvNext == BootInv /\ OverlayTypeOK /\ [BootNext]_allVars => BootInv'
<1> SUFFICES ASSUME BootInv, OverlayTypeOK, [BootNext]_allVars PROVE BootInv'
  OBVIOUS
<1>1. CASE UNCHANGED allVars
  BY <1>1 DEF allVars, bootVars, overlayVars, thread, imgui, install, net, world, ready,
              BootInv, ClientTypes, ClientInv, QuietInv, PlayInv
<1> QED
  BY <1>1, MainKeepsBootInv, FrameKeepsBootInv, OthersKeepBootInv DEF BootNext, GameThread

LEMMA BootInvariant == BootSpec => []BootInv
  BY BootInvInit, BootInvNext, BootImplementsOverlay, OverlayTypeCorrect, PTL DEF BootSpec

(* The state of the three threads keeps its types.                         *)
THEOREM BootTypeCorrect == BootSpec => []BootTypeOK
<1>1. BootInv /\ OverlayTypeOK => BootTypeOK
  BY DEF BootInv, ClientTypes, BootTypeOK
<1> QED  BY <1>1, BootInvariant, BootImplementsOverlay, OverlayTypeCorrect, PTL

(* There is one RakClient, whichever thread gets to make it.               *)
THEOREM OneClientOnly == BootSpec => []OneClient
<1>1. BootInv => OneClient
  BY DEF BootInv, ClientTypes, ClientInv, OneClient
<1> QED  BY <1>1, BootInvariant, PTL

(* Where the client has left the menu, the game's own script has run only  *)
(* after a start by hand or a script hook that could not be installed: the *)
(* order of the installing lets in no third way.                           *)
THEOREM VanillaIsUnasked == BootSpec => []VanillaOnlyUnasked
<1>1. BootInv => VanillaOnlyUnasked
  BY DEF BootInv, ClientTypes, QuietInv, PlayInv, VanillaOnlyUnasked, HookFailed
<1> QED  BY <1>1, BootInvariant, PTL

-----------------------------------------------------------------------------
(* The way in: the safe half of LaunchEndsWell.                            *)

(* Both the kick and the player belong to a game that has been started.    *)
EntryInv ==
  /\ g_kickedToPlaying => Under
  /\ ped => Under
  /\ allow_chat => ped /\ started

(* What a frame does to the tick's own state.                              *)
LEMMA FrameTicks ==
  ASSUME BootInv, EntryInv, Frame
  PROVE  /\ UNCHANGED <<ped, started>>
         /\ \/ UNCHANGED <<gs, g_kickedToPlaying>>
            \/ gs = "frontend" /\ gs' = "initPlaying" /\ g_kickedToPlaying'
         /\ \/ UNCHANGED allow_chat
            \/ ped /\ allow_chat' = TRUE
         /\ g_totalFrames <= g_totalFrames' /\ settle <= settle'
         /\ ped \/ gs = "frontend"
              => \/ allow_chat' = TRUE \/ gs' # gs
                 \/ g_totalFrames < g_totalFrames' \/ settle < settle'
<1>1. UNCHANGED <<ped, started>> /\ TickGameReady
  BY DEF Frame, install
<1>2. g_totalFrames \in Nat /\ settle \in Nat /\ MinFrames \in Nat
      /\ g_totalFrames <= MinFrames
  BY BootAssumption DEF BootInv, ClientTypes
<1>3. CASE /\ g_totalFrames' = g_totalFrames + 1
           /\ UNCHANGED <<gs, g_kickedToPlaying, settle, allow_chat>>
  BY <1>1, <1>2, <1>3
<1>4. CASE g_totalFrames' = MinFrames /\ Kick
  BY <1>1, <1>2, <1>4 DEF Kick
<1>5. CASE g_totalFrames' = MinFrames /\ Settle
  <2>1. UNCHANGED <<gs, g_kickedToPlaying>>
    BY <1>5 DEF Settle
  <2>2. \/ ~ ped /\ UNCHANGED <<settle, allow_chat>>
        \/ ped /\ settle' = settle + 1 /\ UNCHANGED allow_chat
        \/ ped /\ allow_chat' = TRUE /\ UNCHANGED settle
    BY <1>5 DEF Settle
  <2>3. gs # "frontend"
    BY <1>5 DEF Settle, EntryInv, Under
  <2> QED
    BY <1>1, <1>2, <1>5, <2>1, <2>2, <2>3
<1> QED
  BY <1>1, <1>3, <1>4, <1>5 DEF TickGameReady

(* What any other step does to it.                                         *)
LEMMA OthersLeaveTick ==
  ASSUME BootInv, EntryInv, [BootNext]_allVars, ~ Frame
  PROVE  /\ UNCHANGED <<ready, allow_chat>>
         /\ started => started'
         /\ ped => ped'
         /\ ped' => ped \/ Under
         /\ gs # "starting" => gs' # "starting"
         /\ Under => Under'
<1> USE DEF Under
<1>1. CASE MainThread
  <2>1. UNCHANGED <<overlayVars, world, ready>>
    BY <1>1 DEF MainThread, InstallScriptHook, CreateClient, RegisterRPCs, D3D_Start
  <2>2. started => started'
    BY <1>1 DEF MainThread, InstallScriptHook, CreateClient, RegisterRPCs, D3D_Start
  <2> QED
    BY <2>1, <2>2 DEF overlayVars, imgui, world
<1>2. CASE OverlayThread
  <2>1. UNCHANGED imgui
    BY <1>2 DEF OverlayThread, HookThread, HookDevice, CheckReset, StoreReset, CheckPresent,
                StorePresent, PatchReset, PatchPresent, LookForDevice, Poll, RepairReset,
                RepairPresent, Repair
  <2> QED
    BY <1>2, <2>1 DEF OverlayThread, bootVars, install, world, imgui
<1>3. CASE CreateGameDevice \/ OtherOverlay
  BY <1>3 DEF CreateGameDevice, OtherOverlay, CreateDevice, Interfere, imgui, bootVars, install,
              world
<1>4. CASE ReachMenu \/ BeginPlaying \/ StartByHand
  BY <1>4 DEF ReachMenu, BeginPlaying, StartByHand, overlayVars, imgui, install
<1>5. CASE RunScripts
  BY <1>5 DEF RunScripts, hkRunningScriptProcess, overlayVars, imgui, install
<1>6. CASE UserConnects
  BY <1>6 DEF UserConnects, overlayVars, imgui, install, world
<1>7. CASE UNCHANGED allVars
  BY <1>7 DEF allVars, overlayVars, imgui, bootVars, install, world
<1> QED
  BY <1>1, <1>2, <1>3, <1>4, <1>5, <1>6, <1>7 DEF BootNext, GameThread

LEMMA EntryInvNext ==
  ASSUME BootInv, OverlayTypeOK, EntryInv, [BootNext]_allVars
  PROVE  EntryInv'
<1>1. CASE Frame
  <2>1. started
    BY <1>1 DEF Frame, HookedPresent, BootInv, QuietInv, OverlayTypeOK
  <2>2. /\ UNCHANGED <<ped, started>>
        /\ \/ UNCHANGED <<gs, g_kickedToPlaying>>
           \/ gs = "frontend" /\ gs' = "initPlaying" /\ g_kickedToPlaying'
        /\ UNCHANGED allow_chat \/ (ped /\ allow_chat' = TRUE)
    BY <1>1, FrameTicks
  <2>3. Under => Under'
    BY <2>2 DEF Under
  <2>4. g_kickedToPlaying' => Under'
    BY <2>2, <2>3 DEF EntryInv, Under
  <2>5. (ped' => Under') /\ (allow_chat' => ped' /\ started')
    BY <2>1, <2>2, <2>3 DEF EntryInv
  <2> QED
    BY <2>4, <2>5 DEF EntryInv
<1>2. CASE ~ Frame
  BY <1>2, OthersLeaveTick DEF EntryInv, ready
<1> QED
  BY <1>1, <1>2

LEMMA EntryInvariant == BootSpec => [](BootInv /\ EntryInv)
<1>1. BootInit => EntryInv
  BY DEF BootInit, OverlayInit, EntryInv
<1>2. BootInv /\ OverlayTypeOK /\ EntryInv /\ [BootNext]_allVars => EntryInv'
  BY EntryInvNext
<1> QED
  BY <1>1, <1>2, BootInvariant, BootImplementsOverlay, OverlayTypeCorrect, PTL DEF BootSpec

(* Nobody chats or connects before there is a player in a started game.    *)
THEOREM UserEntersReadyGame == BootSpec => []EntersReadyGame
<1>1. BootInv /\ EntryInv => EntersReadyGame
  BY DEF BootInv, QuietInv, EntryInv, EntersReadyGame
<1> QED
  BY <1>1, EntryInvariant, PTL

(* Each link of the chain, once made, holds, so that the frames and turns  *)
(* fairness grants add up.                                                 *)
THEOREM BootNeverGoesBack == BootSpec => BootGoesForward
<1>1. ASSUME BootInv, EntryInv, [BootNext]_allVars
      PROVE  /\ gs # "starting" => gs' # "starting"
             /\ Under => Under'
             /\ started => started'
             /\ ped => ped'
             /\ g_kickedToPlaying => g_kickedToPlaying'
             /\ g_totalFrames <= g_totalFrames' /\ settle <= settle'
             /\ allow_chat => allow_chat'
  <2>1. CASE Frame
    <3>1. /\ UNCHANGED <<ped, started>>
          /\ \/ UNCHANGED <<gs, g_kickedToPlaying>>
             \/ gs = "frontend" /\ gs' = "initPlaying" /\ g_kickedToPlaying'
          /\ UNCHANGED allow_chat \/ (ped /\ allow_chat' = TRUE)
      BY <1>1, <2>1, FrameTicks
    <3>2. g_totalFrames <= g_totalFrames' /\ settle <= settle'
      BY <1>1, <2>1, FrameTicks
    <3>3. (gs # "starting" => gs' # "starting") /\ (Under => Under')
      BY <3>1 DEF Under
    <3>4. (g_kickedToPlaying => g_kickedToPlaying') /\ (allow_chat => allow_chat')
      BY <3>1
    <3> QED
      BY <3>1, <3>2, <3>3, <3>4
  <2>2. CASE ~ Frame
    <3>1. g_totalFrames \in Int /\ settle \in Int
      BY <1>1 DEF BootInv, ClientTypes
    <3>2. UNCHANGED <<g_totalFrames, settle, g_kickedToPlaying, allow_chat>>
      BY <1>1, <2>2, OthersLeaveTick DEF ready
    <3> QED
      BY <1>1, <2>2, <3>1, <3>2, OthersLeaveTick
  <2> QED
    BY <2>1, <2>2
<1>2. BootInv /\ EntryInv /\ [BootNext]_allVars
      => [/\ gs # "starting" => gs' # "starting"
          /\ Under => Under'
          /\ started => started'
          /\ ped => ped'
          /\ g_kickedToPlaying => g_kickedToPlaying'
          /\ g_totalFrames <= g_totalFrames' /\ settle <= settle'
          /\ allow_chat => allow_chat']_allVars
  BY <1>1
<1> QED
  BY <1>2, EntryInvariant, PTL DEF BootSpec, BootGoesForward

(* In the menu, or with a player, the user is at most MinFrames +          *)
(* SettleFrames + 2 frames away from his entry.                            *)
THEOREM EveryFrameLetsIn == BootSpec => FramesLetIn
<1>1. ASSUME BootInv, BootInv', EntryInv, Frame, ped \/ gs = "frontend"
      PROVE  allow_chat' \/ (~ Under /\ Under')
               \/ g_totalFrames + settle < g_totalFrames' + settle'
  <2>1. /\ g_totalFrames \in Nat /\ settle \in Nat
        /\ g_totalFrames' \in Nat /\ settle' \in Nat
    BY <1>1, BootAssumption DEF BootInv, ClientTypes
  <2>2. g_totalFrames <= g_totalFrames' /\ settle <= settle'
    BY <1>1, FrameTicks
  <2>3. CASE allow_chat' = TRUE
    BY <2>3
  <2>4. CASE gs' # gs
    <3>1. gs = "frontend" /\ gs' = "initPlaying"
      BY <1>1, <2>4, FrameTicks
    <3>2. ~ Under /\ Under'
      BY <3>1 DEF Under
    <3> QED
      BY <3>2, Zenon
  <2>5. CASE g_totalFrames < g_totalFrames' \/ settle < settle'
    <3>1. \A a, b, c, d \in Nat : a <= c /\ b <= d /\ (a < c \/ b < d) => a + b < c + d
      OBVIOUS
    <3>2. g_totalFrames + settle < g_totalFrames' + settle'
      BY <2>1, <2>2, <2>5, <3>1
    <3> QED
      BY <3>2, Zenon
  <2> QED
    BY <1>1, <2>3, <2>4, <2>5, FrameTicks
<1>2. BootInv /\ BootInv' /\ EntryInv /\ [BootNext]_allVars
      => [Frame /\ (ped \/ gs = "frontend")
            => allow_chat' \/ (~ Under /\ Under')
                 \/ g_totalFrames + settle < g_totalFrames' + settle']_allVars
  BY <1>1
<1> QED
  BY <1>2, EntryInvariant, PTL DEF BootSpec, FramesLetIn

-----------------------------------------------------------------------------
(* The launch: the launcher's process and the game's.                      *)

(* The launcher does to the launch what it does alone.                     *)
THEOREM StartupImplementsLauncher == StartupSpec => LauncherSpec
<1>1. StartupInit => LauncherInit
  BY DEF StartupInit
<1>2. [StartupNext]_startupVars => [LauncherNext]_launcherVars
  BY DEF StartupNext, startupVars
<1> QED  BY <1>1, <1>2, PTL DEF StartupSpec, LauncherSpec

(* So does the client, whenever it is loaded and however it ends: OneClient*)
(* and VanillaOnlyUnasked hold of a launch.                                *)
THEOREM StartupImplementsBoot == StartupSpec => BootSpec
<1>1. StartupInit => BootInit
  BY DEF StartupInit
<1>2. [StartupNext]_startupVars => [BootNext]_allVars
  <2> SUFFICES ASSUME [StartupNext]_startupVars PROVE [BootNext]_allVars
    OBVIOUS
  <2>1. CASE UNCHANGED allVars
    BY <2>1
  <2>2. CASE InGame
    BY <2>2 DEF InGame, GameGoesOn, GameComesUp, GameByHand, DllMain, DllHookThread, ShowFrame,
                UserTypesConnect, OthersInterfere, BootNext, GameThread
  <2> QED  BY <2>1, <2>2 DEF StartupNext, startupVars
<1> QED  BY <1>1, <1>2, PTL DEF StartupSpec, BootSpec

(* So a launch, whatever fails in either process and whenever, keeps every *)
(* promise of its three parts: the launcher's, the client's and the hooks'.*)
THEOREM LaunchIsSafe ==
  StartupSpec =>
    /\ []NothingLeft /\ []FailureLeavesNoGame /\ []SuccessMeansLoaded
    /\ []OneClient /\ []VanillaOnlyUnasked /\ []EntersReadyGame
    /\ []NeverItself /\ []OriginalsKnown
BY StartupImplementsLauncher, NeverLeaks, FailureEndsGame, SuccessIsReal,
   StartupImplementsBoot, OneClientOnly, VanillaIsUnasked, UserEntersReadyGame,
   BootImplementsOverlay, NeverCapturesItself, OriginalsAlwaysKnown, PTL

(* And no step of the one sets back what the other has come to.            *)
THEOREM LaunchGoesForward ==
  StartupSpec =>
    /\ FreedUnderReaderEndsIt /\ NearerToReturn
    /\ BootGoesForward /\ FramesLetIn /\ WatchGoesRound
BY StartupImplementsLauncher, FreedReaderIsKilled, LauncherWindsDown,
   StartupImplementsBoot, BootNeverGoesBack, EveryFrameLetsIn,
   BootImplementsOverlay, HookThreadGoesRound, PTL
=============================================================================
