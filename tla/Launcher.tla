------------------------------- MODULE Launcher -------------------------------
(***************************************************************************)
(* The launcher (launcher/inject.h): it starts gta_sa.exe, waits until the *)
(* process has modules, and makes a thread in it call LoadLibraryW on the  *)
(* client's path, copied into the game's memory.                           *)
(*                                                                         *)
(* Two processes.  Any call of the launcher may fail; the game may exit,   *)
(* crash or hang at any moment, and its loader reads the path and loads    *)
(* the DLL at its own pace.  A kill takes effect at once (the launcher     *)
(* waits three seconds for it).  Paths, messages' texts and the window of  *)
(* the game are left out.                                                  *)
(***************************************************************************)
EXTENDS Integers

CONSTANT ReadyPolls      \* bound: polls within the 15 s of the first wait

ASSUME LauncherAssumption == ReadyPolls \in Nat \ {0}

VARIABLES
  at,          \* what the launcher does next
  handles,     \* handles it holds
  polls,       \* polls of wait_for_process_ready so far
  path,        \* the remote memory the path is in
  result,      \* run_game's, once it returns
  process,     \* the game
  loader,      \* the thread that runs LoadLibraryW in it
  exitCode,    \* that thread's exit code: LoadLibraryW's answer
  dll          \* the client in the game

remote == <<process, loader, exitCode, dll>>
launcherVars == <<at, handles, polls, path, result, remote>>

(* The rights each handle was opened with.                                 *)
Rights(h) ==
  CASE h = "process" -> {"terminate", "synchronize", "query", "memory", "thread"}
    [] h = "inject"  -> {"query", "memory", "thread"}
    [] h = "loader"  -> {"synchronize", "query"}

Alive == process \in {"starting", "running"}
Holds(h) == h \in handles
Reading == loader \in {"started", "loading"}

LauncherTypeOK ==
  /\ at \in {"find", "create", "ready", "open", "alloc", "write", "thread", "wait",
             "code", "error", "kill", "fail", "box", "done", "returned"}
  /\ handles \subseteq {"process", "inject", "loader"}
  /\ polls \in 0 .. ReadyPolls
  /\ path \in {"none", "allocated", "freed"}
  /\ result \in {-1, 0, 1}
  /\ process \in {"none", "starting", "running", "exited"}
  /\ loader \in {"none", "started", "loading", "done"}
  /\ exitCode \in {"none", "null", "nonnull"}
  /\ dll \in {"no", "loaded", "failed"}

LauncherInit ==
  /\ at = "find" /\ handles = {} /\ polls = 0
  /\ path = "none" /\ result = -1
  /\ process = "none" /\ loader = "none" /\ exitCode = "none" /\ dll = "no"

-----------------------------------------------------------------------------
(* What the launcher's failure paths share.                                *)

(* The end of the process ends its threads with the process's exit code,   *)
(* NULL or not.                                                            *)
EndGame ==
  /\ process' = "exited"
  /\ loader' = IF Reading THEN "done" ELSE loader
  /\ exitCode' \in IF Reading THEN {"null", "nonnull"} ELSE {exitCode}
  /\ UNCHANGED dll

(* try_kill_process: the handle must allow it.                             *)
KillWith(h) == Holds(h) /\ Alive /\ "terminate" \in Rights(h)
try_kill_process(h) == IF KillWith(h) THEN EndGame ELSE UNCHANGED remote

(* Every failure of inject_dll_load_library_w closes what it has opened    *)
(* and frees the remote memory before it throws.                           *)
CleanupKeeping(opened) ==                \* mutant: the path is not freed
  /\ handles' = handles \ opened /\ UNCHANGED path
Cleanup(opened) ==
  /\ handles' = handles \ opened
  /\ path' = IF path = "allocated" THEN "freed" ELSE path

Throw(opened) ==
  /\ at' = "fail" /\ Cleanup(opened)
  /\ UNCHANGED <<polls, result, remote>>

-----------------------------------------------------------------------------
(* run_game up to the injection.                                           *)

FindFiles ==
  /\ at = "find"
  /\ \/ at' = "create" /\ UNCHANGED <<handles, polls, path, result, remote>>
     \/ Throw({})

CreateProcess ==
  /\ at = "create"
  /\ \/ /\ at' = "ready" /\ process' = "starting"
        /\ handles' = {"process"}         \* the thread's is closed at once
        /\ UNCHANGED <<polls, path, result, loader, exitCode, dll>>
     \/ Throw({})

(* One turn of wait_for_process_ready.  When its time is up it returns as  *)
(* if the process were ready.                                              *)
LastPoll == ReadyPolls

wait_for_process_ready ==
  /\ at = "ready"
  /\ \/ polls < LastPoll /\ Throw({})      \* exited, or not to be opened
     \/ /\ polls < LastPoll /\ Alive /\ polls' = polls + 1
        /\ UNCHANGED <<at, handles, path, result, remote>>
     \/ /\ process = "running" \/ polls = LastPoll
        /\ at' = "open"
        /\ UNCHANGED <<handles, polls, path, result, remote>>

-----------------------------------------------------------------------------
(* inject_dll_load_library_w.                                              *)

Open ==
  /\ at = "open"
  /\ \/ /\ at' = "alloc" /\ handles' = handles \cup {"inject"}
        /\ UNCHANGED <<polls, path, result, remote>>
     \/ Throw({})

Alloc ==
  /\ at = "alloc"
  /\ \/ /\ Alive /\ at' = "write" /\ path' = "allocated"
        /\ UNCHANGED <<handles, polls, result, remote>>
     \/ Throw({"inject"})

(* WriteProcessMemory and the two lookups in kernel32.                     *)
Write ==
  /\ at = "write"
  /\ \/ /\ Alive /\ at' = "thread"
        /\ UNCHANGED <<handles, polls, path, result, remote>>
     \/ Throw({"inject"})

StartLoader ==
  /\ at = "thread"
  /\ \/ /\ Alive /\ at' = "wait" /\ loader' = "started"
        /\ handles' = handles \cup {"loader"}
        /\ UNCHANGED <<polls, path, result, process, exitCode, dll>>
     \/ Throw({"inject"})

(* Ten seconds for LoadLibraryW; an unexpected answer is a failure too.    *)
TimedOutAccepted ==                        \* mutant: late is taken for done
  /\ at' = "code"
  /\ UNCHANGED <<handles, polls, path, result, remote>>
TimedOutNever == FALSE                     \* mutant: the wait has no end
TimedOut == Throw({"inject", "loader"})

WaitForLoader ==
  /\ at = "wait"
  /\ \/ TimedOut
     \/ /\ loader = "done" /\ at' = "code"
        /\ UNCHANGED <<handles, polls, path, result, remote>>

(* A thread that still runs has an exit code too: STILL_ACTIVE.          *)
ReadExitCode ==
  /\ at = "code"
  /\ \/ Throw({"inject", "loader"})        \* GetExitCodeThread failed
     \/ /\ exitCode = "null" /\ at' = "error" /\ Cleanup({"loader"})
        /\ UNCHANGED <<polls, result, remote>>
     \/ /\ exitCode # "null" /\ at' = "done" /\ Cleanup({"loader", "inject"})
        /\ UNCHANGED <<polls, result, remote>>

(* try_get_remote_last_error asks in a thread of its own, whose last error *)
(* says nothing of the loader's; whatever it answers ends up nowhere.      *)
try_get_remote_last_error ==
  /\ at = "error" /\ at' = "kill"
  /\ UNCHANGED <<handles, polls, path, result, remote>>

KillAndThrow ==
  /\ at = "kill" /\ at' = "fail"
  /\ try_kill_process("inject")
  /\ handles' = handles \ {"inject"}
  /\ UNCHANGED <<polls, path, result>>

-----------------------------------------------------------------------------
(* run_game's two ends.  The handler tells no exception from another.      *)

Done ==
  /\ at = "done" /\ at' = "returned"
  /\ handles' = handles \ {"process"} /\ result' = 0
  /\ UNCHANGED <<polls, path, remote>>

FailNoKill ==                              \* mutant: the game is left alone
  /\ at = "fail" /\ at' = "box"
  /\ handles' = handles \ {"process"}
  /\ UNCHANGED <<polls, path, result, remote>>
Fail ==
  /\ at = "fail" /\ at' = "box"
  /\ try_kill_process("process")
  /\ handles' = handles \ {"process"}
  /\ UNCHANGED <<polls, path, result>>

RunGame ==
  \/ FindFiles \/ CreateProcess \/ wait_for_process_ready
  \/ Open \/ Alloc \/ Write \/ StartLoader \/ WaitForLoader \/ ReadExitCode
  \/ try_get_remote_last_error \/ KillAndThrow
  \/ Done \/ Fail

(* The error is shown in a box, and run_game returns when the user, who    *)
(* may take any time for it, has dismissed that.                           *)
DismissError ==
  /\ at = "box" /\ at' = "returned" /\ result' = 1
  /\ UNCHANGED <<handles, polls, path, remote>>

-----------------------------------------------------------------------------
(* The game.                                                               *)

mine == <<at, handles, polls, path, result>>

GameStarts ==
  /\ process = "starting" /\ process' = "running"
  /\ UNCHANGED <<mine, loader, exitCode, dll>>

GameExits == Alive /\ EndGame /\ UNCHANGED mine

(* The loader reads the path; where it has been freed, it finds no name or *)
(* takes the game with it.                                                 *)
ReadPath ==
  /\ loader = "started" /\ Alive
  /\ \/ path = "allocated" /\ loader' = "loading" /\ UNCHANGED <<process, exitCode, dll>>
     \/ path = "freed" /\ EndGame
     \/ path = "freed" /\ loader' = "done" /\ exitCode' = "null" /\ dll' = "failed"
        /\ UNCHANGED process
  /\ UNCHANGED mine

LoadDll ==
  /\ loader = "loading" /\ Alive
  /\ loader' = "done" /\ UNCHANGED process
  /\ \/ dll' = "loaded" /\ exitCode' = "nonnull"
     \/ dll' = "failed" /\ exitCode' = "null"
  /\ UNCHANGED mine

Game == GameStarts \/ GameExits \/ ReadPath \/ LoadDll

Finished == at = "returned" /\ UNCHANGED launcherVars

LauncherNext == RunGame \/ DismissError \/ Game \/ Finished

LauncherSpec == LauncherInit /\ [][LauncherNext]_launcherVars

(* The launcher's thread runs; of the game nothing is assumed, nor that    *)
(* the user ever dismisses the box.                                        *)
FairLauncherSpec == LauncherSpec /\ WF_launcherVars(RunGame)

-----------------------------------------------------------------------------
(* However run_game ends, it has closed every handle and left no path in   *)
(* the memory of a game that is still there, before it shows an error.     *)
Over == at \in {"box", "returned"}
NothingLeft ==
  Over => handles = {} /\ (path = "allocated" => process = "exited")

(* A launcher that shows or reports an error leaves no game behind,        *)
(* although one of its two kills goes through a handle that may not kill.  *)
FailureLeavesNoGame == at = "box" \/ result = 1 => ~ Alive

(* A launcher that reports success has the client in the game, unless the  *)
(* game has already gone again.                                            *)
SuccessMeansLoaded == result = 0 => dll = "loaded" \/ process = "exited"

(* The path is only pulled from under the thread that reads it in a game   *)
(* that is about to be killed.                                             *)
FreedUnderReaderDies == (path = "freed" /\ Reading) ~> process = "exited"

(* The launcher itself does the killing, with the next thing it does.      *)
FreedUnderReaderEndsIt ==
  [][path = "freed" /\ Reading /\ mine' # mine => process' = "exited"]_launcherVars

(* run_game returns, or has only the user to wait for, whatever the game   *)
(* does.                                                                   *)
RunGameReturns == <>Over

(* The most steps the launcher still takes.                                *)
Place ==
  [find |-> 13, create |-> 12, ready |-> 11, open |-> 10, alloc |-> 9, write |-> 8,
   thread |-> 7, wait |-> 6, code |-> 5, error |-> 4, kill |-> 3, fail |-> 2,
   box |-> 1, done |-> 1, returned |-> 0]
StepsLeft == Place[at] + (ReadyPolls - polls)

(* Every step of the launcher brings it nearer to its return, no loop but  *)
(* the bounded poll, and nothing the game does sets it back.               *)
NearerToReturn ==
  [][StepsLeft' <= StepsLeft /\ (mine' # mine => StepsLeft' < StepsLeft)]_launcherVars
=============================================================================
