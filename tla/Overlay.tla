------------------------------- MODULE Overlay -------------------------------
(***************************************************************************)
(* The Direct3D hooks (d3d.cpp): how the overlay gets into the game's      *)
(* device, and how a device reset is survived.                             *)
(*                                                                         *)
(* Two threads share the globals of d3d.cpp without a lock.  HookThread    *)
(* waits for the game's device, replaces two slots of its method table     *)
(* (Reset and Present) and from then on comes back every 250 ms to put the *)
(* hooks back where something else has removed them.  The game's thread    *)
(* calls Present and Reset through the same table, and hkReset ends with   *)
(* the same HookDevice that HookThread runs.  Every read or write of a     *)
(* shared variable by HookDevice is a step of its own.                     *)
(*                                                                         *)
(* The page protection around the write of a slot, the borderless window   *)
(* and the forced resolution are left out.                                 *)
(***************************************************************************)
EXTENDS Integers

CONSTANTS
  Devices,      \* the devices the game may create
  NoDevice,     \* the null pointer
  MaxTries,     \* 400: how often HookThread looks for a device, 25 ms apart
  MaxTrouble    \* bound: slots put back by others, and PatchPtr failures

ASSUME OverlayAssumption ==
  NoDevice \notin Devices /\ MaxTries \in Nat \ {0} /\ MaxTrouble \in Nat

VARIABLES
  device,       \* the pointer at kD3DDevicePtr
  unborn,       \* devices not created yet
  vtbl,         \* what the two slots of each device's table hold
  lost,         \* the current device needs a Reset
  iconic,       \* the window is minimised
  trouble       \* counts interference up to MaxTrouble

VARIABLES
  g_oReset, g_oPresent,   \* the captured originals
  g_dev,                  \* the device last seen by HookThread or hkPresent
  g_hwnd,                 \* whether the window is known
  allow_chat,             \* set when the game is ready
  g_imgui_init,
  imguiDev,               \* the device ImGui was initialised with
  objects,                \* ImGui holds buffers and textures on that device
  pc,                     \* where each thread is
  tdev,                   \* the device each thread's HookDevice works on
  tries,                  \* looks left to HookThread
  looping                 \* HookThread is in its endless loop

game == <<device, unborn, lost, iconic>>
captured == <<g_oReset, g_oPresent>>
imgui == <<allow_chat, g_imgui_init, imguiDev, objects>>
thread == <<pc, tdev, tries, looping>>
overlayVars == <<game, vtbl, trouble, captured, g_dev, g_hwnd, imgui, thread>>

Threads == {"game", "hook"}
Hooking == {"checkReset", "storeReset", "checkPresent", "storePresent",
            "patchReset", "patchPresent"}
Pointers == {"null", "orig", "hook"}

OverlayTypeOK ==
  /\ device \in Devices \cup {NoDevice} /\ unborn \subseteq Devices
  /\ lost \in BOOLEAN /\ iconic \in BOOLEAN
  /\ vtbl \in [Devices -> [reset : {"orig", "hook"}, present : {"orig", "hook"}]]
  /\ trouble \in 0 .. MaxTrouble
  /\ g_oReset \in Pointers /\ g_oPresent \in Pointers
  /\ g_dev \in Devices \cup {NoDevice}
  /\ g_hwnd \in BOOLEAN /\ allow_chat \in BOOLEAN /\ g_imgui_init \in BOOLEAN
  /\ imguiDev \in Devices \cup {NoDevice} /\ objects \in BOOLEAN
  /\ pc \in [Threads -> Hooking \cup {"idle", "reset", "wait", "poll",
                                      "repairReset", "repairPresent", "gone"}]
  /\ tdev \in [Threads -> Devices \cup {NoDevice}]
  /\ tries \in 0 .. MaxTries /\ looping \in BOOLEAN

OverlayInit ==
  /\ device = NoDevice /\ unborn = Devices /\ lost = FALSE /\ iconic = FALSE
  /\ vtbl = [d \in Devices |-> [reset |-> "orig", present |-> "orig"]]
  /\ trouble = 0
  /\ g_oReset = "null" /\ g_oPresent = "null"
  /\ g_dev = NoDevice /\ g_hwnd = FALSE
  /\ allow_chat = FALSE /\ g_imgui_init = FALSE
  /\ imguiDev = NoDevice /\ objects = FALSE
  /\ pc = [t \in Threads |-> IF t = "game" THEN "idle" ELSE "wait"]
  /\ tdev = [t \in Threads |-> NoDevice]
  /\ tries = MaxTries /\ looping = FALSE

-----------------------------------------------------------------------------
(* HookDevice, in either thread: CaptureOriginals reads a slot once to     *)
(* test it and again to store it, then the slots are patched.              *)

GoTo(t, label) == pc' = [pc EXCEPT ![t] = label]

EntryOfHookDevicePatching == "patchReset"    \* mutant: no capture
EntryOfHookDevice == "checkReset"

EnterHookDevice(t, d) ==
  /\ GoTo(t, EntryOfHookDevice)
  /\ tdev' = [tdev EXCEPT ![t] = d]

AfterHookDevice(t) ==
  IF t = "game" THEN "idle" ELSE IF looping THEN "repairReset" ELSE "poll"

(* Mutant: the originals taken again whenever a slot is not ours.          *)
MustCaptureAgain(original, slot) == slot # "hook"
MustCapture(original, slot) == original = "null" /\ slot # "hook"

CheckReset(t) ==
  /\ pc[t] = "checkReset"
  /\ GoTo(t, IF MustCapture(g_oReset, vtbl[tdev[t]].reset)
             THEN "storeReset" ELSE "checkPresent")
  /\ UNCHANGED <<game, vtbl, trouble, captured, g_dev, g_hwnd, imgui, tdev, tries, looping>>

StoreReset(t) ==
  /\ pc[t] = "storeReset"
  /\ g_oReset' = vtbl[tdev[t]].reset
  /\ GoTo(t, "checkPresent")
  /\ UNCHANGED <<game, vtbl, trouble, g_oPresent, g_dev, g_hwnd, imgui, tdev, tries, looping>>

CheckPresent(t) ==
  /\ pc[t] = "checkPresent"
  /\ GoTo(t, IF MustCapture(g_oPresent, vtbl[tdev[t]].present)
             THEN "storePresent" ELSE "patchReset")
  /\ UNCHANGED <<game, vtbl, trouble, captured, g_dev, g_hwnd, imgui, tdev, tries, looping>>

StorePresent(t) ==
  /\ pc[t] = "storePresent"
  /\ g_oPresent' = vtbl[tdev[t]].present
  /\ GoTo(t, "patchReset")
  /\ UNCHANGED <<game, vtbl, trouble, g_oReset, g_dev, g_hwnd, imgui, tdev, tries, looping>>

(* PatchPtr: the write happens, or VirtualProtect refuses.                 *)
PatchPtr(d, slot) ==
  \/ vtbl' = [vtbl EXCEPT ![d][slot] = "hook"] /\ UNCHANGED trouble
  \/ trouble < MaxTrouble /\ trouble' = trouble + 1 /\ UNCHANGED vtbl

PatchReset(t) ==
  /\ pc[t] = "patchReset"
  /\ PatchPtr(tdev[t], "reset")
  /\ GoTo(t, "patchPresent")
  /\ UNCHANGED <<game, captured, g_dev, g_hwnd, imgui, tdev, tries, looping>>

PatchPresent(t) ==
  /\ pc[t] = "patchPresent"
  /\ PatchPtr(tdev[t], "present")
  /\ GoTo(t, AfterHookDevice(t))
  /\ UNCHANGED <<game, captured, g_dev, g_hwnd, imgui, tdev, tries, looping>>

HookDevice(t) ==
  \/ CheckReset(t) \/ StoreReset(t) \/ CheckPresent(t) \/ StorePresent(t)
  \/ PatchReset(t) \/ PatchPresent(t)

-----------------------------------------------------------------------------
(* HookThread.                                                             *)

GivesUp(left) == left = 0

LookForDevice ==
  /\ pc["hook"] = "wait"
  /\ \/ /\ device # NoDevice
        /\ EnterHookDevice("hook", device)
        /\ UNCHANGED tries
     \/ /\ device = NoDevice
        /\ tries' = tries - 1
        /\ GoTo("hook", IF GivesUp(tries') THEN "gone" ELSE "wait")
        /\ UNCHANGED tdev
  /\ UNCHANGED <<game, vtbl, trouble, captured, g_dev, g_hwnd, imgui, looping>>

Poll ==
  /\ pc["hook"] = "poll"
  /\ looping' = TRUE
  /\ \/ /\ device # NoDevice /\ device # g_dev
        /\ g_dev' = device
        /\ EnterHookDevice("hook", device)
     \/ /\ device = NoDevice \/ device = g_dev
        /\ GoTo("hook", "repairReset")
        /\ UNCHANGED <<g_dev, tdev>>
  /\ UNCHANGED <<game, vtbl, trouble, captured, g_hwnd, imgui, tries>>

(* One slot of g_dev's table, put back if it is not ours.                  *)
Repair(slot, from, to) ==
  /\ pc["hook"] = from
  /\ \/ /\ g_dev # NoDevice /\ vtbl[g_dev][slot] # "hook"
        /\ PatchPtr(g_dev, slot)
     \/ /\ g_dev = NoDevice \/ vtbl[g_dev][slot] = "hook"
        /\ UNCHANGED <<vtbl, trouble>>
  /\ GoTo("hook", to)
  /\ UNCHANGED <<game, captured, g_dev, g_hwnd, imgui, tdev, tries, looping>>

RepairReset   == Repair("reset", "repairReset", "repairPresent")
(* Mutant: only the Reset slot is watched.                                 *)
RepairPresentNever == Repair("reset", "repairPresent", "poll")
RepairPresent == Repair("present", "repairPresent", "poll")

HookThread ==
  LookForDevice \/ Poll \/ RepairReset \/ RepairPresent \/ HookDevice("hook")

-----------------------------------------------------------------------------
(* The game's thread.                                                      *)

Idle == pc["game"] = "idle"
Late(original, slot) == IF MustCapture(original, slot) THEN slot ELSE original

(* CaptureOriginals once more, inside a hook that misses its original.     *)
CaptureIf(missing) ==
  \/ /\ missing
     /\ g_oReset' = Late(g_oReset, vtbl[device].reset)
     /\ g_oPresent' = Late(g_oPresent, vtbl[device].present)
  \/ ~ missing /\ UNCHANGED captured

(* Setting ImGui up and drawing it create what it holds on its device; one *)
(* that is lost may refuse.                                                *)
CreateObjects == objects' = TRUE \/ (lost /\ objects' = objects)

(* hkPresent up to the original call, all but TickGameReady: ImGui is set  *)
(* up once the game is ready and the window known, and drawn after that.   *)
HookedPresent ==
  /\ Idle /\ device # NoDevice /\ vtbl[device].present = "hook"
  /\ CaptureIf(g_oPresent = "null")
  /\ g_dev' = device
  /\ g_hwnd' \in {g_hwnd, TRUE}
  /\ \/ /\ ~ g_imgui_init /\ allow_chat /\ g_hwnd'
        /\ g_imgui_init' = TRUE /\ imguiDev' = device
        /\ CreateObjects
     \/ /\ ~ g_imgui_init /\ ~ (allow_chat /\ g_hwnd')
        /\ UNCHANGED <<g_imgui_init, imguiDev, objects>>
     \/ /\ g_imgui_init
        /\ CreateObjects
        /\ UNCHANGED <<g_imgui_init, imguiDev>>
  /\ UNCHANGED <<game, vtbl, trouble, thread>>

(* TickGameReady at the end of hkPresent says at some time that the game   *)
(* is ready; Boot says when.                                               *)
Present == HookedPresent /\ allow_chat' \in {allow_chat, TRUE}

(* hkReset up to the original call.                                        *)
hkResetKeeping ==                \* mutant: ImGui's objects are kept
  /\ Idle /\ device # NoDevice /\ vtbl[device].reset = "hook"
  /\ GoTo("game", "reset")
  /\ UNCHANGED <<game, vtbl, trouble, captured, g_dev, g_hwnd, imgui, tdev, tries, looping>>
hkReset ==
  /\ Idle /\ device # NoDevice /\ vtbl[device].reset = "hook"
  /\ objects' = IF g_imgui_init THEN FALSE ELSE objects
  /\ CaptureIf(g_oReset = "null")
  /\ g_hwnd' \in {g_hwnd, TRUE}
  /\ GoTo("game", IF g_hwnd' /\ iconic THEN "idle" ELSE "reset")
  /\ UNCHANGED <<game, vtbl, trouble, g_dev, allow_chat, g_imgui_init, imguiDev, tdev,
                 tries, looping>>

(* The runtime's Reset fails while anything of the default pool is alive.  *)
Accepts == ~ iconic /\ ~ (objects /\ imguiDev = device)

(* The rest of hkReset: where the runtime accepts, ImGui's objects are     *)
(* made anew and the table is hooked again.                                *)
CallOriginalReset ==
  /\ pc["game"] = "reset"
  /\ \/ /\ g_oReset = "orig" /\ Accepts
        /\ lost' = FALSE
        /\ objects' = (objects \/ g_imgui_init)
        /\ EnterHookDevice("game", device)
     \/ /\ g_oReset = "null" \/ (g_oReset = "orig" /\ ~ Accepts)
        /\ lost' = (g_oReset = "orig" \/ lost)
        /\ GoTo("game", "idle") /\ UNCHANGED <<objects, tdev>>
  /\ UNCHANGED <<device, unborn, iconic, vtbl, trouble, captured, g_dev, g_hwnd,
                 allow_chat, g_imgui_init, imguiDev, tries, looping>>

(* A Reset while the slot is not hooked goes straight to the runtime.      *)
PlainReset ==
  /\ Idle /\ device # NoDevice /\ vtbl[device].reset = "orig"
  /\ lost' = ~ Accepts
  /\ UNCHANGED <<device, unborn, iconic, vtbl, trouble, captured, g_dev, g_hwnd,
                 imgui, thread>>

GameResets == hkReset \/ PlainReset
FinishReset == CallOriginalReset \/ HookDevice("game")

-----------------------------------------------------------------------------
(* The game, Windows and other overlays.                                   *)

CreateDevice(d) ==
  /\ Idle /\ d \in unborn
  /\ device' = d /\ unborn' = unborn \ {d} /\ lost' = FALSE
  /\ UNCHANGED <<iconic, vtbl, trouble, captured, g_dev, g_hwnd, imgui, thread>>

LoseDevice ==
  /\ Idle /\ device # NoDevice /\ ~ lost
  /\ lost' = TRUE
  /\ UNCHANGED <<device, unborn, iconic, vtbl, trouble, captured, g_dev, g_hwnd,
                 imgui, thread>>

Minimise ==
  /\ iconic' = ~ iconic
  /\ UNCHANGED <<device, unborn, lost, vtbl, trouble, captured, g_dev, g_hwnd,
                 imgui, thread>>

Interfere(d, slot) ==
  /\ trouble < MaxTrouble /\ trouble' = trouble + 1
  /\ vtbl[d][slot] = "hook"
  /\ vtbl' = [vtbl EXCEPT ![d][slot] = "orig"]
  /\ UNCHANGED <<game, captured, g_dev, g_hwnd, imgui, thread>>

Environment ==
  \/ \E d \in Devices : CreateDevice(d) \/ Interfere(d, "reset") \/ Interfere(d, "present")
  \/ LoseDevice \/ Minimise

OverlayNext ==
  HookThread \/ Present \/ GameResets \/ FinishReset \/ Environment

OverlaySpec == OverlayInit /\ [][OverlayNext]_overlayVars

(* Windows schedules both threads; the game resets a lost device again and *)
(* again and returns from every call it has begun.                         *)
OverlayFairness ==
  /\ WF_overlayVars(HookThread)
  /\ WF_overlayVars(lost /\ ~ iconic /\ GameResets)
  /\ WF_overlayVars(FinishReset)

FairOverlaySpec == OverlaySpec /\ OverlayFairness

-----------------------------------------------------------------------------
(* No hook ever takes itself for the original, although a slot is read     *)
(* twice and the other thread may patch it in between: a hook that calls   *)
(* itself never returns.                                                   *)
NeverItself == g_oReset # "hook" /\ g_oPresent # "hook"

(* Whenever the game can get into a hook, the original it has to call is   *)
(* known: otherwise Present fails and the screen stays black.              *)
OriginalsKnown ==
  \A d \in Devices :
    /\ vtbl[d].reset = "hook" => g_oReset # "null"
    /\ vtbl[d].present = "hook" => g_oReset # "null" /\ g_oPresent # "null"

(* A lost device is reset in the end, however often other overlays take    *)
(* the slots and whatever ImGui was holding: a Reset that bypasses the     *)
(* hook fails until HookThread has put it back.                            *)
DeviceRecovers == <>[](~ iconic) => []<>(~ lost)

(* A Reset that goes through the hook fails only for a minimised window:   *)
(* whatever ImGui drew before it, hkReset has released, and nothing is     *)
(* made again until the runtime has answered.                              *)
HookedResetSucceeds == [][CallOriginalReset => lost' = iconic]_overlayVars

(* The device the game uses ends up hooked and stays so, unless HookThread *)
(* gave up before there was one.                                           *)
HooksReturn ==
  <>[](device # NoDevice /\ pc["hook"] # "gone" =>
         vtbl[device].reset = "hook" /\ vtbl[device].present = "hook")

(* HookThread gives up only on a game it has never touched, and in which   *)
(* ImGui never comes up.                                                   *)
Watching == pc["hook"] \notin {"wait", "gone"}
GivesUpUnseen ==
  ~ Watching =>
    /\ g_oReset = "null" /\ g_oPresent = "null" /\ ~ g_imgui_init
    /\ \A d \in Devices : vtbl[d].reset = "orig" /\ vtbl[d].present = "orig"

(* Once it has found a device it watches for ever: every lap leads back to *)
(* the look at the current device, straight through the slots.             *)
Lap ==
  [checkReset |-> 8, storeReset |-> 7, checkPresent |-> 6, storePresent |-> 5,
   patchReset |-> 4, patchPresent |-> 3, repairReset |-> 2, repairPresent |-> 1,
   poll |-> 0]
WatchGoesRound ==
  [][Watching =>
       /\ Watching'
       /\ pc["hook"] # "poll" /\ pc'["hook"] # pc["hook"]
            => Lap[pc'["hook"]] < Lap[pc["hook"]]]_overlayVars
=============================================================================
