--------------------------- MODULE OverlayProofs ---------------------------
(***************************************************************************)
(* Proofs about Overlay, for every set of devices and any amount of        *)
(* interference.  Nothing locks the captured originals; what protects them *)
(* is the order of HookDevice: no slot is ours, and so the game's thread   *)
(* is in no hook, before HookThread has captured both originals, and once  *)
(* both are captured neither thread stores again.                          *)
(***************************************************************************)
EXTENDS Overlay, TLAPS

Captured == g_oReset = "orig" /\ g_oPresent = "orig"

(* HookThread's place in HookDevice says how much it has captured; the     *)
(* game's thread finds everything captured.                                *)
PlaceInv ==
  /\ pc["hook"] = "wait" => tries >= 1
  /\ pc["hook"] \in {"checkPresent", "storePresent"} => g_oReset = "orig"
  /\ pc["hook"] \in {"patchReset", "patchPresent", "poll", "repairReset",
                     "repairPresent"} => Captured
  /\ pc["hook"] = "storeReset" => g_oReset = "null"
  /\ pc["hook"] = "storePresent" => g_oPresent = "null"
  /\ pc["game"] # "idle" => Captured
  /\ pc["game"] \notin {"storeReset", "storePresent"}
  /\ pc["game"] \in Hooking \cup {"idle", "reset"}

SlotInv ==
  \A d \in Devices : vtbl[d].reset = "hook" \/ vtbl[d].present = "hook" => Captured

WorkInv == \A t \in Threads : pc[t] \in Hooking => tdev[t] \in Devices

CaptureInv == NeverItself /\ PlaceInv /\ SlotInv /\ WorkInv

(* There is a device for as long as the game is inside its Reset.          *)
ResetInv == pc["game"] = "reset" => device \in Devices

-----------------------------------------------------------------------------
LEMMA InitHolds == OverlayInit => OverlayTypeOK /\ CaptureInv /\ ResetInv
<1> SUFFICES ASSUME OverlayInit PROVE OverlayTypeOK /\ CaptureInv /\ ResetInv
  OBVIOUS
<1>1. OverlayTypeOK
  <2>1. vtbl \in [Devices -> [reset : {"orig", "hook"}, present : {"orig", "hook"}]]
    BY DEF OverlayInit
  <2>2. pc \in [Threads -> Hooking \cup {"idle", "reset", "wait", "poll", "repairReset",
                                         "repairPresent", "gone"}]
    BY DEF OverlayInit
  <2>3. tdev \in [Threads -> Devices \cup {NoDevice}]
    BY DEF OverlayInit
  <2>4. trouble \in 0 .. MaxTrouble /\ tries \in 0 .. MaxTries
    BY OverlayAssumption DEF OverlayInit
  <2> QED
    BY <2>1, <2>2, <2>3, <2>4 DEF OverlayInit, OverlayTypeOK, Pointers
<1>2. NeverItself /\ SlotInv
  BY DEF OverlayInit, NeverItself, SlotInv
<1>3. PlaceInv /\ WorkInv
  BY OverlayAssumption DEF OverlayInit, PlaceInv, WorkInv, Threads, Hooking
<1>4. ResetInv
  BY DEF OverlayInit, ResetInv, Threads
<1> QED
  BY <1>1, <1>2, <1>3, <1>4 DEF CaptureInv

(* The labels a thread may be given.                                       *)
LEMMA Labels ==
  ASSUME OverlayTypeOK, NEW t \in Threads, NEW l, GoTo(t, l)
  PROVE  /\ pc'[t] = l
         /\ \A u \in Threads : u # t => pc'[u] = pc[u]
         /\ l \in Hooking \cup {"idle", "reset", "wait", "poll", "repairReset",
                                "repairPresent", "gone"}
            => pc' \in [Threads -> Hooking \cup {"idle", "reset", "wait", "poll",
                                      "repairReset", "repairPresent", "gone"}]
BY DEF GoTo, OverlayTypeOK

(* PatchPtr keeps a table a table, and hooks at most a slot of d.          *)
LEMMA PatchTypes ==
  ASSUME OverlayTypeOK, NEW d \in Devices, NEW s \in {"reset", "present"}, PatchPtr(d, s)
  PROVE  /\ vtbl' \in [Devices -> [reset : {"orig", "hook"}, present : {"orig", "hook"}]]
         /\ trouble' \in 0 .. MaxTrouble
<1>1. CASE vtbl' = [vtbl EXCEPT ![d][s] = "hook"] /\ UNCHANGED trouble
  BY <1>1 DEF OverlayTypeOK
<1>2. CASE trouble < MaxTrouble /\ trouble' = trouble + 1 /\ UNCHANGED vtbl
  BY <1>2, OverlayAssumption DEF OverlayTypeOK
<1> QED
  BY <1>1, <1>2 DEF PatchPtr

-----------------------------------------------------------------------------
(* HookDevice in either thread.                                            *)
LEMMA HookDeviceStep ==
  ASSUME OverlayTypeOK, CaptureInv, NEW t \in Threads, HookDevice(t)
  PROVE  OverlayTypeOK' /\ CaptureInv'
<1>0. /\ "game" \in Threads /\ "hook" \in Threads /\ tdev[t] \in Devices
      /\ Threads = {"game", "hook"}
  BY DEF Threads, CaptureInv, WorkInv, HookDevice, CheckReset, StoreReset, CheckPresent,
         StorePresent, PatchReset, PatchPresent, Hooking
<1>1. CASE CheckReset(t)
  <2>1. pc[t] = "checkReset" /\ UNCHANGED <<game, vtbl, trouble, captured, g_dev, g_hwnd,
                                           imgui, tdev, tries, looping>>
    BY <1>1 DEF CheckReset
  <2>2. \/ GoTo(t, "storeReset") /\ g_oReset = "null" /\ vtbl[tdev[t]].reset # "hook"
        \/ GoTo(t, "checkPresent") /\ (g_oReset # "null" \/ vtbl[tdev[t]].reset = "hook")
    BY <1>1 DEF CheckReset, MustCapture
  <2>3. OverlayTypeOK'
    BY <2>1, <2>2, Labels DEF OverlayTypeOK, Hooking, game, captured, imgui
  <2>4. CaptureInv'
    BY <1>0, <2>1, <2>2, Labels
    DEF CaptureInv, NeverItself, PlaceInv, SlotInv, WorkInv, Captured, Hooking, captured,
        OverlayTypeOK, Pointers
  <2> QED
    BY <2>3, <2>4
<1>2. CASE StoreReset(t)
  <2>1. /\ pc[t] = "storeReset" /\ GoTo(t, "checkPresent")
        /\ g_oReset' = vtbl[tdev[t]].reset
        /\ UNCHANGED <<game, vtbl, trouble, g_oPresent, g_dev, g_hwnd, imgui, tdev,
                       tries, looping>>
    BY <1>2 DEF StoreReset
  <2>2. t = "hook" /\ g_oReset = "null"
    BY <1>0, <2>1 DEF CaptureInv, PlaceInv
  <2>3. vtbl[tdev[t]].reset \in {"orig", "hook"}
    BY <1>0 DEF OverlayTypeOK
  <2>4. g_oReset' = "orig"
    BY <1>0, <2>1, <2>2, <2>3 DEF CaptureInv, SlotInv, Captured
  <2>5. OverlayTypeOK'
    BY <2>1, <2>4, Labels DEF OverlayTypeOK, Hooking, Pointers, game, imgui
  <2>6. CaptureInv'
    BY <1>0, <2>1, <2>2, <2>4, Labels
    DEF CaptureInv, NeverItself, PlaceInv, SlotInv, WorkInv, Captured, Hooking
  <2> QED
    BY <2>5, <2>6
<1>3. CASE CheckPresent(t)
  <2>1. pc[t] = "checkPresent" /\ UNCHANGED <<game, vtbl, trouble, captured, g_dev, g_hwnd,
                                             imgui, tdev, tries, looping>>
    BY <1>3 DEF CheckPresent
  <2>2. \/ GoTo(t, "storePresent") /\ g_oPresent = "null" /\ vtbl[tdev[t]].present # "hook"
        \/ GoTo(t, "patchReset") /\ (g_oPresent # "null" \/ vtbl[tdev[t]].present = "hook")
    BY <1>3 DEF CheckPresent, MustCapture
  <2>3. OverlayTypeOK'
    BY <2>1, <2>2, Labels DEF OverlayTypeOK, Hooking, game, captured, imgui
  <2>4. CaptureInv'
    BY <1>0, <2>1, <2>2, Labels
    DEF CaptureInv, NeverItself, PlaceInv, SlotInv, WorkInv, Captured, Hooking, captured,
        OverlayTypeOK, Pointers
  <2> QED
    BY <2>3, <2>4
<1>4. CASE StorePresent(t)
  <2>1. /\ pc[t] = "storePresent" /\ GoTo(t, "patchReset")
        /\ g_oPresent' = vtbl[tdev[t]].present
        /\ UNCHANGED <<game, vtbl, trouble, g_oReset, g_dev, g_hwnd, imgui, tdev,
                       tries, looping>>
    BY <1>4 DEF StorePresent
  <2>2. t = "hook" /\ g_oPresent = "null"
    BY <1>0, <2>1 DEF CaptureInv, PlaceInv
  <2>3. vtbl[tdev[t]].present \in {"orig", "hook"}
    BY <1>0 DEF OverlayTypeOK
  <2>4. g_oPresent' = "orig"
    BY <1>0, <2>1, <2>2, <2>3 DEF CaptureInv, SlotInv, Captured
  <2>5. OverlayTypeOK'
    BY <2>1, <2>4, Labels DEF OverlayTypeOK, Hooking, Pointers, game, imgui
  <2>6. CaptureInv'
    BY <1>0, <2>1, <2>2, <2>4, Labels
    DEF CaptureInv, NeverItself, PlaceInv, SlotInv, WorkInv, Captured, Hooking
  <2> QED
    BY <2>5, <2>6
<1>5. CASE PatchReset(t)
  <2>1. /\ pc[t] = "patchReset" /\ GoTo(t, "patchPresent") /\ PatchPtr(tdev[t], "reset")
        /\ UNCHANGED <<game, captured, g_dev, g_hwnd, imgui, tdev, tries, looping>>
    BY <1>5 DEF PatchReset
  <2>2. Captured /\ UNCHANGED Captured
    BY <1>0, <2>1 DEF CaptureInv, PlaceInv, Captured, captured
  <2>3. OverlayTypeOK'
    BY <1>0, <2>1, Labels, PatchTypes DEF OverlayTypeOK, Hooking, game, captured, imgui
  <2>4. CaptureInv'
    BY <1>0, <2>1, <2>2, Labels
    DEF CaptureInv, NeverItself, PlaceInv, SlotInv, WorkInv, Captured, Hooking
  <2> QED
    BY <2>3, <2>4
<1>6. CASE PatchPresent(t)
  <2>1. /\ pc[t] = "patchPresent" /\ GoTo(t, AfterHookDevice(t)) /\ PatchPtr(tdev[t], "present")
        /\ UNCHANGED <<game, captured, g_dev, g_hwnd, imgui, tdev, tries, looping>>
    BY <1>6 DEF PatchPresent
  <2>2. Captured /\ UNCHANGED Captured
    BY <1>0, <2>1 DEF CaptureInv, PlaceInv, Captured, captured
  <2>3. /\ AfterHookDevice(t) \in {"idle", "repairReset", "poll"}
        /\ t = "game" => AfterHookDevice(t) = "idle"
        /\ t = "hook" => AfterHookDevice(t) \in {"repairReset", "poll"}
    BY DEF AfterHookDevice
  <2>4. OverlayTypeOK'
    BY <1>0, <2>1, <2>3, Labels, PatchTypes DEF OverlayTypeOK, Hooking, game, captured, imgui
  <2>5. CaptureInv'
    BY <1>0, <2>1, <2>2, <2>3, Labels
    DEF CaptureInv, NeverItself, PlaceInv, SlotInv, WorkInv, Captured, Hooking
  <2> QED
    BY <2>4, <2>5
<1> QED
  BY <1>1, <1>2, <1>3, <1>4, <1>5, <1>6 DEF HookDevice

-----------------------------------------------------------------------------
(* HookThread outside HookDevice.                                          *)
LEMMA LookStep ==
  ASSUME OverlayTypeOK, CaptureInv, LookForDevice
  PROVE  OverlayTypeOK' /\ CaptureInv'
<1>0. "game" \in Threads /\ "hook" \in Threads /\ Threads = {"game", "hook"}
  BY DEF Threads
<1>1. /\ pc["hook"] = "wait" /\ tries >= 1
      /\ UNCHANGED <<game, vtbl, trouble, captured, g_dev, g_hwnd, imgui, looping>>
  BY DEF LookForDevice, CaptureInv, PlaceInv
<1>2. CASE device # NoDevice /\ EnterHookDevice("hook", device) /\ UNCHANGED tries
  <2>1. GoTo("hook", "checkReset") /\ tdev' = [tdev EXCEPT !["hook"] = device]
    BY <1>2 DEF EnterHookDevice, EntryOfHookDevice
  <2>2. device \in Devices
    BY <1>2 DEF OverlayTypeOK
  <2>3. OverlayTypeOK'
    BY <1>0, <1>1, <1>2, <2>1, <2>2, Labels DEF OverlayTypeOK, Hooking, game, captured, imgui
  <2>4. CaptureInv'
    BY <1>0, <1>1, <1>2, <2>1, <2>2, Labels
    DEF CaptureInv, NeverItself, PlaceInv, SlotInv, WorkInv, Captured, Hooking, captured,
        OverlayTypeOK
  <2> QED
    BY <2>3, <2>4
<1>3. CASE /\ tries' = tries - 1 /\ UNCHANGED tdev
           /\ GoTo("hook", IF GivesUp(tries') THEN "gone" ELSE "wait")
  <2>1. /\ tries' \in 0 .. MaxTries
        /\ \/ GoTo("hook", "gone")
           \/ GoTo("hook", "wait") /\ tries' >= 1
    BY <1>1, <1>3, OverlayAssumption DEF OverlayTypeOK, GivesUp
  <2>2. OverlayTypeOK'
    BY <1>0, <1>1, <1>3, <2>1, Labels DEF OverlayTypeOK, game, captured, imgui
  <2>3. CaptureInv'
    BY <1>0, <1>1, <1>3, <2>1, Labels
    DEF CaptureInv, NeverItself, PlaceInv, SlotInv, WorkInv, Captured, Hooking, captured
  <2> QED
    BY <2>2, <2>3
<1> QED
  BY <1>2, <1>3 DEF LookForDevice

LEMMA PollStep ==
  ASSUME OverlayTypeOK, CaptureInv, Poll
  PROVE  OverlayTypeOK' /\ CaptureInv'
<1>0. "game" \in Threads /\ "hook" \in Threads /\ Threads = {"game", "hook"}
  BY DEF Threads
<1>1. /\ pc["hook"] = "poll" /\ looping' = TRUE
      /\ UNCHANGED <<game, vtbl, trouble, captured, g_hwnd, imgui, tries>>
  BY DEF Poll
<1>2. CASE device # NoDevice /\ g_dev' = device /\ EnterHookDevice("hook", device)
  <2>1. GoTo("hook", "checkReset") /\ tdev' = [tdev EXCEPT !["hook"] = device]
    BY <1>2 DEF EnterHookDevice, EntryOfHookDevice
  <2>2. device \in Devices
    BY <1>2 DEF OverlayTypeOK
  <2>3. OverlayTypeOK'
    BY <1>0, <1>1, <1>2, <2>1, <2>2, Labels DEF OverlayTypeOK, Hooking, game, captured, imgui
  <2>4. CaptureInv'
    BY <1>0, <1>1, <1>2, <2>1, <2>2, Labels
    DEF CaptureInv, NeverItself, PlaceInv, SlotInv, WorkInv, Captured, Hooking, captured,
        OverlayTypeOK
  <2> QED
    BY <2>3, <2>4
<1>3. CASE GoTo("hook", "repairReset") /\ UNCHANGED <<g_dev, tdev>>
  <2>1. OverlayTypeOK'
    BY <1>0, <1>1, <1>3, Labels DEF OverlayTypeOK, game, captured, imgui
  <2>2. CaptureInv'
    BY <1>0, <1>1, <1>3, Labels
    DEF CaptureInv, NeverItself, PlaceInv, SlotInv, WorkInv, Captured, Hooking, captured
  <2> QED
    BY <2>1, <2>2
<1> QED
  BY <1>2, <1>3 DEF Poll

LEMMA RepairStep ==
  ASSUME OverlayTypeOK, CaptureInv, RepairReset \/ RepairPresent
  PROVE  OverlayTypeOK' /\ CaptureInv'
<1>0. "game" \in Threads /\ "hook" \in Threads /\ Threads = {"game", "hook"}
  BY DEF Threads
<1>1. PICK s \in {"reset", "present"}, from \in {"repairReset", "repairPresent"},
           to \in {"repairPresent", "poll"} : Repair(s, from, to)
  BY DEF RepairReset, RepairPresent
<1>2. /\ pc["hook"] = from /\ GoTo("hook", to)
      /\ \/ g_dev # NoDevice /\ PatchPtr(g_dev, s)
         \/ UNCHANGED <<vtbl, trouble>>
      /\ UNCHANGED <<game, captured, g_dev, g_hwnd, imgui, tdev, tries, looping>>
  BY <1>1 DEF Repair
<1>3. Captured /\ UNCHANGED Captured
  BY <1>2 DEF CaptureInv, PlaceInv, Captured, captured
<1>4. /\ vtbl' \in [Devices -> [reset : {"orig", "hook"}, present : {"orig", "hook"}]]
      /\ trouble' \in 0 .. MaxTrouble
  BY <1>2, PatchTypes DEF OverlayTypeOK
<1>5. OverlayTypeOK'
  BY <1>0, <1>2, <1>4, Labels DEF OverlayTypeOK, game, captured, imgui
<1>6. CaptureInv'
  BY <1>0, <1>2, <1>3, Labels
  DEF CaptureInv, NeverItself, PlaceInv, SlotInv, WorkInv, Captured, Hooking
<1> QED
  BY <1>5, <1>6

-----------------------------------------------------------------------------
(* The game's thread and the environment.                                  *)

(* Once the game is in a hook nothing is captured late.                    *)
LEMMA NothingLate ==
  ASSUME Captured, NEW slot
  PROVE  Late(g_oReset, slot) = g_oReset /\ Late(g_oPresent, slot) = g_oPresent
BY DEF Late, MustCapture, Captured

LEMMA CaptureIfKeeps ==
  ASSUME Captured, NEW missing, CaptureIf(missing)
  PROVE  UNCHANGED captured
BY NothingLate DEF CaptureIf, captured, Captured

LEMMA PresentStep ==
  ASSUME OverlayTypeOK, CaptureInv, Present
  PROVE  OverlayTypeOK' /\ CaptureInv'
<1>1. /\ device \in Devices /\ vtbl[device].present = "hook"
      /\ UNCHANGED <<game, vtbl, trouble, thread>>
  BY DEF Present, HookedPresent, OverlayTypeOK
<1>2. Captured
  BY <1>1 DEF CaptureInv, SlotInv
<1>3. UNCHANGED captured
  <2>1. CaptureIf(g_oPresent = "null")
    BY DEF Present, HookedPresent
  <2> QED
    BY <1>2, <2>1, CaptureIfKeeps
<1>4. /\ g_dev' \in Devices \cup {NoDevice} /\ g_hwnd' \in BOOLEAN /\ allow_chat' \in BOOLEAN
  BY <1>1 DEF Present, HookedPresent, OverlayTypeOK
<1>5. /\ g_imgui_init' \in BOOLEAN /\ objects' \in BOOLEAN
      /\ imguiDev' \in Devices \cup {NoDevice}
  BY <1>1 DEF Present, HookedPresent, CreateObjects, OverlayTypeOK
<1>6. OverlayTypeOK'
  BY <1>1, <1>3, <1>4, <1>5 DEF OverlayTypeOK, game, captured, thread
<1>7. CaptureInv'
  BY <1>1, <1>3 DEF CaptureInv, NeverItself, PlaceInv, SlotInv, WorkInv, Captured, captured,
                    thread
<1> QED
  BY <1>6, <1>7

LEMMA ResetStep ==
  ASSUME OverlayTypeOK, CaptureInv, hkReset
  PROVE  OverlayTypeOK' /\ CaptureInv'
<1>0. "game" \in Threads /\ "hook" \in Threads /\ Threads = {"game", "hook"}
  BY DEF Threads
<1>1. /\ device \in Devices /\ vtbl[device].reset = "hook" /\ pc["game"] = "idle"
      /\ GoTo("game", IF g_hwnd' /\ iconic THEN "idle" ELSE "reset")
      /\ UNCHANGED <<game, vtbl, trouble, g_dev, allow_chat, g_imgui_init, imguiDev, tdev,
                     tries, looping>>
  BY DEF hkReset, OverlayTypeOK, Idle
<1>2. Captured /\ UNCHANGED captured
  <2>1. Captured
    BY <1>1 DEF CaptureInv, SlotInv
  <2>2. CaptureIf(g_oReset = "null")
    BY DEF hkReset
  <2> QED
    BY <2>1, <2>2, CaptureIfKeeps
<1>3. objects' \in BOOLEAN /\ g_hwnd' \in BOOLEAN
  BY DEF hkReset, OverlayTypeOK
<1>4. GoTo("game", "idle") \/ GoTo("game", "reset")
  BY <1>1
<1>5. OverlayTypeOK'
  BY <1>0, <1>1, <1>2, <1>3, <1>4, Labels DEF OverlayTypeOK, game, captured
<1>6. CaptureInv'
  BY <1>0, <1>1, <1>2, <1>4, Labels
  DEF CaptureInv, NeverItself, PlaceInv, SlotInv, WorkInv, Captured, Hooking, captured
<1> QED
  BY <1>5, <1>6

LEMMA OriginalStep ==
  ASSUME OverlayTypeOK, CaptureInv, ResetInv, CallOriginalReset
  PROVE  OverlayTypeOK' /\ CaptureInv'
<1>0. "game" \in Threads /\ "hook" \in Threads /\ Threads = {"game", "hook"}
  BY DEF Threads
<1>1. /\ pc["game"] = "reset"
      /\ UNCHANGED <<device, unborn, iconic, vtbl, trouble, captured, g_dev, g_hwnd,
                     allow_chat, g_imgui_init, imguiDev, tries, looping>>
  BY DEF CallOriginalReset
<1>2. Captured /\ lost' \in BOOLEAN
  BY <1>1 DEF CallOriginalReset, CaptureInv, PlaceInv, OverlayTypeOK
<1>5. objects' \in BOOLEAN
  BY <1>1 DEF CallOriginalReset, OverlayTypeOK
<1>3. CASE EnterHookDevice("game", device)
  <2>1. GoTo("game", "checkReset") /\ tdev' = [tdev EXCEPT !["game"] = device]
    BY <1>3 DEF EnterHookDevice, EntryOfHookDevice
  <2>2. OverlayTypeOK'
    BY <1>0, <1>1, <1>2, <1>5, <2>1, Labels DEF OverlayTypeOK, Hooking, captured
  <2>3. device \in Devices
    BY <1>1 DEF ResetInv
  <2>4. CaptureInv'
    BY <1>0, <1>1, <1>2, <2>1, <2>3, Labels
    DEF CaptureInv, NeverItself, PlaceInv, SlotInv, WorkInv, Captured, Hooking, captured,
        OverlayTypeOK
  <2> QED
    BY <2>2, <2>4
<1>4. CASE GoTo("game", "idle") /\ UNCHANGED tdev
  <2>1. OverlayTypeOK'
    BY <1>0, <1>1, <1>2, <1>4, <1>5, Labels DEF OverlayTypeOK, captured
  <2>2. CaptureInv'
    BY <1>0, <1>1, <1>2, <1>4, Labels
    DEF CaptureInv, NeverItself, PlaceInv, SlotInv, WorkInv, Captured, Hooking, captured
  <2> QED
    BY <2>1, <2>2
<1> QED
  BY <1>3, <1>4 DEF CallOriginalReset

LEMMA OutsideStep ==
  ASSUME OverlayTypeOK, CaptureInv, PlainReset \/ Environment
  PROVE  OverlayTypeOK' /\ CaptureInv'
<1>1. /\ UNCHANGED <<captured, g_dev, g_hwnd, imgui, thread>>
      /\ device' \in Devices \cup {NoDevice} /\ unborn' \subseteq Devices
      /\ lost' \in BOOLEAN /\ iconic' \in BOOLEAN
  BY DEF PlainReset, Environment, CreateDevice, LoseDevice, Minimise, Interfere, Accepts,
         game, OverlayTypeOK
<1>2. /\ vtbl' \in [Devices -> [reset : {"orig", "hook"}, present : {"orig", "hook"}]]
      /\ trouble' \in 0 .. MaxTrouble
      /\ \A d \in Devices : /\ vtbl'[d].reset = "hook" => vtbl[d].reset = "hook"
                            /\ vtbl'[d].present = "hook" => vtbl[d].present = "hook"
  <2>1. CASE UNCHANGED <<vtbl, trouble>>
    BY <2>1 DEF OverlayTypeOK
  <2>2. CASE \E d \in Devices, s \in {"reset", "present"} : Interfere(d, s)
    <3>1. PICK d \in Devices, s \in {"reset", "present"} : Interfere(d, s)
      BY <2>2
    <3>2. /\ trouble < MaxTrouble /\ trouble' = trouble + 1
          /\ vtbl' = [vtbl EXCEPT ![d][s] = "orig"]
      BY <3>1 DEF Interfere
    <3>3. trouble' \in 0 .. MaxTrouble
      BY <3>2, OverlayAssumption DEF OverlayTypeOK
    <3>4. vtbl' \in [Devices -> [reset : {"orig", "hook"}, present : {"orig", "hook"}]]
      BY <3>2 DEF OverlayTypeOK
    <3>5. ASSUME NEW e \in Devices
          PROVE  /\ vtbl'[e].reset = "hook" => vtbl[e].reset = "hook"
                 /\ vtbl'[e].present = "hook" => vtbl[e].present = "hook"
      <4>1. CASE s = "reset"
        BY <3>2, <4>1 DEF OverlayTypeOK
      <4>2. CASE s = "present"
        BY <3>2, <4>2 DEF OverlayTypeOK
      <4> QED
        BY <4>1, <4>2
    <3> QED
      BY <3>3, <3>4, <3>5
  <2> QED
    BY <2>1, <2>2 DEF PlainReset, Environment, CreateDevice, LoseDevice, Minimise
<1>3. OverlayTypeOK'
  BY <1>1, <1>2 DEF OverlayTypeOK, captured, imgui, thread
<1>4. CaptureInv'
  BY <1>1, <1>2 DEF CaptureInv, NeverItself, PlaceInv, SlotInv, WorkInv, Captured, captured,
                    thread
<1> QED
  BY <1>3, <1>4

LEMMA StutterStep ==
  ASSUME OverlayTypeOK, CaptureInv, UNCHANGED overlayVars
  PROVE  OverlayTypeOK' /\ CaptureInv'
BY DEF overlayVars, game, captured, imgui, thread, OverlayTypeOK, CaptureInv, NeverItself,
       PlaceInv, SlotInv, WorkInv, Captured

LEMMA DeviceStaysForReset ==
  ASSUME OverlayTypeOK, ResetInv, [OverlayNext]_overlayVars
  PROVE  ResetInv'
<1>0. "game" \in Threads /\ "hook" \in Threads /\ "game" # "hook"
  BY DEF Threads
<1>1. CASE HookThread
  <2>1. UNCHANGED device
    BY <1>1 DEF HookThread, HookDevice, CheckReset, StoreReset, CheckPresent, StorePresent,
                PatchReset, PatchPresent, LookForDevice, Poll, RepairReset, RepairPresent,
                Repair, game
  <2>2. \E l : GoTo("hook", l)
    BY <1>1 DEF HookThread, HookDevice, CheckReset, StoreReset, CheckPresent, StorePresent,
                PatchReset, PatchPresent, LookForDevice, Poll, RepairReset, RepairPresent,
                Repair, EnterHookDevice
  <2>3. pc'["game"] = pc["game"]
    BY <1>0, <2>2 DEF GoTo, OverlayTypeOK
  <2> QED
    BY <2>1, <2>3 DEF ResetInv
<1>2. CASE HookDevice("game")
  <2>1. UNCHANGED device
    BY <1>2 DEF HookDevice, CheckReset, StoreReset, CheckPresent, StorePresent, PatchReset,
                PatchPresent, game
  <2>2. \E l : GoTo("game", l) /\ l # "reset"
    BY <1>2 DEF HookDevice, CheckReset, StoreReset, CheckPresent, StorePresent, PatchReset,
                PatchPresent, AfterHookDevice
  <2>3. pc'["game"] # "reset"
    BY <1>0, <2>2 DEF GoTo, OverlayTypeOK
  <2> QED
    BY <2>3 DEF ResetInv
<1>3. CASE CallOriginalReset
  <2>1. \E l : GoTo("game", l) /\ l # "reset"
    BY <1>3 DEF CallOriginalReset, EnterHookDevice, EntryOfHookDevice
  <2>2. pc'["game"] # "reset"
    BY <1>0, <2>1 DEF GoTo, OverlayTypeOK
  <2> QED
    BY <2>2 DEF ResetInv
<1>4. CASE hkReset
  BY <1>4 DEF hkReset, game, OverlayTypeOK, ResetInv
<1>5. CASE Present \/ PlainReset
  BY <1>5 DEF Present, HookedPresent, PlainReset, Idle, game, thread, ResetInv
<1>6. CASE Environment
  BY <1>6 DEF Environment, CreateDevice, LoseDevice, Minimise, Interfere, Idle, game, thread,
              ResetInv
<1>7. CASE UNCHANGED overlayVars
  BY <1>7 DEF overlayVars, game, thread, ResetInv
<1> QED
  BY <1>1, <1>2, <1>3, <1>4, <1>5, <1>6, <1>7 DEF OverlayNext, GameResets, FinishReset

LEMMA NextHolds ==
  OverlayTypeOK /\ CaptureInv /\ ResetInv /\ [OverlayNext]_overlayVars
  => OverlayTypeOK' /\ CaptureInv' /\ ResetInv'
<1> SUFFICES ASSUME OverlayTypeOK, CaptureInv, ResetInv, [OverlayNext]_overlayVars
             PROVE  OverlayTypeOK' /\ CaptureInv' /\ ResetInv'
  OBVIOUS
<1>1. "game" \in Threads /\ "hook" \in Threads
  BY DEF Threads
<1> QED
  BY <1>1, HookDeviceStep, LookStep, PollStep, RepairStep, PresentStep, ResetStep,
     OriginalStep, OutsideStep, StutterStep, DeviceStaysForReset
  DEF OverlayNext, HookThread, GameResets, FinishReset

-----------------------------------------------------------------------------
(* Every variable of the overlay keeps to its set.                         *)
THEOREM OverlayTypeCorrect == OverlaySpec => []OverlayTypeOK
<1> QED
  BY InitHolds, NextHolds, PTL DEF OverlaySpec

(* No hook is ever captured as an original, for every interleaving of the  *)
(* two threads, every device and any amount of interference.               *)
THEOREM NeverCapturesItself == OverlaySpec => []NeverItself
<1>1. CaptureInv => NeverItself
  BY DEF CaptureInv
<1> QED
  BY <1>1, InitHolds, NextHolds, PTL DEF OverlaySpec

(* A slot is ours only once both originals are known.                      *)
THEOREM OriginalsAlwaysKnown == OverlaySpec => []OriginalsKnown
<1>1. CaptureInv => OriginalsKnown
  BY DEF CaptureInv, SlotInv, Captured, OriginalsKnown
<1> QED
  BY <1>1, InitHolds, NextHolds, PTL DEF OverlaySpec

-----------------------------------------------------------------------------
(* What ImGui holds while the game is inside a Reset.                      *)

(* ImGui holds something only once it is set up, and nothing between       *)
(* hkReset's release and the runtime's answer.                             *)
HeldInv ==
  /\ objects => g_imgui_init
  /\ pc["game"] = "reset" => ~ objects

OverlayInv == OverlayTypeOK /\ CaptureInv /\ ResetInv /\ HeldInv

LEMMA HookThreadHolds ==
  ASSUME OverlayTypeOK, HeldInv, HookThread
  PROVE  HeldInv'
<1>0. "game" \in Threads /\ "hook" \in Threads /\ "game" # "hook"
  BY DEF Threads
<1>1. UNCHANGED imgui /\ \E l : GoTo("hook", l)
  BY DEF HookThread, HookDevice, CheckReset, StoreReset, CheckPresent, StorePresent,
         PatchReset, PatchPresent, LookForDevice, Poll, RepairReset, RepairPresent,
         Repair, EnterHookDevice
<1>2. pc'["game"] = pc["game"]
  BY <1>0, <1>1 DEF GoTo, OverlayTypeOK
<1> QED
  BY <1>1, <1>2 DEF HeldInv, imgui

LEMMA FinishResetHolds ==
  ASSUME OverlayTypeOK, HeldInv, FinishReset
  PROVE  HeldInv'
<1>0. "game" \in Threads
  BY DEF Threads
<1>1. \E l : GoTo("game", l) /\ l # "reset"
  BY DEF FinishReset, CallOriginalReset, EnterHookDevice, EntryOfHookDevice, HookDevice,
         CheckReset, StoreReset, CheckPresent, StorePresent, PatchReset, PatchPresent,
         AfterHookDevice
<1>2. pc'["game"] # "reset"
  BY <1>0, <1>1 DEF GoTo, OverlayTypeOK
<1>3. objects' => g_imgui_init'
  BY DEF FinishReset, CallOriginalReset, HookDevice, CheckReset, StoreReset, CheckPresent,
         StorePresent, PatchReset, PatchPresent, HeldInv, imgui
<1> QED
  BY <1>2, <1>3 DEF HeldInv

LEMMA HeldStep ==
  ASSUME OverlayTypeOK, HeldInv, [OverlayNext]_overlayVars
  PROVE  HeldInv'
<1>1. CASE Present
  <2>1. pc["game"] = "idle" /\ UNCHANGED pc
    BY <1>1 DEF Present, HookedPresent, Idle, thread
  <2>2. objects' => g_imgui_init'
    <3>1. CASE g_imgui_init' = TRUE
      BY <3>1
    <3>2. CASE UNCHANGED <<g_imgui_init, objects>>
      BY <3>2 DEF HeldInv
    <3>3. CASE g_imgui_init /\ UNCHANGED g_imgui_init
      BY <3>3
    <3> QED
      BY <1>1, <3>1, <3>2, <3>3 DEF Present, HookedPresent
  <2> QED
    BY <2>1, <2>2 DEF HeldInv
<1>2. CASE hkReset
  <2>1. ~ objects' /\ UNCHANGED g_imgui_init
    BY <1>2 DEF hkReset, HeldInv
  <2> QED
    BY <2>1 DEF HeldInv
<1>3. CASE PlainReset \/ Environment
  BY <1>3 DEF PlainReset, Environment, CreateDevice, LoseDevice, Minimise, Interfere, imgui,
              thread, HeldInv
<1>4. CASE UNCHANGED overlayVars
  BY <1>4 DEF overlayVars, imgui, thread, HeldInv
<1> QED
  BY <1>1, <1>2, <1>3, <1>4, HookThreadHolds, FinishResetHolds DEF OverlayNext, GameResets

LEMMA OverlayInvariance == OverlaySpec => []OverlayInv
<1>1. OverlayInit => OverlayInv
  BY InitHolds DEF OverlayInit, HeldInv, OverlayInv
<1>2. OverlayInv /\ [OverlayNext]_overlayVars => OverlayInv'
  BY NextHolds, HeldStep DEF OverlayInv
<1> QED
  BY <1>1, <1>2, PTL DEF OverlaySpec

(* hkReset never makes the runtime refuse: the Reset it passes on fails    *)
(* only while the window is minimised.  This is the step DeviceRecovers    *)
(* turns on; that the game keeps trying is left to fairness.               *)
THEOREM HookedResetsSucceed == OverlaySpec => HookedResetSucceeds
<1>1. OverlayInv /\ [OverlayNext]_overlayVars => [CallOriginalReset => lost' = iconic]_overlayVars
  <2> SUFFICES ASSUME OverlayInv, CallOriginalReset PROVE lost' = iconic
    OBVIOUS
  <2>1. g_oReset = "orig" /\ ~ objects
    BY DEF OverlayInv, CaptureInv, PlaceInv, Captured, HeldInv, CallOriginalReset
  <2>2. Accepts <=> ~ iconic
    BY <2>1 DEF Accepts
  <2>3. lost' = ~ Accepts
    BY <2>1 DEF CallOriginalReset
  <2>4. iconic \in BOOLEAN
    BY DEF OverlayInv, OverlayTypeOK
  <2> QED
    BY <2>2, <2>3, <2>4
<1> QED
  BY <1>1, OverlayInvariance, PTL DEF OverlaySpec, HookedResetSucceeds

-----------------------------------------------------------------------------
(* HookThread's watch.                                                     *)

(* What HookThread finds when it arrives is the game's own.                *)
UnseenInv == GivesUpUnseen /\ (~ Watching => pc["game"] = "idle")

LEMMA HookThreadWatches ==
  ASSUME OverlayTypeOK, HookThread
  PROVE  /\ UNCHANGED imgui /\ pc'["game"] = pc["game"]
         /\ Watching => Watching'
         /\ ~ Watching' => UNCHANGED <<captured, vtbl>>
         /\ Watching /\ pc["hook"] # "poll" => Lap[pc'["hook"]] < Lap[pc["hook"]]
<1>0. "hook" \in Threads /\ "game" \in Threads /\ "game" # "hook"
  BY DEF Threads
<1>1. UNCHANGED imgui /\ \E l : GoTo("hook", l)
  BY DEF HookThread, HookDevice, CheckReset, StoreReset, CheckPresent, StorePresent,
         PatchReset, PatchPresent, LookForDevice, Poll, RepairReset, RepairPresent,
         Repair, EnterHookDevice
<1>2. pc'["game"] = pc["game"] /\ \A l : GoTo("hook", l) => pc'["hook"] = l
  BY <1>0, <1>1 DEF GoTo, OverlayTypeOK
<1>3. CASE CheckReset("hook") \/ StoreReset("hook") \/ CheckPresent("hook")
  BY <1>1, <1>2, <1>3 DEF CheckReset, StoreReset, CheckPresent, Watching, Lap
<1>4. CASE StorePresent("hook") \/ PatchReset("hook") \/ PatchPresent("hook")
  BY <1>1, <1>2, <1>4 DEF StorePresent, PatchReset, PatchPresent, AfterHookDevice, Watching, Lap
<1>5. CASE LookForDevice
  BY <1>1, <1>2, <1>5 DEF LookForDevice, EnterHookDevice, EntryOfHookDevice, Watching, captured
<1>6. CASE Poll
  BY <1>1, <1>2, <1>6 DEF Poll, EnterHookDevice, EntryOfHookDevice, Watching
<1>7. CASE RepairReset \/ RepairPresent
  BY <1>1, <1>2, <1>7 DEF RepairReset, RepairPresent, Repair, Watching, Lap
<1> QED
  BY <1>3, <1>4, <1>5, <1>6, <1>7 DEF HookThread, HookDevice

(* Nobody else moves HookThread, and the hooks are not entered before it   *)
(* has set them.                                                           *)
LEMMA OthersLeaveWatch ==
  ASSUME OverlayTypeOK, OverlayNext, ~ HookThread
  PROVE  pc'["hook"] = pc["hook"]
<1>0. "hook" \in Threads /\ "game" \in Threads /\ "game" # "hook"
  BY DEF Threads
<1>1. CASE GameResets \/ FinishReset
  <2>1. UNCHANGED pc \/ \E l : GoTo("game", l)
    BY <1>1 DEF GameResets, FinishReset, hkReset, PlainReset, CallOriginalReset,
                EnterHookDevice, HookDevice, CheckReset, StoreReset, CheckPresent,
                StorePresent, PatchReset, PatchPresent, thread
  <2> QED
    BY <1>0, <2>1 DEF GoTo, OverlayTypeOK
<1>2. CASE Present \/ Environment
  BY <1>2 DEF Present, HookedPresent, Environment, CreateDevice, LoseDevice, Minimise, Interfere,
              thread
<1> QED
  BY <1>1, <1>2 DEF OverlayNext

LEMMA UnseenStep ==
  ASSUME OverlayTypeOK, CaptureInv, UnseenInv, [OverlayNext]_overlayVars
  PROVE  UnseenInv'
<1>1. CASE HookThread
  BY <1>1, HookThreadWatches DEF UnseenInv, GivesUpUnseen, captured, imgui
<1>2. CASE OverlayNext /\ ~ HookThread /\ ~ Watching
  <2>1. /\ pc["game"] = "idle" /\ g_oReset = "null" /\ g_oPresent = "null" /\ ~ g_imgui_init
        /\ \A d \in Devices : vtbl[d].reset = "orig" /\ vtbl[d].present = "orig"
    BY <1>2 DEF UnseenInv, GivesUpUnseen
  <2>2. ~ Present /\ ~ hkReset /\ ~ FinishReset
    BY <2>1 DEF Present, HookedPresent, hkReset, FinishReset, CallOriginalReset, HookDevice,
                CheckReset, StoreReset, CheckPresent, StorePresent, PatchReset, PatchPresent,
                OverlayTypeOK
  <2>3. PlainReset \/ Environment
    BY <1>2, <2>2 DEF OverlayNext, GameResets
  <2>4. ~ \E d \in Devices : Interfere(d, "reset") \/ Interfere(d, "present")
    BY <2>1 DEF Interfere
  <2>5. UNCHANGED <<captured, imgui, thread, vtbl>>
    BY <2>3, <2>4 DEF PlainReset, Environment, CreateDevice, LoseDevice, Minimise
  <2> QED
    BY <2>1, <2>5 DEF UnseenInv, GivesUpUnseen, captured, imgui, thread
<1>3. CASE OverlayNext /\ ~ HookThread /\ Watching
  BY <1>3, OthersLeaveWatch DEF Watching, UnseenInv, GivesUpUnseen
<1>4. CASE UNCHANGED overlayVars
  BY <1>4 DEF overlayVars, captured, imgui, thread, UnseenInv, GivesUpUnseen, Watching
<1> QED
  BY <1>1, <1>2, <1>3, <1>4

LEMMA UnseenInvariant == OverlaySpec => [](OverlayInv /\ UnseenInv)
<1>1. OverlayInit => UnseenInv
  BY DEF OverlayInit, Threads, UnseenInv, GivesUpUnseen
<1>2. OverlayInv /\ UnseenInv /\ [OverlayNext]_overlayVars => UnseenInv'
  BY UnseenStep DEF OverlayInv
<1> QED
  BY <1>1, <1>2, OverlayInvariance, PTL DEF OverlaySpec

(* A game HookThread has given up is as it found it.                       *)
THEOREM GivesUpTheUntouched == OverlaySpec => []GivesUpUnseen
<1>1. UnseenInv => GivesUpUnseen
  BY DEF UnseenInv
<1> QED
  BY <1>1, UnseenInvariant, PTL

(* Once in its loop HookThread comes back to the current device after at   *)
(* most nine steps of its own, whatever the game and other overlays do:    *)
(* HooksReturn needs no more than that it is scheduled.                    *)
THEOREM HookThreadGoesRound == OverlaySpec => WatchGoesRound
<1>1. ASSUME OverlayInv, [OverlayNext]_overlayVars, Watching
      PROVE  /\ Watching'
             /\ pc["hook"] # "poll" /\ pc'["hook"] # pc["hook"]
                  => Lap[pc'["hook"]] < Lap[pc["hook"]]
  <2>1. CASE HookThread
    BY <1>1, <2>1, HookThreadWatches DEF OverlayInv
  <2>2. CASE OverlayNext /\ ~ HookThread
    BY <1>1, <2>2, OthersLeaveWatch DEF OverlayInv, Watching
  <2>3. CASE UNCHANGED overlayVars
    BY <1>1, <2>3 DEF overlayVars, thread, Watching
  <2> QED
    BY <1>1, <2>1, <2>2, <2>3
<1>2. OverlayInv /\ [OverlayNext]_overlayVars
      => [Watching =>
            /\ Watching'
            /\ pc["hook"] # "poll" /\ pc'["hook"] # pc["hook"]
                 => Lap[pc'["hook"]] < Lap[pc["hook"]]]_overlayVars
  BY <1>1
<1> QED
  BY <1>2, OverlayInvariance, PTL DEF OverlaySpec, WatchGoesRound
=============================================================================
