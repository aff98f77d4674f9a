# OpenSAMP in TLA+

A verification project for OpenSAMP, the open-source SA-MP client: a DLL
injected into GTA: San Andreas that hooks the game loop and the renderer, talks
to a server through a vendored RakNet, and drives the game from what the server
says. The modules model the parts of it whose correctness depends on the *order*
in which things happen: user calls, frames, packets, threads, resets, failures.

Paths below are relative to the repository; `bridge` is
`native/sampraknet_bridge.cpp`. Line numbers are of the modelled commit.

## 1. The system

| Part | Source | State it keeps | Operations | What must be right |
|---|---|---|---|---|
| CNetGame | `native/net/netgame.cpp` | `m_state`, when it was entered, `m_initialized` | Initialize, Shutdown, Connect, Disconnect, Tick | the FSM never runs ahead of the bridge's flags; a join ends |
| Bridge: session | bridge 534-600, 962-1040, 1099-1180, 2340-2376, 2790-2820, 3400-3524 | request, connection, join and spawn flags, spawn stage, SpawnInfo, own id | Connect, Disconnect, Tick, UpdateNetwork, session RPCs | one session's flags nest and leave nothing behind; one spawn, from fresh data |
| RakNet client | `native/vendor/sampraknet` | one link, one receive queue | Connect, Disconnect, Receive; a network thread | (vendored) |
| Outgoing sync | bridge 3026-3320, 3526-3573 | five "last sent" ticks, the local vehicle's id | on-foot, in-car and aim senders | rates under a wrapping tick counter; no silence; the right vehicle |
| Player roster | bridge 307-328, 602-930, 1041-1259, 2378-2401 | `playerInfo[]` | joins, quits, renames, streaming, sync packets | a slot describes who has it now, whatever was dropped, cut or late |
| Local player | bridge 2063-2140, 2770-2820, 2990-3110, 3474-3573 | the ped's place, `fNormalModePos`, `SpawnInfo`, the spawn flags | spawn information, teleports, spectating, the spawn FSM, the on-foot packet | what is reported is where the ped is; a spawn is where the server said |
| World: time and skin | bridge 2170-2315, 3526-3533; `native/game/game.h`; `native/hooks.cpp` 161-200 | `g_world`, the ped's model | WorldTime, SetTimeEx, the pin in Tick; the boot swap, ScrSetPlayerSkin | the player sees the server's time and wears what it ordered; no swap to a model that is not there |
| Dialog, chat | `native/gui/dialog.cpp`, `chat.cpp` | the dialog and its selection; shown and pending lines, the input line | Show, Hide, Respond, Draw; PushLineAsync, Draw | an answer belongs to the dialog the user saw; lines in order, none lost |
| ImGui manager, input guard | `native/gui/imgui_manager.cpp`, `native/input_guard.cpp` | the window procedure, ImGui's queue | HookWndProc, draw_ui, ModalActive | what holds the keyboard can be left |
| Coloured text | `native/gui/colored_text.h` | none | two drawing loops | they end, and draw the text |
| D3D9 overlay | `native/d3d.cpp` | captured originals, the known device, ImGui's objects | Present, Reset, HookThread | a hook never calls itself; a lost device recovers |
| Boot | `native/dllmain.cpp`, `native/hooks.cpp` | frame counters, once-flags | MainThread, script hook, TickGameReady | the hook is in before the game starts its script; one client |
| Launcher | `launcher/inject.h` | a process, handles, one remote buffer and thread | run_game, inject_dll_load_library_w | every failure cleans up before the user is told; success is real |
| Text encoding, wire formats | `native/util/encoding.h`, bridge | none | conversions | not modelled |
| Game access | `native/game/*.h`, `native/gta/*.h` | none of its own | calls into the game by address | (only what the parts above ask of it) |
| Patches, diagnostics | `native/patches.cpp`, `native/diag.cpp` | none | one-shot writes; dumps | not modelled |

How they interact. The game calls `CGame::Process` once a frame; the hook calls
`CNetGame::Tick`, which calls `bridge::Tick`, which drains RakNet's queue (each
packet runs its handler at once, on the game thread), issues a queued connection
request, moves the spawn stages, pins the clock and sends sync; only then does
CNetGame look at the flags and move its own state. RakNet's thread fills the
queue at any time. The chat (`//connect`, `//disconnect`) and the dialogs run in
`Present`, on the same thread as the tick but never inside one. `Present` and
`Reset` reach the client through two slots of the device's method table, which
HookThread (every 250 ms) and `hkReset` (on the game's thread) both write without
a lock. MainThread installs the script hook, CNetGame and HookThread, in this
order, while the game is already running: the launcher, a process of its own,
injects the DLL while the game goes its own way to the menu.

What is hard: flags that outlive the session they describe and two places that
reset them; packets that arrive inside a tick; timeouts that race an answer; two
paths that spawn; two layers of rate gates over wrapping 32-bit ticks; a table
slot read twice and written from two threads; a device that is lost while ImGui
holds objects on it; a dialog replaced between a click and its frame; seven
hand-written failure exits; a table of players that no session clears.
`PROJECT.json` lists every such hazard with its line and the properties for it.

## 2. The modules

| Module | Models | Built on |
|---|---|---|
| `RakClient` | the link and its receive queue, as the bridge can observe them | |
| `Bridge` | flags, handlers, the spawn FSM, one Tick in steps; what a server may send | `RakClient` |
| `NetGame` | CNetGame, user calls, the composition and its properties | `Bridge` |
| `Session` | abstract: what one connection promises (opened, accepted, joined, spawned, ended) | |
| `SpawnFsm` | abstract: how a player gets into the world (asked, answered, spawned, taken out); implemented by `NetGame` and by `LocalPlayer` | |
| `MCNetGame` | servers for TLC | `NetGame` |
| `Sync` | the end of Tick, the senders and their gates, the seat RPCs | |
| `Roster` | `playerInfo[]` over several sessions | |
| `LocalPlayer` | where the ped, the bridge's globals and the spawn record say the player is, and the packet that reports it; implements `SpawnFsm` | `Roster` |
| `MCLocalPlayer` | names at the handlers' limits, and a bound on what varies at once | `LocalPlayer` |
| `WorldClock` | `g_world`, the game's clock and the pin, over several sessions | |
| `World` | the boot swap, ScrSetPlayerSkin and streaming, with the clock | `WorldClock` |
| `DialogService` | abstract: what a server that shows dialogs is promised (one up, answered once, by a row and a button it has) | |
| `Ui` | server dialogs, chat lines, the input line, keys; implements `DialogService` | |
| `ColoredText` | the two loops of `colored_text.h`, a turn a step | |
| `Overlay` | d3d.cpp: both threads, the table, device loss, ImGui's objects | |
| `Boot` | MainThread, the script hook, TickGameReady; the overlay runs inside it | `Overlay` |
| `Launcher` | run_game and the game it starts | |
| `Startup` | a launch over both processes: the launcher, and the client coming up in the game it starts | `Launcher`, `Boot` |
| `NetGameProofs`, `SyncProofs`, `OverlayProofs`, `UiProofs`, `ColoredTextProofs` | the proofs | their module, TLAPS |
| `RosterProofs` | the proofs for Roster and LocalPlayer | `LocalPlayer`, TLAPS |
| `WorldProofs` | the proofs for WorldClock and World | `World`, TLAPS |
| `StartupProofs` | the proofs for Launcher, Boot and Startup | `Startup`, `OverlayProofs` |

Variables and actions carry the source's names where there is one, and there is
one action per handler, call or step. A definition marked `mutant` is a
plausible mistake in the definition below it; no action uses it, and it records
which slip of the code the property it is listed with would notice
(`PROJECT.json`, `mutants`).

**NetGame and Bridge.** `phase` splits one Tick, so that packets may arrive
inside it. `m_stateAge` and `s_spawnStageAge` stand for `GetTickCount()` minus
the stored tick: each is compared with one threshold only, so the age stops
counting one past it. `SpawnInfo` stands for whose data the global holds (never
written, an earlier session's, this one's). `classRequests` counts the
RequestClass calls a server still owes an answer. `IgnoredPacket` is every case
of `UpdateNetwork`'s switch whose body changes no modelled state. The server may
send any modelled RPC from the acceptance on (`ServerRpc`): most handlers do not ask
whether InitGame has come, and scripts run from OnPlayerConnect on, which is before
it. Handlers of other state are in the modules below.

**Sync.** A frame ends in `SendSync`: Tick's own gate, then the in-car sender or
the on-foot and aim senders, each with its gate. Ticks are DWORDs modulo `Wrap`.
`sinceBody`, `bodyGap`, `silence` and `wrapped` are history: true times that no
tick of the code can tell. The several GetTickCount() calls of one frame are
taken to return one tick.

**Roster and LocalPlayer.** Server and handler are one step where an RPC is
reliable and ordered, and `announced` / `told` is the server's side of it. Sync
packets are unreliable: their actions are enabled whenever there is a link,
whatever became of the player, and may be truncated, which leaves the record the
handler has zeroed (`Positions`: never given, cut short, given). A name is a model
value with a length, because a join takes at most 20 characters (bridge 1060) and a
rename fewer than 64 (2388), of which it stores 23 bytes (`Cut`). What only a status
line counts (`iIsConnected`) and what nothing reads (the marker flag) is left out.
`LocalPlayer` adds what the client knows of itself: a handler is a step, the end of
Tick (spawn FSM, refresh from the ped, sync) is one step, and `sent` is the position
in the on-foot packet of the last step, if it sent one (when it must is `Sync`'s
matter). Spawn information, teleports, spectating and restarts are taken from the
acceptance on, as their handlers do. Of `SpawnInfo` only the place counts here.

**WorldClock and World.** The game's thread alternates between CGame::Process,
where its clock moves and streaming loads and drops models, and the tick, where
RPCs are handled and the clock is pinned. `EnsureModelLoaded` gives up after 200
looks, so every load may fail; the answer and what is loaded afterwards are
separate. Both run through any number of sessions.

**Ui.** Window messages act between frames; keys wait in `events` for the next
`draw_ui`, which draws the chat and then the dialog. Where ImGui decides (who
gets the keyboard, which row is clicked) the model chooses.

**ColoredText.** A colour is the position of the tag that set it, so a stale or
lost colour is told from the right one. `DrawnRight` and `RowsRight` define the
right picture from the text alone.

**Overlay and Boot.** Every read or write that HookDevice makes of shared memory
is a step. `HookedPresent` is hkPresent but for TickGameReady, which `Boot` adds
(`Overlay` alone lets it happen at any time). The device refuses a Reset while
ImGui holds objects on it or the window is minimised.

**Launcher and Startup.** Every call may fail; the game may start late, hang,
crash or exit at any moment, and its loader thread reads the path at its own
pace. A failed launch ends in a message box (`inject.h:261`), so run_game returns
when the user dismisses it (`DismissError`), which nothing makes him do. A kill is
taken to be done when it returns. `Startup` puts `Boot` into the game's process: the game's own steps need a
running process, the client's also a loaded DLL, so MainThread may come before
there is a device, into the menu, or into a game the user started by hand, and
whatever runs ends with the process. The CreateThread of DllMain and that of D3D_Start
are taken to succeed (`dllmain.cpp:72` does not look at its answer, `d3d.cpp:299` not
beyond closing the handle).

## 3. The runs

All runs check for deadlock.

| Run | What it shows | Bounds | Distinct states |
|---|---|---|---|
| `netgame` | under every interleaving, flags, stages and FSM stay consistent and move as one `Session` and one `SpawnFsm`; at most one spawn, from fresh data | 2 ids, 2 queued packets, 1 owed class answer, waits of 1 and 2, frame times 1 and 2, every kind of packet, packets inside a tick | 1,447,420 |
| `netgame_live` | a join ends; an answered class request ends in a spawn | 1 id, queue of 1, no gamemode restart | 12,408 |
| `netgame_restart` | *violated*: after a gamemode restart the player is served again | 1 id, queue of 1 | |
| `sync` | body packets are paced through wraps; until one, no long silence and aim with every on-foot packet | counter of 11 ticks, rates 3/3/2/2, frames of 1, 2 and 4 | 1,029,836 |
| `sync_vehicle` | *violated*: an in-car packet names the vehicle driven | 2 vehicles | |
| `local_player` | speakers have the name last announced, if a join takes it, streamed players a position; a spawn is where the server said; the stages are a `SpawnFsm` with spawn RPCs before InitGame too | 2 ids, 3 names (20, 11 and 21 characters), 2 places, any number of sessions; slots and local player vary one at a time (`OneAtATime`) | 161,882 |
| `body_sync` | *violated*: an on-foot packet reports where the ped is | as `local_player`, without `OneAtATime` | |
| `world` | the player sees this server's time and wears its last order; no swap within a session to a model that is not loaded | days of 3 hours of 2 minutes, 3 models, 2 ids, any number of sessions | 49,680 |
| `ui` | answers name existing rows, one per dialog; to the server the windows are a `DialogService`; lines in order; Escape leads out | 2 dialogs shown, lists of 2 rows, 2 lines | 437,928 |
| `colored_text` | both loops end and draw the right picture | every text of up to 6 characters, tags of 1 digit | 270,912 |
| `overlay` | no self-capture, originals known, lost device recovers, hooks come back | 2 devices, 2 looks for one, 2 troubles (slots taken, failed patches) | 141,238 |
| `startup` | whatever fails, run_game returns or shows its error, cleans up, kills what it gave up on and reports success only of a loaded client; the game's own script runs only after a start by hand or a script hook that could not be installed; one RakClient; a launch ends with the user in or with no game | 1 poll, 1 device and look for it, 1 trouble, 2 frames to the menu, 1 to settle | 170,339 |

Why the bounds are enough. Two ids or names tell a stale one from the current
one. A queue of two holds an acceptance and what follows it, or an answer and the
packet that invalidates it. Frame times of one and two let an age land on its
threshold and jump over it; frames of 1, 2 and 4 do the same to every gate of
`sync`, whose 11 ticks wrap again and again, pass through the special tick 0 and
still hold two rates. Two devices let a thread work on the old one while the
other has seen the new one (`overlay`); two dialogs replace a long list by a short
one; of two places one is the zeroed position, which is where the mistakes lead;
three models are the one the game starts with, the boot's and an ordered one. The three
names are one a join just takes and a rename cuts, what is left of it, and one a join
drops. `OneAtATime` keeps slots and local player from varying at once: the names and
positions of all slots vary while the local player has done nothing, and he acts
while the slots hold one name. They meet only in the phase, the own id and the own
slot's position, which vary with both, and that neither disturbs the other is a
theorem (`LocalPlayerKeepsRoster`). Six
characters with a tag of three leave room for two tags in a row, a tag across a
newline, a half tag and a brace at the end. Where a theorem stands beside the run
(section 4) the bounds only matter for the runs' speed.

Fairness, and why the code justifies it:

* `netgame_live`: weak fairness of the game thread. The hook runs every frame;
  neither the pump nor the FSM blocks. Nothing is assumed of server, network or
  user. `MidTick = FALSE`, because a server that fed the queue faster than the
  pump drains it would keep one Tick busy for ever.
* `overlay`: HookThread is scheduled; the game, as D3D9 programs do, calls Reset
  again while its device is lost and the window is not minimised; a call of Reset
  that has begun goes on. Presents, the user and other overlays owe nothing.
* `startup`: the launcher's steps and each client thread are scheduled; the game,
  while it lives, goes on from loading to menu to playing, runs its scripts and
  shows frames. That it lives, answers or loads the DLL is not assumed: every wait
  of the launcher has a time limit, and `LaunchEndsWell` allows for a game that ends.
  Nor is it assumed that the user dismisses an error: `RunGameReturns` says that
  run_game returns or has nothing but that to wait for.
* `ui`: frames go on, and the user presses Escape again while something is modal.
* `colored_text`: the loop's next turn is taken.

### The violated runs

* `UnspawnedIsServed`. `GameModeRestart` says (bridge 2371) that it drops spawn
  state "so the FSM re-runs RequestClass / Spawn next iteration". It clears
  `iSpawned` and `g_spawnInfoReceived` but leaves `s_spawnStage` at `Done`, where
  Tick does nothing: the player is never spawned again.
* `DrivenVehicle`. A comment of Tick (bridge 3558) promises to "fall back to
  on-foot sync (also covers walking into a car ourselves". `g_localVehicleId` is
  what the server said last; Tick asks only whether it is set and whether the ped
  drives *some* vehicle. A player seated in one car by the server who takes
  another sends in-car packets in the name of the first.

* `BodyReportsPed`. Tick (bridge 3535) means to "refresh local-player globals from
  the live ped and pump on-foot sync to the server". The sender (3093) then takes
  the position from the own slot of `playerInfo[]`, which only the server's packets
  about the own id write: a player whom the server has told nothing about himself
  reports the origin wherever he stands.

### Divergences noticed while modelling, without a run

The models do what the code does in each of these; a property would have to wait
for the code to change, or its data is abstracted.

* `ScrTogglePlayerSpectating` (bridge 2810) spawns when spectating ends, whether
  or not spawn data ever came; the comment at 3483 says the FSM exists to avoid
  firing Spawn with a zeroed SpawnInfo. `SpawnsWhereTold` excepts this one path, and
  says that it is the only one that may spawn from a place this server never gave.
* A lost connection is only logged (bridge 992); the header documents
  `IsConnected()` as the link being up (`sampraknet_bridge.h:39`).
* Around a wrap of GetTickCount the on-foot gate (bridge 3082) may refuse for
  long, and a tick of exactly 0 switches a sender off, although 3536 says the
  server sees nothing of a player who is not pumped.
* A TabList answer carries 0xFFFF (`dialog.cpp:83`) where bridge 1910 keeps that
  value for dialogs that are no lists.
* WM_KEYUP is swallowed while something is modal (`imgui_manager.cpp:98`), so the
  game may take a key for held that is not.
* The failure message of LoadLibraryW with the remote error, which
  `docs/build.md:123` describes, is thrown and dropped (`inject.h:180-193`, 255).
* `ServerJoin` stores a name in the wire's encoding (bridge 1068), although the
  client "runs entirely in UTF-8" (`native/util/encoding.h:3`).
* A join with a name of more than 20 characters is dropped whole (bridge 1060),
  although `MAX_PLAYER_NAME` is 24 and a rename may give one of up to 63, which it
  stores cut at 23 bytes. A player with such a name speaks under whatever an earlier
  player or session left in his slot. `SpeakersNamed` is about names that a join takes,
  and says that these never suffer from what the others leave.
* `InitGame` reads a world time and drops it (bridge 1134), and `g_world` outlives
  the session: a new session shows the last server's time until its own speaks
  (3526 calls the server authoritative). `ClockPinned` is about what this server
  has said.

* Swaps of the player's model within a session: `hooks.cpp:176-179` says they must
  be left out, `ScrSetPlayerSkin` does them. Model 0 is refused there although it is
  loaded, because `EnsureModelLoaded` (`game.h:402`) never answers yes for it; the
  swap itself (`game.h:573`) ignores that answer, so the boot swap may go to a model
  that did not load. `patches.cpp:140` still turns CClothes::RebuildPlayer into a
  return, which `game.h:566-569` describes as no longer done.

## 4. The proofs

The theorems hold for every value of the constants that satisfies the named
assumptions of the modules: bounds are natural numbers, "no id" is not an id,
rates lie below the counter's period and in the order they have in the code
(`RateAssumption`: the senders' rates are at most Tick's, the aim rate below it).
Each proof has one step per action. Where the property is not inductive, this is
what had to be added:

* **NetGame**: types, five safety invariants, `AutoSpawnIsFresh`, and that `NetGame`
  implements `Session` and `SpawnFsm`. `FlagsNest` needs that InitGame is handled
  only after the acceptance; that follows from what the network thread queues and
  when. `QueueInv`: nothing queued before the request was issued or while it is
  answered; an acceptance is first, alone, and finds the client unaccepted; an
  InitGame is queued only for an accepted client. `SpawnInv` ties stage and mark to
  the spawn data, `LifeInv` the life cycle to the FSM. That Disconnect, which closes
  the link only if a flag says there is one, never leaves one open is `QueueInv`
  too. The refinement reads the session's stage off the flags. That of the spawn
  machine needs nothing more: its server, too, may inform and restart at any time.
* **The spawn machine**: `SpawnFsm` is what NetGame (timing, queue, dialogs) and
  LocalPlayer (places) have in common of the stages, and both are proved to
  implement it, so neither leaves out something that changes how the other moves.
  `NeverSpawnsUntold` and `FsmSpawnsOnceASession` are proved of the small machine
  and hold of the code's model by the refinement. The second is why
  `netgame_restart` fails for every server and every bound: once done, the machine
  is done until the session ends.
* **OnlyUserEnds**: a refusal, a lost link and a server's packets never end a
  session, only the user does, or a join that takes too long. So the branch of
  `TickConnected` (`netgame.cpp:205`) that would is dead code.
* **Sync**: `PaceInv` (the true gap is at least what Tick's subtraction sees) gives
  the pacing for every clock, wrapping or not. `OrderInv` orders the ticks and
  `QuietInv` bounds the silence by each of them; both hold until the wrap, and
  `wrapped`, a history variable, says so in the theorems themselves.
* **Overlay**: `CaptureInv`: a slot holds a hook only after both originals are
  captured (`SlotInv`); how far HookThread has come in HookDevice says which of them
  it has, and the game's thread gets into HookDevice only with both (`PlaceInv`);
  HookDevice works on a device (`WorkInv`). So a thread that still has to capture
  reads a table without hooks, and its second read of a slot finds what the first
  found. `ResetInv` serves the types; `HeldInv`: between hkReset's release and the
  runtime's answer ImGui holds nothing, and before it is set up nothing either.
* **Launcher**: what is held, allocated, alive and loading at each point of run_game
  (`HandlesByPc`, `PathByPc`, `GameByPc`, `LoaderByPc`) and that a non-null exit
  code is LoadLibraryW's or a dead process's (`AnswerOfLoader`).
* **Boot**: every step is a step of the overlay or leaves its variables alone, so
  `BootSpec => OverlaySpec` brings the overlay's types along. `ClientInv` says how
  many clients there are at each point of MainThread, `QuietInv` that before
  HookThread is created no slot holds a hook, so no tick and no `//connect` can be
  ahead of CNetGame's own initialization; `PlayInv` who put a game under way.
  `EntryInv`: the player and the kick out of the menu belong to a game under way,
  and the user is in only after both MainThread's end and the player's coming.
* **Startup**: `StartupImplementsLauncher` and `StartupImplementsBoot`: each step of
  the composition is a step of one part and leaves the other alone, so the safety
  theorems of both, and of the overlay inside the boot, hold of a launch
  (`LaunchIsSafe`, `LaunchGoesForward`).
* **Ui**: the dialog that is up is the last one shown (`DialogInv`), so an answer's
  number is higher than every one before it; a drawn selection is a row that was
  clicked or the one Show chose (`DialogIsDrawn`). With that every frame, key and
  RPC is one step of `DialogService` or none of its business. For the lines: moving
  the pending ones only regroups the concatenation that `LinesInOrder` speaks of.
* **ColoredText**: `WalkInv` says that no tag reaches across the walk's position,
  that the current colour governs it, and that what was drawn is what should be;
  `RowInv` counts the newlines walked past, of which neither a tag nor a chunk has
  any. The length of tags and texts is arbitrary.
* **Roster**: `NoneAnnouncedYet` (the server announces nobody before InitGame) makes
  the two properties inductive; that renames keep the first rests on a cut being a
  name again (`NamesAreTaken`).
* **LocalPlayer**: `LocalPlayerSpec => RosterSpec`, which carries the two over. A
  spawn by the FSM needs a stage that only this session's class answer reaches.
* **World**: what the server gave is in `g_world` (`GivenIsKept`), and after a tick
  in a session it is in the clock (`SeenIsKept`); `WorldSpec => WorldClockSpec`
  carries that over. For the skin: in a session the boot swap is past, and an order
  whose model is there is heeded.

The type invariants of NetGame, Sync, Overlay, Launcher, Boot, Roster, LocalPlayer
and Ui are theorems and not run. Every invariant of the passing runs is a theorem,
and so are their action properties and the refinements.

Only model-checked: the liveness properties, because fairness and ENABLED are out
of the prover's reach. What can be proved of them is their safety half: that each
step on the way leads nearer and nothing leads back. That the steps are taken is
then the fairness of section 3, and that they can be taken is TLC's part.

| Liveness (TLC) | Proved, for every value of the constants |
|---|---|
| `JoinResolves` | `JoinIsTimely`: the first frame past the timeout ends the join; `EveryFrameCounts`: each frame ages it |
| `ClassAnswerSpawns` | `ImplementsSpawnFsm`: an answer is left by `Ready` only, `Ready` by the spawn only, unless the session ends |
| `DeviceRecovers` | `HookedResetSucceeds`: a Reset through the hook fails only for a minimised window |
| `HooksReturn` | `GivesUpUnseen`: the thread gives up only on a game it never touched; `WatchGoesRound`: otherwise every lap comes back to the look |
| `FreedUnderReaderDies` | `FreedUnderReaderEndsIt`: the launcher's next step ends the game |
| `RunGameReturns` | `NearerToReturn`: a natural number falls with each of the launcher's steps, and none raises it |
| `LaunchEndsWell` | `BootGoesForward`, `FramesLetIn`, `EntersReadyGame`: no link comes undone and no frame goes by in vain |
| `NoModalTrap` | `EscapeLeadsOut`: an Escape closes the chat, or the dialog in the frame that takes it |
| `Finishes` | `EveryTurnCounts`: a natural number falls with each turn |

Each of these was first checked by TLC on the bounds of the run of its module; they
stand in the module beside the property they belong to. But for `ImplementsSpawnFsm`
they are not in the `.cfg` files, and neither are the types: the theorems say more.

## 5. What is not modelled

* Handlers that print, or write one value into the game, and keep no state:
  menus, objects, text draws, weapons, cameras, animations, weather, money.
* Wire formats and encodings: bit layouts, the 4-bit health (bridge 661), the float
  health cast to a byte (3299), CP-1251 and UTF-8. Where a length decides what a handler
  does (the names of Roster) it is modelled; which bytes a name has is not. Left out are
  also the two numbers of the join message, the answer to the
  server's auth key (a table) and the gpci (a random string, multiplied and printed
  in hex), which only the server reads, and the bounds that a packet's
  ids are checked against: ids are of the table.
* The game behind its addresses: byte patches, opcodes, memory layouts, the guard
  hooks of `hooks.cpp`, whose failure is only logged. Their correctness is a claim
  about the game's machine code, which is not in the repository.
* Diagnostics, fonts, styles, scripts, the disabled stand-alone loop, and vendored
  code beyond what the client can observe of it.
* Of the hazards in `PROJECT.json`, those without a property: a connection that is
  lost or fails at once is only logged (bridge 992), and keys released while something
  is modal are swallowed (`imgui_manager.cpp:98`). The models do what the code does in
  the first and leave the game's keys out; a property would restate the line.
* The rows of the chat's window: `LinesInOrder` is about `m_lines`, of which the window
  displays the last. What is done under the queue's lock is one step, so the order is
  checked and not the lock.

## 6. How the project grew, and what is left

The session core came first (`NetGame`), then what a player would notice: sync,
overlay and boot, the UI, the launcher, coloured text, roster, world time; then the
compositions: the launcher with the client it starts (`Startup`), the local player
with the roster (`LocalPlayer`), the skin with the clock (`World`). What is left:

1. A codec module: the 4-bit health, the byte casts, the UTF-8 cut of a name (bridge
   2398), the rows of a dialog's text, the big-number product of the gpci (420);
   against reference definitions over bounded inputs.
2. `NetGame` and `LocalPlayer` in one composition. Both implement `SpawnFsm`, which is
   what they share; one module with timing, queue and places at once would be too
   large for TLC and is not expected to show more.
3. The placeholder RPC ids the bridge registers, against the ones a server sends.
