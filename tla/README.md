# TLA+ specifications of velocity-cs2

These modules model the parts of the program in which several threads, or a long
sequence of legal calls, can go wrong: the inline hooks and the life of the module, the
scene objects of the chams, the thread pool, the entity cache, the crash capture, the
model preview, the shot tracker, the log, and the unloading of the rendering context, the
event listeners and the weather against the threads that use them. TLC checks each on
small instances; TLAPS proves the safety of the hooks and of the calls through them, the
thread pool, the scene objects, the entity cache, the crash capture, the model preview, the
log and the unloading for every instance.

Everything is translated from the source under `velocity-cs2/project`; paths below are
relative to it. `PROJECT.json` maps every definition to the lines it stands for, and lists
the runs, the mutants, the hazards and the theorems.

## 1. The system

A 64-bit Windows DLL is loaded into a host process. It finds functions of the host by byte
patterns, patches jumps into them, and does its work inside the detours. It draws a menu
and overlays from the hook of `IDXGISwapChain::Present`. The threads:

| thread | code of the module it runs |
| --- | --- |
| loader | `entry` (attach, detach) |
| initialization | `init_thread`: resolves addresses, installs the hooks, then `set_ready(true)`; unloads the module when it fails |
| game | `frame_stage_notify`, `create_move`, entity and level callbacks |
| render | `present`, `resize_buffers`, the menu, lazily created hooks |
| render workers | `generate_primitives`, `draw_scene_object*`, `om_set_render_targets` |
| pool threads of the host | the jobs given to `threadpool::run` and `parallel_for` |
| any | the vectored handler and the last-chance filter when a thread faults |

### Components

| component | state it keeps | operations | what is hard | what makes it correct | module |
| --- | --- | --- | --- | --- | --- |
| inline hooks (`utilities/hooking`) | per hook: target, trampoline, displaced bytes, enabled | `create`, `enable`, `disable`, `reset`, `call`; `manager::create` with rollback | stacked hooks, partial failure, refused page protections, callers in flight | every patch has an owner, no trampoline leaks or is used after it was freed, a batch is all or nothing, the code is restored | `Hooking`, `HookedCalls` |
| module life cycle (`entry.cpp`, `core/hooks`) | ready flag, hooks in two groups | initialize, set_ready, detach | failure at each step, callbacks while the hooks are half in place | a batch is installed whole or not at all; unloading gives back every location it may | `Hooking`, `HookedCalls` |
| thread pool (`utilities/threadpool`) | reference-counted jobs of the host's pool | `run`, `run_sync`, `run_batch`, `parallel_for`, `wait` | rounding, lost wake-ups, exceptions, aborted jobs | every index once, no job outlives a call that returned | `ThreadPool`, `ParallelFor` |
| scene objects of the chams (`esp/player/player.chams.cpp`) | two maps from pawns to engine objects, each under a shared mutex; pending shots | update at frame stage, push, shutdown at level change and detach; drawing by workers | re-entrance under a held lock, skipped callbacks, reused addresses | an object stays only where the engine cannot take it back; none is used after it went; no thread waits for itself | `SceneObjects` |
| entity cache (`systems/impl/entities.cpp`) | a vector of entries under a shared mutex | on_add, on_remove, force_update | hooks that go live one by one, reused indices | the cache mirrors the host's list | `EntityCache` |
| crash capture (`entry.cpp`, `diag.hpp`) | previous filter, the one report of the process | vectored handler, last-chance filter, `record_crash`, snapshot | one filter per process that others replace; two threads that crash at once; detach | the host's filter still runs, the report is that of the crash | `CrashFilters` |
| model preview (`systems/impl/model_preview.cpp`) | pending request, panel, staged and current texture | submit, process, reset, capture, promote, draw | four kinds of threads share atomics | references balance; what is drawn lives; the last selection is shown | `ModelPreview` |
| diagnostic log (`diag.hpp`) | file, lock word, dropped count | write, shutdown | bounded spin, close without the lock | lines are whole; every line is in the file or accounted for | `DiagLog` |
| rendering context and menu frame (`rendering/impl/context.cpp`, `imgui_menu.cpp`) | device, view of the back buffer, three flags, the library | present, resize, setting up and giving back, the menu's shutdown | the menu is taken down during a frame; a resize at any place | the host never resizes a buffer we refer to; a frame finds the library up | `RenderFrame`, `Detach` |
| weather (`world/impl/weather.cpp`) | one effect of the host's, by index | frame stage, release | indices are reused; released by another thread; nobody tells of a level change | no effect is lost, no effect of the host's is touched | `Weather`, `Detach` |
| detach order (`entry.cpp`, `hooks/cheat.cpp`) | what is given back, in which order | attach, unload | everything is given back before the hooks are removed | what is left in the host afterwards, and why | `Detach` |
| shot tracker (`misc/impl/impacts.cpp`) | records of shots, contact reports, under a mutex | command, fire, impact, report, hurt, poll, level change | the host's messages name no shot; two threads look for misses | a shot is a hit, a miss or none, and told once | `Impacts` |
| item images (`changer/impl/econ_item_system.cpp`) | image cache under a mutex | get_skin_image, decode job, finalize | a job that never starts | every image ends ready or failed | planned |
| materials, overlay materials | clones, an array of sixteen atomics | resolve, register, release at level end | adding at the limit from two threads | readers stay inside the array | planned |
| game events (`systems/impl/events.cpp`) | four listeners | register, fire, shutdown | firing while shutting down | the host has no listener whose handler is gone | `EventListeners`, `Detach` |
| injector (`injector/main.cpp`) | handles, memory in the other process | find, inject, wait, verify | the wait has a limit | memory is not freed while in use | planned |
| prediction, input, lag records | the host's state, saved and restored within one call | per command | floating point, host structures | the saved state is put back | planned in part |
| menus, overlays, glow, hud, movement, changers | settings; what is drawn is rebuilt each frame | per frame or per command | little control | - | not modelled |
| memory, patterns, addresses, schemas, security, steam, proto, logging | tables filled once | look-ups | none after initialization | - | not modelled |
| resources, tools, tests, vendored libraries | data, build-time programs, third-party code | - | - | - | not modelled |

How they meet: the hooks carry every call from the host into the other components, so
`Hooking` answers for when a callback can come at all and `HookedCalls` for the calls in
flight; the other modules start from a callback that has arrived. The level callbacks
reset the scene objects and the model preview. The entity cache feeds the features; the
thread pool serves `rage.cpp` and the item images. Crash capture wraps all of them, and
all of them write to the log, from any thread. Contacts and hits reach the shot tracker
through the event listeners, and the render thread asks it for misses in every frame. On
detach (`entry.cpp:473-515`) one thread gives everything back, the hooks last, so that
every part can still be entered while it is given back and after it; `Detach` composes
three parts to say what follows from that order.

## 2. The modules

**Hooking** - the installing thread, one action per step of `manager::create`, `jmp::create`,
`enable`, `disable` and `reset`, and the stages of the module's life. `code` is the first
instruction of each location: its own prologue, or a jump to another location; detours are
locations too, so hooks can stack. `Script` is the list of batches of `cheat::initialize`
(every feature hook is a batch of one that may fail; the present hooks are a batch that may
not), `ShutdownOrder` is the list `cheat::shutdown` walks, which is not the reverse and
misses one hook. Lazy hooks are those `present` creates. One program counter is enough:
the initialization thread installs until `set_ready`, the render thread after it, detach
last. A detach in the middle of a lazy creation is left out.

**HookedCalls** extends it with threads of the host that call the functions meanwhile:
each call follows the jumps, runs detours, reads the trampoline pointer (`jmp::call`) and
jumps to it in a later step. A torn write of the jump itself is below this level.

**ThreadPool** - one call of `parallel_for`, `run_batch` or `run_sync`. `Calls` is the set
of argument records. Jobs go through queued, running, signalled, released in the host's
pool (external), or are aborted; the three ways of waiting are those of `job::wait`. An
exception may leave the call at each submission and in the caller's own chunk.
**ParallelFor** is the abstract specification: every index once, then return. `ThreadPool`
implements it under the mapping `returned <- pc = "returned"`.

**SceneObjects** - the game thread's callbacks and the detaching thread as sequences of
sections under the two locks, visiting one pawn a step; the workers as the steps of
`generate_primitives` with its two try-locks. Objects are addresses, so a freed one can
come back. `Destroyed` and `Created` give the outcomes of the guarded engine calls, faults
included; a fault disables the path as `report_scene_path_rejection` does, and leaves the
object in the scene with no entry (`lost`), one just made included, when the call that
cleans up after a failed creation faults too. Whether the interface of the scene system was
found is chosen at the start (`scene_system`): without it `destroy` forgets the object and
the clean-up is not tried (`forgotten`), and the path stays enabled.

**EntityCache** - the host adds and removes entities, the hooks go live in their order or
not at all, a frame refills an empty cache. The hooks run on the host's game thread, so a
call is one step.

**CrashFilters** - filter slot, `g_previous_exception_filter`, the steps of the vectored
handler (swap, then store), of the last-chance filter, of `record_crash` and its worker,
and of attach and detach. The host sets its own filters, some of which chain. It is the
development build: a release build leaves its handlers in place on detach.

**ModelPreview** - the game thread's request and reset, the workers' capture and staging,
the render thread's promotion and menu. A worker tests panel and name in one step (`Match`)
and takes its reference in a later one (`Capture`, or `Miss`), so that a whole reset can come
in between; during its call the host keeps the texture. A texture is known by the revision
whose panel made it; `refs` counts the references the module holds. Settling and retry times only
decide when a request is taken. Initialization and shutdown are left out.

**Impacts** - the tracker of shots against a world that knows which round is which: a
command makes a record and may or may not fire; what the host tells of a round (`wire`)
arrives in order and names no shot, so records are matched by age and position as the code
does. Ages are counted in steps of the three periods that matter. `on_player_hurt` is two
sections under the mutex, with the render thread's look for misses possible between them.
The history marks what makes a match a guess: a round off the expected pattern that
overlaps another, a record that came due before the host had told all of its round, two
bullets in one frame.

**RenderFrame**, **EventListeners**, **Weather** - the state and actions of the three parts,
without a `Next` of their own. `RenderFrame` follows the render thread through setting up
(device, view, menu, flag), through the four calls of a frame that each test again whether
the menu is there, and through a resize; `render.in` separates the test from the use. The
listeners are registered one by one, known to the host before they are in the list, and a
walk over the list begins when the host fires an event. The weather is one effect known by
an index that the host gives out again; making it, storing its index and forgetting it are
separate steps.
**Detach** composes them: initialisation in the order of `init_thread`, the host's render
and game thread (which fires events or runs frames), and the unloading thread in the order
of `entry.cpp`. Frame stages reach the weather as soon as the hooks are in, ready or not
(`frame_stage_notify` does not ask), presents only while ready.

**DiagLog** - numbering, the bounded attempts at the lock, writing and releasing, the line
of the exception handler that runs on the thread that has the lock, threads the host stops
anywhere, and the close of the file without the lock. A pointer that `write` may read once
or twice is both.

Definitions commented "Wrong variant" are mutants: what a plausible slip in the code would
make of the definition after them. `Next` never uses one. Every checked property has one
that breaks it.

## 3. The runs

| run | instance | what it shows |
| --- | --- | --- |
| `hooking` | 4 functions, one of them a thunk; 7 hooks, of which three share a function, one is not found, one is lazy, one is missing from the shutdown list; 5 trampolines; jumps followed at most 3 times | types; every patch has an owner; trampolines are accounted for; batches are atomic; an enabled hook is reached and no path is a circle; what is left after unloading |
| `hooked_calls` | 2 callers, 2 functions, 3 hooks in two batches, one missing from the shutdown list | a call that no reset overlaps runs every detour due and the function exactly once; who is harmed ran a detour whose hook was reset meanwhile, left behind or unlisted |
| `thread_pool` | ranges of up to 5 indices, minimum sizes 1, 2 and 7, 1 to 3 processors, three ways to wait | counts of references; jobs are safe; it implements `ParallelFor`; it returns unless a job is aborted |
| `scene_objects` | 2 pawns, 2 addresses, 1 worker, with and without a scene system | draws are safe; every object in the scene is recorded, lost or forgotten; harm only between a skipped level callback and the next level; a level starts clean; what a detach leaves |
| `scene_objects_live` | 1 pawn, 1 address, 1 worker | the game thread's callbacks return |
| `entity_cache` | 4 indices: 2 refilled, 1 announced only, 1 beyond; 3 entities, 2 of a known class | one entry per index; stale only after an unseen removal; mirrors the list once synced |
| `crash_filters` | 2 threads, 2 host filters, one chains | a lone crash reaches the host; detach gives the filter back; one request; the crash that ends the process is the reported one |
| `crash_filters_race` | the same, from the attached state | expected to fail, see below |
| `model_preview` | 2 selections, 2 workers | references balance; the drawn view lives; what a reset leaves had passed it; the last selection is shown |
| `impacts` | 3 rounds at 2 players, of which at most one strikes twice; 2 records and 2 reports kept | what is said of a shot is true unless rounds were mixed up; a marker shows the round it is for; a shot is told once |
| `detach` | 2 listeners, 1 effect index, 2 types of weather | harm only from an overlap; resizes and setup agree; what is left after the hooks are removed; the effect is ours |
| `diag_log` | 3 threads, one of which unloads, 2 attempts, 4 lines | gaps in the file are accounted for; one thread uses it at a time; a write ends |

Why the bounds suffice: hooks interact only when they share a function or follow a thunk,
and three on one function plus a thunk exceed `FollowLimit = 3` the way nine would exceed
the code's 8; a caller meets at most two stacked detours. Chunks interact through their
bounds only, and five indices cover a short last chunk, an exact fit, one chunk and a
minimum above the total. Two pawns and two addresses make the two maps compete for an
address, so that a freed one returns under another entry. Two faulting threads make every
pair of handler steps interleave. Two selections let a texture of the first arrive after the
second was built. Three rounds with room for two records make a record be pushed out, two
rounds overlap in every way, and a third one meet what they left; the periods are the
smallest that differ (an impact is stale one step after it, a record expires after three).
Two listeners tell a list that is partly registered from one that is complete, and one
index is the worst case for reuse: whatever the host makes next has our number. Two
attempts at the lock tell a first failure from the last, and four lines are enough for the
two of `shutdown`, one of another thread and one of a handler. Caps in guards are
`MaxRevision`, `MaxRounds` and `MaxLines`; the other bounds are sets.

Deadlock is checked for the entity cache, the model preview, the impacts and the detach.
The other systems stop: an unloaded module, a call that has returned, a process that has
ended, a log with all its lines written.

### Fairness

- Hooking: none; its properties are safety.
- ThreadPool: weak fairness of the caller, and of the pool as a whole: it works off its
  queue. Aborting is never fair.
- SceneObjects: a thread that runs goes on; the exclusive lock is obtained if it is free
  again and again (strong fairness). With one worker it is; two overlapping workers that
  hold it in turn could starve the game thread, which `shared_mutex` does not exclude, so
  the run has one and claims no more.
- DiagLog: weak fairness of each thread's steps inside `write`; no thread has to begin a
  line, and being stopped is never fair. `WritesEnd` therefore also holds of a thread that
  finds the lock taken for ever.
- Impacts, Detach: none; their properties are safety.
- ModelPreview: weak fairness of the threads' next steps, the host's drawing to its panel
  included; strong fairness where building an item, running the script, reading the view or
  sizing a texture may fail, so that it does not fail for ever.

### What was found

`crash_filters_race` checks what the comment at `entry.cpp:188-190` says of the vectored
handler: "Re-arm it at first chance and preserve the displaced handler so the host still
receives the crash after us." After the host has replaced the filter and two threads crash
at once, the one between its swap (`entry.cpp:191`) and its store (`entry.cpp:195`) hides
the host's filter from the other, which finds ours in place, reads the older value and
ends the process without it. For a crash that no other fault overlaps the comment holds
(`LoneCrashReachesHost`).

What some properties exempt is behaviour of the code as it is: a patch that `disable` was
refused the right to take back stays while its trampoline is freed (`lost`);
`level_shutdown` is hooked and never reset (`UninstallRestores` speaks of the hooks in the
list, and the instance has one that is not); a snapshot or a survived fault uses up the only
crash report (`spent`); after a reset the same selection is not rendered again (`cleared`);
a reset can release the texture that is being drawn (`torn`), and a worker or the render
thread that was past its last test when the reset began publishes its texture after it
(`passing`, `promoting`); a filter the host sets between the two swaps of the detach is overwritten by the second
(`alone`); frames that come after the
detaching thread's cleanup can make objects nobody destroys (`late`); a fault in the engine
(`lost`) or a missing scene system (`forgotten`) leaves an object in the scene unrecorded;
between a level that ended without its callback and the next one the maps name objects that
are gone (`skipped`).

The shot tracker and the unloading add to that list:

- A command that does not fire (a dry one) while another round is told of can be reported
  a miss, and its neighbour nothing (`mixed`); of two bullets that strike in one frame
  either can be taken for the other, which leaves the count of each player right (`tied`).
  A marker may show another shot's impact, or the victim's position, when the render thread
  removed the record between the two sections of `on_player_hurt` (`polled`).
- A level change that removes the effect leaves its index in the handle, and the next frame
  may drive or destroy what the host has there by then (`carried`). A frame that runs into
  the release by the unloading thread, or comes after it, can leave an effect or touch
  another (`crossed`).
- A menu given up before the first frame was set up is set up by that frame, after it was
  taken down (`premature`). The view and the device of the context stay after a detach
  (`context::shutdown` is called only when setting up fails), so a later resize by the host
  finds our reference, no longer through our hook. A resize before the first frame was set
  up would make the view with a device that is null (`crashed`).
- A frame or an event in progress while its part is taken down may use what is gone
  (`met`, `touched`); the unloading takes no lock and waits for nobody. This is the build
  with diagnostics; the release build gives nothing back at all.
- The count of dropped lines that the log prints leaves out the lines of a handler inside
  `write` and those for which there was no file (`refused`, `unfiled`).

## 4. The proofs

Assumptions are the named ASSUMEs of the modules, which TLC evaluates on every run.

**HookingProofs** proves `TypeCorrect`, `PatchesAreOwned` (`PatchIntegrity`),
`TrampolinesAreAccounted`, `BatchesAreWhole` (`BatchesAreAtomic`) and `UninstallAlwaysRestores`
(`UninstallRestores`) for any functions, hooks, thunks, batches and shutdown order.
None is inductive. `IInv` adds three parts: `HookRecords` (a hook has both
a target and a trampoline or neither; a valid one displaced the location's own first
bytes, and no two valid ones patch the same location), `JumpsStayInGroup` (a jump never leaves the group of
its location, so that a lazy hook shares a location with no other) and `Dormant`/`Control`
(which hook is valid without being enabled and why, and what is known at each place of the
program counter).
Restoring is safe because a hook can only be created behind the jumps of the earlier ones:
the location it patches has its own prologue (`CreateCommits`), so the bytes it saves are
never another hook's jump. `NextPreserves` has one lemma per action.
`BInv` goes on from there: which thread can be at work (`Turns`), that the batches before the
current one are whole and those after it untouched, while of the current one all hooks up to the
cursor are enabled or all that exist are still to be reset (`Batches`), and that a shutdown
passes every hook of its list (`Shutdown`). It needs `BatchAssumption`: no hook is in two
batches, as `cheat::initialize` names each once.

`HooksAreReached` (`EnabledIsReached`) needs to know where jumps lead without following them.
`Reaches(x, y, X)` says that y lies in every set of locations that holds x and that no jump
leaves, those to the hooks in X set aside. `RInv` has five parts. `NothingAhead`: a hook
whose turn in the script has not come is neither the target of a jump nor of a hook.
`NoCircle` and `NoTower`: every set of locations has one whose jump leaves it, and every set
of hooks one that is invalid or targets outside of it; enabling keeps the first because the
detour of the hook being enabled is itself not patched (`CurrentIsBare`), by its turn if it
belongs to a batch and by its group if it is lazy. `Placed`: a hook is enabled where nothing
jumps yet. `Reached`: the function of a valid hook leads to the location it patches, and does
so without the batch in progress for the hooks of other batches, which is why a rollback cuts
off nobody: it takes back only jumps the others do not need. The path itself is
recursive; `PathReaches` shows by induction on its length that it ends, by the pigeonhole
principle, and passes exactly what `Reaches` says. `ThunkAssumption` is used here only: the
host's own jumps are finitely many and lead to a body.

The second half of the module is about callers (`HookedCalls`). Threads calling through the
hooks change nothing of them (`CallsKeepHooks`: `CallSpec => Spec`), so all of the above
holds while they call. `HarmIsFromTeardown` (`HarmOnlyFromTeardown`): whoever loses the original
function or faults ran a detour whose hook was reset since the call began, left in the code by
a refused restore, or, once the module is gone, missing from the shutdown list; a reset of any
other hook, such as a rollback of one that was never enabled, harms nobody. For a call that
no reset overlaps, the hooks it came through and those it may come to on its way back are valid;
`Guarded` states that with a set closed under the hooks' targets (`Way`), and says that the
trampoline a caller has read is that of the detour it is in. `GInv` says it of every
call, whatever was reset meanwhile: as long as none of the detours it has run belongs to such a
hook (`Spared`), their hooks are valid, and all that may come on its way back has been undone
or is valid (`WayUnlessUndone`). `CallsRunExactly` (`CallsAreExact`): `Exact` says of such a
call that each detour it owes was run, or lies on the way back, or is still reached by the jumps
it is following, and that some way back avoids the detours it has run. A jump turns the third
case into the second because a patch leads to the hook that targets its location; a
trampoline leaves its hook behind for good because the targets have no circle (`WayOn`).

**EntityCacheProofs** proves all three properties of the run `entity_cache` for any list,
entities and limits: `IndicesAreCachedOnce`, `StaleIsFromUnseenRemoval` and `SyncedMirrorsList`.
`IInv` says that an index is cached once, that an entry agrees with the list or its removal
went unseen, and that a synced cache holds of the visited indices what the list does. The
removal puts the last entry in the removed one's place; `OnRemoveKeeps` shows that as a
set the entries lose that one only, because the index was there once. What a refill
computes is `FilledIsTheList`, by induction on the index.

**ThreadPoolProofs** proves for any call that the cuts cover the range without overlap
(`RangeIsCut`), `TypeCorrect`, `JobsSafe` and `Refinement` (`Spec => ImplementsParallelFor`,
its safety part being all of it). `IInv` counts references by owner (`RefsCounted`), ties the
caller's position to the jobs' (`Progress`), and says how often the body ran on each index by
the job or the caller the index belongs to (`RanByJobs`, `RanByCaller`); the last two need
the arithmetic of the cut (`CeilDivBounds`, `ChunkBounds`, `ChunkOfIndex`), the only place
where multiplication occurs.

**SceneObjectsProofs** proves all five properties of the run `scene_objects` for any pawns,
addresses and workers. `SInv` holds the argument in six parts. `Typed` lists what a callback
can still have to do; `Ordered` says a section is the head of its thread's list, marked when it
makes or destroys objects, and alone in its map; `Locked` that a worker's locks keep the sections
out, so that while one draws nothing it names can go. `Accounted` is `ObjectsAccounted` and
what a level that nobody announced to have ended has taken along; what destroying and making
do to the scene, with a scene system or without, is in three lemmas (`DestroyedTo`,
`CreatedTo`, `NothingCreated`) the sections share. `Emptied` says that what a
shutdown has passed is empty and stays so until a level is up: the reason why a level starts
clean, although only its own cleanup can be counted on. `Late` bounds what can be found
in a map behind the detaching thread. It needs `SceneAssumption` (`None` is no address).

**DiagnosticsProofs** proves the four properties of the run `crash_filters` for any threads and
host filters. `OneCrashIsReported` needs only the claim on the request (`Claims`). The others
speak of crashes that overlap nothing, and `IInv` says what is then true:
at most one thread does anything but run (`Single`); the filter in place is the host's, or ours with the
host's remembered (`Placed`); a crash under way has reached the host's filter, or it is next, or
ours will pass it on (`Owes`); the report is that of the crash under way (`Kept`).
Of the log (run `diag_log`) it proves `FileIsAlwaysSafe` (`FileIsSafe`) and `LinesAreAccounted`
(`LinesAccounted`) for any threads, attempts and lines, with the invariants `FInv` and `LInv`.
For the file: whoever uses it is the owner of the lock word, which a thread stopped inside keeps
for ever, and once the file is closed under the name a writer has met the close. For the lines: each is numbered once and then
written, dropped, refused or left unfiled, and four lemmas follow the cardinality of the
missing ones through those steps.

**ModelPreviewProofs** proves `ReferencesAlwaysBalance`, `DrawnViewAlwaysLives` and
`ResetAlwaysLeavesOnlyPassing` (`ResetLeavesOnlyPassing`) for any workers and revisions. `IInv` counts the references of a texture
slot by slot (`Balance`; `SlotsCounted` relates the sum to the cardinalities of the property),
says what the render thread holds at each of its places (`Renders`), and that from the
beginning of a reset until a panel is opened there is none, all that the threads hold is passing
it, and so is what the slots contain as far as the reset has emptied them (`Emptied`).

**DetachProofs** proves all four properties of the run `detach` for any listeners, indices
and types. There is one invariant for each part, preserved by every step of the
composition because the others leave its variables alone. `RInv` says what is set up at each place of the
render thread, and that the menu's flag implies the library unless the unloading thread is
between the two, which a frame in progress then has met. `EInv` says the list is a prefix
of the listeners, the host knows none outside it but the one being registered, and none
the unloading thread has passed; that is why finding no next listener means none is known.
`WInv` holds until a frame crosses the unloading: every effect of ours is named by the
handle or by the frame about to store it, and by neither while the handle is forgotten.

**ImpactsProofs** proves all three properties of the run `impacts` for any players, rounds,
patterns of the host, capacity and periods: `VerdictsAlwaysTrue` (`VerdictsAreTrue`),
`MarkersAlwaysShowTheirRound` (`MarkersShowTheirRound`) and `ShotIsToldOnce` (`OneVerdict`).
`IInv` has three layers. `World` is what the host's order gives: rounds fire in the order of
their commands, the wire tells of them in that order, and whatever was told (`Before`) is of a
round not after those of which more is to come. `Loose` holds in every session: records are in
the order of their rounds, of an unresolved one nothing was said and of a resolved one "hit"
(`Unsaid`, from which `OneVerdict` follows), a report of a regular round came alone, and unless
`mixed` is set an irregular round is the only one alive (`Alone`). `Strict` holds while neither
`mixed` nor `orphan` is set and is the argument proper: an impact has found its own record and
records were struck in their order (`OwnImpacts`); what is awaited finds its record
(`Expected`); a hit that was told has resolved its record (`HitsResolve`); a marker finds
the report or the impact of its own round (`Marks`).
Two bullets that strike in one frame break the last but one: the hurt then resolves the older of the
two records, so that a hit and a miss change places. `HitsResolve` and `SaidTruly` except regular
rounds once that happened, and `Balanced` keeps what is left: of each player as many hits were
said as told. `CountsAreTrue` makes of it, when all was told, that the hits and the misses
are as many as there were. Where the verdicts themselves are true although a tie occurred, for
irregular rounds, `SaidTruly` says so. There are two lemmas for most actions: what the operation does to the
sequences (`...Does`, over `OnlyThins`, `RemoveAtThins`, `Edited` and their like), and that it
keeps `IInv` (`...Keeps`). It needs that `None` is no player: a pawn that is null is
no target, and `parse_event` returns early for one.

Induction: a recursive function (`Path`, `Filled`, `Only`) is unfolded by its definition, and an
induction on its argument is stated for a set of numbers (`Induct`: a set with 0 and the
successors of its members has every number), which follows from the well-foundedness of the
natural numbers (`Least`); no induction theorem with an operator parameter is needed.

Only model-checked: everything about liveness (`CallReturns`, `CallbacksReturn`,
`LastSelectionIsShown`, `WritesEnd`), since the prover handles neither fairness nor
ENABLED. Every other property of a passing run is a theorem.

## 5. Plan

In order:

1. `EconImages`: the states of an item's image between the render thread and the decode
   jobs of `ThreadPool`, with the job that is never started (`econ_item_system.cpp:579`).
   `Injector`: two processes and a wait with a limit (`injector/main.cpp:294`).
   `OverlayMaterials`: the array of atomics at its limit.
2. Compositions: a detach inside the creation of a lazy hook; pawns whose address is
   reused, for `SceneObjects` together with the entity list; `Detach` with the scene objects
   and the preview.
3. Pure algorithms: relocation of prologues (`jmp.cpp:40-190`) and the search of the
   allocator, against the definition "the moved instruction refers to the same address".
4. Abstract specifications: a cache that mirrors a list (`EntityCache` implements it once
   synced), and one-writer-wins for the crash report.
5. Proofs: the refinements of 4, and the safety part of what the liveness properties rest on
   (that a step which is awaited cannot be taken back).

### Not modelled

Most of the lines of the repository are data (fonts, logos, particle scripts), drawing,
third-party code, or arithmetic in floating point on the host's structures, where there is
little control for a model to follow. The parts and the reason for each are the
`not_modelled` components of `PROJECT.json`.

## 6. Running

    tlc -workers 2 -config Hooking.cfg MCHooking
    tlapm HookingProofs.tla

Each `.cfg` names its run; its module is the `MC` module of the same component
(`SceneObjectsLive.cfg` and `CrashFiltersRace.cfg` use `MCSceneObjects` and
`MCCrashFilters`).
