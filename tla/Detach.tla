------------------------------- MODULE Detach -------------------------------
(***************************************************************************)
(* Unloading of the module (entry, DLL_PROCESS_DETACH, in the build that   *)
(* has diagnostics; the release build gives nothing back) against what the *)
(* other threads do meanwhile: the render thread with the menu, the game   *)
(* thread with the weather and the event listeners.  The parts are given   *)
(* back one after another, and the hooks through which the host's threads  *)
(* reach them are removed last.                                            *)
(*                                                                         *)
(* The crash capture, the chams and the model preview are given back in    *)
(* between; CrashFilters, SceneObjects and ModelPreview are about them.    *)
(***************************************************************************)
EXTENDS RenderFrame, EventListeners, Weather

VARIABLES
  hooked,     \* the host's threads come through the hooks
  unload,     \* the unloading thread: what it does, and with which listener
  premature   \* history: the menu was given up before a frame had set everything up

vars == <<renderVars, eventVars, weatherVars, hooked, unload, premature>>

Init ==
  /\ RenderInit /\ EventsInit /\ WeatherInit
  /\ hooked = FALSE /\ unload = [pc |-> "loaded", next |-> 1] /\ premature = FALSE

Unloads(from, to) == unload.pc = from /\ unload' = [unload EXCEPT !.pc = to]
Released == unload.pc \notin {"loaded", "weather"}
InMenu == unload.pc \in {"backends", "context", "flag"}

----------------------------------------------------------------------------
(* Initialisation                                                            *)

InitializeEvents ==
  /\ Register \/ Push \/ InitializationFails
  /\ UNCHANGED <<renderVars, weatherVars, hooked, unload, premature>>

\* cheat::initialize: from now on frames reach the weather, ready or not.
InstallHooks ==
  /\ Initializes("registered", "hooked") /\ hooked' = TRUE
  /\ UNCHANGED <<renderVars, weatherVars, unload, premature>>

ReleaseHooks ==
  /\ Initializes("hooked", "ready") /\ SetReady
  /\ UNCHANGED <<weatherVars, hooked, unload, premature>>

EndLoading ==
  /\ Initializes("ready", "done") /\ LoadingComplete
  /\ UNCHANGED <<weatherVars, hooked, unload, premature>>

----------------------------------------------------------------------------
(* The host's threads                                                        *)

\* A present or a resize begins in a hook.
RenderStep ==
  /\ RenderThread(InMenu) /\ (render = Between => hooked)
  /\ UNCHANGED <<eventVars, weatherVars, hooked, unload, premature>>

\* The game thread is in one event or in one frame at a time.
HostFiresEvent ==
  /\ \/ frame = Idle /\ \E l \in Listeners : FireEvent(l)
     \/ EndWalk
  /\ UNCHANGED <<renderVars, weatherVars, hooked, unload, premature>>

GameStep ==
  /\ walk = 0
  /\ \/ hooked /\ Frame(Released)
     \/ WeatherFrame
     \/ LevelChange
  /\ UNCHANGED <<renderVars, eventVars, hooked, unload, premature>>

Outside ==
  /\ \/ menu /\ Edit
     \/ \E i \in Indices : HostEffect(i)
  /\ UNCHANGED <<renderVars, eventVars, hooked, unload, premature>>

----------------------------------------------------------------------------
(* Unloading                                                                 *)

\* The loader is told to free the module, or the thread that failed to initialise it does.
BeginUnload ==
  /\ registrar.pc \in {"done", "failed"} /\ Unloads("loaded", "weather")
  /\ UNCHANGED <<renderVars, eventVars, weatherVars, hooked, premature>>

ReleaseWeather ==
  /\ \/ Unloads("weather", "forget") /\ UnloadDestroys
     \/ Unloads("weather", "menu") /\ UnloadFindsNone
     \/ Unloads("forget", "menu") /\ UnloadForgets
  /\ UNCHANGED <<renderVars, eventVars, hooked, premature>>

\* imgui_menu::shutdown does nothing if the menu is not there.
ShutdownMenu ==
  /\ \/ Unloads("menu", IF menu THEN "backends" ELSE "events") /\ premature' = ~setup
        /\ UNCHANGED renderVars
     \/ Unloads("backends", "context") /\ StopBackends /\ UNCHANGED premature
     \/ Unloads("context", "flag") /\ DestroyContext /\ UNCHANGED premature
     \/ Unloads("flag", "events") /\ ClearFlag /\ UNCHANGED premature
  /\ UNCHANGED <<eventVars, weatherVars, hooked>>

ShutdownEvents ==
  /\ \/ /\ unload.pc = "events" /\ RemoveListener(unload.next)
        /\ unload' = [unload EXCEPT !.next = unload.next + 1]
     \/ unload.next \notin list /\ Unloads("events", "hooks") /\ ClearListeners
  /\ UNCHANGED <<renderVars, weatherVars, hooked, premature>>

\* cheat::shutdown: first the flag, then the hooks.
ShutdownHooks ==
  /\ \/ Unloads("hooks", "unhook") /\ Unready /\ UNCHANGED hooked
     \/ Unloads("unhook", "done") /\ hooked' = FALSE /\ UNCHANGED renderVars
  /\ UNCHANGED <<eventVars, weatherVars, premature>>

Next ==
  \/ InitializeEvents \/ InstallHooks \/ ReleaseHooks \/ EndLoading
  \/ RenderStep \/ HostFiresEvent \/ GameStep \/ Outside
  \/ BeginUnload \/ ReleaseWeather \/ ShutdownMenu \/ ShutdownEvents \/ ShutdownHooks

Spec == Init /\ [][Next]_vars

----------------------------------------------------------------------------
(* Properties                                                                *)

\* The menu is used while it is not up, and a handler is not found, only when a frame or
\* an event is in progress while the menu or the list is taken down: what begins before
\* or after finds the flag, or is not called any more.
HarmOnlyFromOverlap == ~harmed /\ ~astray

\* Once the hooks are removed the host has no listener of ours, and no effect unless a
\* frame ran into the release or after it. The menu is down unless it was given up before
\* the first frame had set it up, in which case that frame, or a later one, does so.
DetachLeavesNothing ==
  unload.pc = "done" =>
    /\ known = {}
    /\ Ours # {} => crossed
    /\ menu => premature
============================================================================
