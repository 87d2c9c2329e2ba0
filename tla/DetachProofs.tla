---------------------------- MODULE DetachProofs ----------------------------
(***************************************************************************)
(* The four properties of the unloading, for any number of listeners, any  *)
(* indices and any types of weather.  Each part has an invariant of its    *)
(* own; a step of another part leaves it alone.                            *)
(***************************************************************************)
EXTENDS Detach, TLAPS

----------------------------------------------------------------------------
(* The render thread and the menu                                            *)

Places == {"idle", "device", "view", "menu", "flag", "set", "undo", "gate", "resize",
           "resized", "crashed"} \cup Stages

\* What is set up at each place of the render thread.
SetUpAt(s) ==
  /\ s = "idle" /\ setup => device /\ (view \/ lost)
  /\ s = "idle" /\ ~setup => ~device /\ ~view
  /\ s = "device" => ~setup /\ ~device /\ ~view
  /\ s = "view" => ~setup /\ device /\ ~view
  /\ s \in {"menu", "flag", "set"} => ~setup /\ device /\ view
  /\ s \in {"undo", "crashed"} => ~setup
  /\ s \in {"gate"} \cup Stages => setup /\ device /\ (view \/ lost)
  /\ s \in {"resize", "resized"} => ~view /\ (setup <=> device)

\* The menu is flagged once, at the end of setting up, and in a frame that tests the flag
\* the library is up, or the frame is known to meet its end.
MenuAt(s) ==
  /\ menu => setup \/ s = "set"
  /\ s = "flag" => imgui = "up"
  /\ menu => imgui = "up" \/ unload.pc \in {"context", "flag"}
  /\ unload.pc \in {"context", "flag"} /\ s \in {"set", "gate"} \cup Stages => met
  /\ render.in /\ ~met => imgui = "up"
  /\ InMenu => menu

UnloadPlaces == {"loaded", "weather", "forget", "menu", "backends", "context", "flag",
                 "events", "hooks", "unhook", "done"}

RInv ==
  /\ render \in [at : Places, in : BOOLEAN] /\ (render.in => render.at \in Stages)
  /\ unload = [pc |-> unload.pc, next |-> unload.next] /\ unload.pc \in UnloadPlaces
  /\ setup \in BOOLEAN /\ device \in BOOLEAN /\ view \in BOOLEAN /\ menu \in BOOLEAN
  /\ lost \in BOOLEAN /\ crashed \in BOOLEAN /\ met \in BOOLEAN /\ harmed = FALSE /\ blocked = FALSE
  /\ premature \in BOOLEAN
  /\ viewRefs = IF view THEN 1 ELSE 0
  /\ crashed => render.at = "crashed"
  /\ SetUpAt(render.at)
  /\ MenuAt(render.at)
  /\ InMenu /\ ~premature => setup
  /\ unload.pc \in {"events", "hooks", "unhook", "done"} /\ ~premature => setup /\ ~menu

LEMMA InitRInv == Init => RInv
<1> SUFFICES ASSUME Init PROVE RInv
  OBVIOUS
<1>1. render = [at |-> "idle", in |-> FALSE] /\ unload = [pc |-> "loaded", next |-> 1]
  BY DEF Init, RenderInit, Between, At
<1>2. /\ ~setup /\ ~device /\ ~view /\ viewRefs = 0 /\ menu = FALSE /\ imgui = "absent"
      /\ setup = FALSE /\ device = FALSE /\ view = FALSE /\ premature = FALSE
      /\ lost = FALSE /\ crashed = FALSE /\ met = FALSE /\ harmed = FALSE /\ blocked = FALSE
  BY DEF Init, RenderInit
<1> QED
  BY <1>1, <1>2 DEF RInv, Places, UnloadPlaces, SetUpAt, MenuAt, InMenu, Stages

\* Steps of the render thread.
LEMMA RenderRInv == RInv /\ RenderStep => RInv'
<1> SUFFICES ASSUME RInv, RenderThread(InMenu), UNCHANGED <<unload, premature>> PROVE RInv'
  BY DEF RenderStep
<1> USE DEF RInv, Places, UnloadPlaces, SetUpAt, MenuAt, InMenu, Stages, At, Step, Between
<1>1. CASE Present(InMenu)
  BY <1>1 DEF Present
<1>2. CASE AcquireDevice
  <2>1. CASE Step("device", "view") /\ device' = TRUE
    BY <1>2, <2>1 DEF AcquireDevice, Unharmed
  <2>2. CASE Step("device", "idle") /\ UNCHANGED device
    BY <1>2, <2>2 DEF AcquireDevice, Unharmed
  <2> QED BY <1>2, <2>1, <2>2 DEF AcquireDevice
<1>3. CASE MakeView
  <2>1. CASE Step("view", "menu") /\ CreateRtv
    BY <1>3, <2>1 DEF MakeView, Unharmed, CreateRtv
  <2>2. CASE Step("view", "undo") /\ UNCHANGED <<view, viewRefs>>
    BY <1>3, <2>2 DEF MakeView, Unharmed
  <2> QED BY <1>3, <2>1, <2>2 DEF MakeView
<1>4. CASE InitializeMenu
  <2>1. CASE Step("menu", "flag") /\ imgui' = "up"
    BY <1>4, <2>1 DEF InitializeMenu, Unharmed
  <2>2. CASE Step("menu", "undo") /\ imgui' = "absent"
    BY <1>4, <2>2 DEF InitializeMenu, Unharmed
  <2> QED BY <1>4, <2>1, <2>2 DEF InitializeMenu
<1>5. CASE FlagMenu
  BY <1>5 DEF FlagMenu, Unharmed
<1>6. CASE SetUp
  <2>1. /\ render = [at |-> "set", in |-> FALSE] /\ render' = [at |-> "gate", in |-> FALSE]
        /\ setup' = TRUE /\ ~setup /\ device /\ view
        /\ UNCHANGED <<device, view, viewRefs, menu, imgui, met, harmed, blocked, crashed, lost>>
    BY <1>6 DEF SetUp, Unharmed
  <2> QED BY <2>1
<1>7. CASE ReleaseAll
  <2>1. CASE view
    <3>1. view = TRUE /\ viewRefs = 1 /\ viewRefs' = viewRefs - 1
      BY <1>7, <2>1 DEF ReleaseAll
    <3>2. viewRefs' = 0
      BY <3>1
    <3> QED BY <1>7, <3>2 DEF ReleaseAll, Unharmed
  <2>2. CASE ~view
    BY <1>7, <2>2 DEF ReleaseAll, Unharmed
  <2> QED BY <2>1, <2>2
<1>8. CASE Gate
  BY <1>8 DEF Gate, Unharmed
<1>9. ASSUME NEW s \in Stages, Test(s) PROVE RInv'
  <2>1. After[s] \in (Stages \ {"begin"}) \cup {"idle"}
    BY DEF After
  <2> QED BY <1>9, <2>1 DEF Test, Unharmed, Passes
<1>10. ASSUME NEW s \in Stages, Use(s) PROVE RInv'
  <2>1. After[s] \in (Stages \ {"begin"}) \cup {"idle"}
    BY DEF After
  <2> QED BY <1>10, <2>1 DEF Use
<1>11. CASE OnResizeBuffers
  <2>1. CASE view
    <3>1. view = TRUE /\ viewRefs = 1 /\ viewRefs' = viewRefs - 1
      BY <1>11, <2>1 DEF OnResizeBuffers
    <3>2. viewRefs' = 0
      BY <3>1
    <3> QED BY <1>11, <3>2 DEF OnResizeBuffers, Unharmed
  <2>2. CASE ~view
    BY <1>11, <2>2 DEF OnResizeBuffers, Unharmed
  <2> QED BY <2>1, <2>2
<1>12. CASE Resize
  <2>1. CASE viewRefs = 0 /\ Step("resize", "resized") /\ UNCHANGED lost
    BY <1>12, <2>1 DEF Resize
  <2>2. CASE Step("resize", "idle") /\ lost' = TRUE
    BY <1>12, <2>2 DEF Resize
  <2> QED BY <1>12, <2>1, <2>2 DEF Resize
<1>13. CASE OnResizeBuffersPost
  <2>1. CASE device /\ Step("resized", "idle") /\ CreateRtv /\ UNCHANGED <<lost, crashed>>
    BY <1>13, <2>1 DEF OnResizeBuffersPost, CreateRtv
  <2>2. CASE Step("resized", "idle") /\ lost' = TRUE /\ UNCHANGED <<view, viewRefs, crashed>>
    BY <1>13, <2>2 DEF OnResizeBuffersPost
  <2>3. CASE ~device /\ Step("resized", "crashed") /\ crashed' = TRUE /\ UNCHANGED <<view, viewRefs, lost>>
    BY <1>13, <2>3 DEF OnResizeBuffersPost
  <2> QED BY <1>13, <2>1, <2>2, <2>3 DEF OnResizeBuffersPost
<1> QED
  BY <1>1, <1>2, <1>3, <1>4, <1>5, <1>6, <1>7, <1>8, <1>9, <1>10, <1>11, <1>12, <1>13
     DEF RenderThread

\* Steps of the other threads.
LEMMA OtherRInv == RInv /\ [Next]_vars => RInv'
<1> SUFFICES ASSUME RInv, [Next]_vars PROVE RInv'
  OBVIOUS
<1>1. CASE RenderStep
  BY <1>1, RenderRInv
<1> USE DEF RInv, Places, UnloadPlaces, SetUpAt, MenuAt, InMenu, Stages
<1>2. CASE UNCHANGED <<renderVars, unload, premature>>
  BY <1>2 DEF renderVars
<1>3. CASE ReleaseHooks
  BY <1>3 DEF ReleaseHooks, SetReady
<1>4. CASE EndLoading
  BY <1>4 DEF EndLoading, LoadingComplete
<1>5. CASE BeginUnload
  BY <1>5 DEF BeginUnload, Unloads, renderVars
<1>6. CASE ReleaseWeather
  BY <1>6 DEF ReleaseWeather, Unloads, renderVars
<1>7. CASE ShutdownMenu
  <2> USE DEF Unloads, renderVars, Met, Between, At
  <2>1. CASE /\ Unloads("menu", IF menu THEN "backends" ELSE "events")
             /\ premature' = ~setup /\ UNCHANGED renderVars
    <3>1. CASE menu
      BY <1>7, <2>1, <3>1 DEF ShutdownMenu
    <3>2. CASE ~menu
      BY <1>7, <2>1, <3>2 DEF ShutdownMenu
    <3> QED BY <3>1, <3>2
  <2>2. CASE Unloads("backends", "context") /\ StopBackends /\ UNCHANGED premature
    BY <1>7, <2>2 DEF ShutdownMenu, StopBackends
  <2>3. CASE Unloads("context", "flag") /\ DestroyContext /\ UNCHANGED premature
    BY <1>7, <2>3 DEF ShutdownMenu, DestroyContext
  <2>4. CASE Unloads("flag", "events") /\ ClearFlag /\ UNCHANGED premature
    BY <1>7, <2>4 DEF ShutdownMenu, ClearFlag
  <2> QED BY <1>7, <2>1, <2>2, <2>3, <2>4 DEF ShutdownMenu
<1>8. CASE ShutdownEvents
  BY <1>8 DEF ShutdownEvents, Unloads, renderVars
<1>9. CASE ShutdownHooks
  BY <1>9 DEF ShutdownHooks, Unloads, renderVars, Unready
<1> QED
  BY <1>1, <1>2, <1>3, <1>4, <1>5, <1>6, <1>7, <1>8, <1>9
     DEF Next, InitializeEvents, InstallHooks, HostFiresEvent, GameStep, Outside, vars

\* The invariant of the render thread and of the teardown of the menu.
THEOREM SetUpIsKept == Spec => []RInv
<1> QED BY InitRInv, OtherRInv, PTL DEF Spec

\* (ResizesAndSetupAgree) A buffer is never resized while it is referred to, and setting up
\* is complete or undone between frames.
THEOREM SetupAlwaysAgrees == Spec => []ResizesAndSetupAgree
<1>1. RInv => ResizesAndSetupAgree
  BY DEF RInv, ResizesAndSetupAgree, SetUpAt, Between, At
<1> QED BY SetUpIsKept, <1>1, PTL

----------------------------------------------------------------------------
(* The listeners                                                             *)

RegistrarPlaces == {"register", "push", "registered", "hooked", "ready", "done", "failed"}

\* The listeners are listed in order, the host knows none that is not listed but the one
\* that is being registered, and none that was removed.
EInv ==
  /\ registrar \in [pc : RegistrarPlaces, next : Listeners]
  /\ unload = [pc |-> unload.pc, next |-> unload.next] /\ unload.next \in Nat \ {0}
  /\ list \subseteq Listeners /\ known \subseteq Listeners /\ astray = FALSE
  /\ \A l \in list : 1..l \subseteq list
  /\ registrar.pc \in {"register", "push"} => list = 1..(registrar.next - 1)
  /\ \A l \in known : /\ l \in list \/ (registrar.pc = "push" /\ l = registrar.next)
                      /\ l >= unload.next
  /\ unload.pc # "loaded" => registrar.pc \in {"done", "failed"}
  /\ unload.pc \notin {"events", "hooks", "unhook", "done"} => unload.next = 1
  /\ unload.pc \in {"hooks", "unhook", "done"} => known = {}
  /\ walk # 0 /\ ~touched => walk \in list

LEMMA InitEInv == Init => EInv
  BY ListenersAssumption DEF Init, EventsInit, EInv, RegistrarPlaces, Listeners

LEMMA NextEInv == EInv /\ [Next]_vars => EInv'
<1> SUFFICES ASSUME EInv, [Next]_vars PROVE EInv'
  OBVIOUS
<1> USE ListenersAssumption DEF EInv, RegistrarPlaces, Listeners
<1>1. CASE UNCHANGED <<eventVars, unload>>
  BY <1>1 DEF eventVars
<1>2. CASE InitializeEvents
  <2>1. CASE Register
    BY <1>2, <2>1 DEF InitializeEvents, Register
  <2>2. CASE Push
    <3>1. list' = 1..registrar.next
      BY <2>2 DEF Push
    <3>2. CASE registrar.next = MaxListener
      BY <1>2, <2>2, <3>1, <3>2 DEF InitializeEvents, Push
    <3>3. CASE registrar.next # MaxListener
      BY <1>2, <2>2, <3>1, <3>3 DEF InitializeEvents, Push
    <3> QED BY <3>2, <3>3
  <2>3. CASE InitializationFails
    BY <1>2, <2>3 DEF InitializeEvents, InitializationFails
  <2> QED BY <1>2, <2>1, <2>2, <2>3 DEF InitializeEvents
<1>3. CASE InstallHooks \/ ReleaseHooks \/ EndLoading
  BY <1>3 DEF InstallHooks, ReleaseHooks, EndLoading, Initializes
<1>4. CASE HostFiresEvent
  BY <1>4 DEF HostFiresEvent, FireEvent, EndWalk
<1>5. CASE BeginUnload
  BY <1>5 DEF BeginUnload, Unloads, eventVars
<1>6. CASE ReleaseWeather
  BY <1>6 DEF ReleaseWeather, Unloads, eventVars
<1>7. CASE ShutdownMenu
  <2>1. CASE menu
    BY <1>7, <2>1 DEF ShutdownMenu, Unloads, eventVars
  <2>2. CASE ~menu
    BY <1>7, <2>2 DEF ShutdownMenu, Unloads, eventVars
  <2> QED BY <2>1, <2>2
<1>8. CASE ShutdownEvents
  <2>1. CASE /\ unload.pc = "events" /\ RemoveListener(unload.next)
             /\ unload' = [unload EXCEPT !.next = unload.next + 1]
    BY <2>1 DEF RemoveListener
  <2>2. CASE unload.next \notin list /\ Unloads("events", "hooks") /\ ClearListeners
    <3>1. known = {}
      BY <2>2 DEF Unloads
    <3> QED BY <2>2, <3>1 DEF Unloads, ClearListeners
  <2> QED BY <1>8, <2>1, <2>2 DEF ShutdownEvents
<1>9. CASE ShutdownHooks
  BY <1>9 DEF ShutdownHooks, Unloads, eventVars
<1> QED
  BY <1>1, <1>2, <1>3, <1>4, <1>5, <1>6, <1>7, <1>8, <1>9
     DEF Next, RenderStep, GameStep, Outside, vars

\* The host has no listener that the list does not have, once it is registered, and none
\* after they were removed.
THEOREM ListenersAreListed == Spec => []EInv
<1> QED BY InitEInv, NextEInv, PTL DEF Spec

\* (HarmOnlyFromOverlap) A frame or an event that did not meet the teardown is never harmed
\* by it.
THEOREM HarmAlwaysFromOverlap == Spec => []HarmOnlyFromOverlap
<1>1. RInv /\ EInv => HarmOnlyFromOverlap
  BY DEF RInv, EInv, HarmOnlyFromOverlap
<1> QED BY SetUpIsKept, ListenersAreListed, <1>1, PTL

----------------------------------------------------------------------------
(* The weather                                                               *)

FramePlaces == {"idle", "release", "forget", "off", "update", "ensure", "store", "drive"}

WType ==
  /\ effects \in [Indices -> Types \cup {"host", None}]
  /\ frame \in [at : FramePlaces, then : {"idle", "off", "update", "ensure"},
                made : Indices \cup {None}]
  /\ handle \in Indices \cup {None} /\ drawn \in Types \cup {None} /\ type \in Types
  /\ manager \in BOOLEAN /\ carried \in BOOLEAN /\ edited \in BOOLEAN
  /\ crossed \in BOOLEAN /\ foreign \in BOOLEAN
  /\ unload = [pc |-> unload.pc, next |-> unload.next]

\* An effect between its making and the storing of its index.
Stored(s) ==
  s.at = "store" => /\ s.made \in Indices /\ handle = None
                    /\ effects[s.made] \in Types
                    /\ effects[s.made] = type \/ edited

\* The handle names an effect of ours, or is about to be forgotten.
Named(s, pc) ==
  handle # None /\ ~carried /\ s.at # "forget" /\ pc # "forget" => effects[handle] \in Types

\* Every effect of ours is named.
Accounted(i, s, pc) ==
  effects[i] \in Types =>
    /\ i = handle \/ (s.at = "store" /\ i = s.made)
    /\ manager /\ s.at # "forget" /\ pc # "forget"
    /\ i = handle /\ ~carried => effects[i] = drawn \/ edited

\* Where the unloading thread is, and the frame is not.
Apart(s, pc) ==
  /\ pc = "forget" => s = Idle
  /\ s.at = "off" => handle = None
  /\ pc \notin {"loaded", "weather", "forget"} => s = Idle /\ handle = None

Clean ==
  /\ Stored(frame) /\ Named(frame, unload.pc) /\ Apart(frame, unload.pc) /\ ~foreign
  /\ \A i \in Indices : Accounted(i, frame, unload.pc)

WInv == WType /\ (~crossed => Clean)

LEMMA InitWInv == Init => WInv
<1> SUFFICES ASSUME Init PROVE WInv
  OBVIOUS
<1>1. /\ frame = Idle /\ unload = [pc |-> "loaded", next |-> 1] /\ handle = None
      /\ effects = [i \in Indices |-> None] /\ foreign = FALSE
  BY DEF Init, WeatherInit
<1>2. WType
  <2>1. effects \in [Indices -> Types \cup {"host", None}]
    BY <1>1
  <2>2. frame \in [at : FramePlaces, then : {"idle", "off", "update", "ensure"},
                  made : Indices \cup {None}]
    BY <1>1 DEF Idle, FramePlaces
  <2> QED BY <1>1, <2>1, <2>2 DEF Init, WeatherInit, WType
<1>3. Clean
  BY <1>1, WeatherAssumption DEF Clean, Stored, Named, Accounted, Apart, Idle
<1> QED BY <1>2, <1>3 DEF WInv

\* What a step of the game thread may change, in the kinds that it has.
LEMMA FrameType == WType /\ (WeatherFrame \/ LevelChange \/ Frame(Released)) /\ UNCHANGED unload => WType'
<1> SUFFICES ASSUME WType, WeatherFrame \/ LevelChange \/ Frame(Released), UNCHANGED unload
             PROVE WType'
  OBVIOUS
<1> USE DEF WType, FramePlaces, Idle, GoTo, ReleaseThen, Settings, Host
<1>1. CASE BeginRelease
  <2>1. frame' \in [at : FramePlaces, then : {"idle", "off", "update", "ensure"},
                    made : Indices \cup {None}]
    BY <1>1 DEF BeginRelease
  <2>2. effects' \in [Indices -> Types \cup {"host", None}]
    BY <1>1 DEF BeginRelease, DestroyEffect
  <2>3. foreign' \in BOOLEAN
    BY <1>1 DEF BeginRelease, Foreign
  <2> QED BY <1>1, <2>1, <2>2, <2>3 DEF BeginRelease
<1>2. CASE EndRelease
  BY <1>2 DEF EndRelease, ForgetEffect
<1>3. CASE Off
  BY <1>3 DEF Off
<1>4. CASE Leave
  BY <1>4 DEF Leave
<1>5. CASE Update
  BY <1>5 DEF Update
<1>6. CASE CreateParticle
  <2>1. CASE frame' = Idle /\ UNCHANGED <<effects, edited>>
    BY <1>6, <2>1 DEF CreateParticle
  <2>2. ASSUME NEW i \in Indices, effects' = [effects EXCEPT ![i] = type], edited' = FALSE,
               frame' = [at |-> "store", then |-> "idle", made |-> i]
        PROVE WType'
    <3>1. effects' \in [Indices -> Types \cup {"host", None}]
      BY <2>2
    <3>2. frame' \in [at : FramePlaces, then : {"idle", "off", "update", "ensure"},
                      made : Indices \cup {None}]
      BY <2>2
    <3> QED BY <1>6, <2>2, <3>1, <3>2 DEF CreateParticle
  <2> QED BY <1>6, <2>1, <2>2 DEF CreateParticle
<1>7. CASE StoreParticle
  BY <1>7 DEF StoreParticle
<1>8. CASE Drive
  BY <1>8 DEF Drive, Foreign
<1>9. CASE LevelChange
  BY <1>9 DEF LevelChange
<1>10. CASE Frame(Released)
  <2>1. crossed' \in BOOLEAN
    BY <1>10 DEF Frame, Released
  <2> QED BY <1>10, <2>1 DEF Frame
<1> QED
  BY <1>1, <1>2, <1>3, <1>4, <1>5, <1>6, <1>7, <1>8, <1>9, <1>10 DEF WeatherFrame

LEMMA FrameClean ==
  WInv /\ (WeatherFrame \/ LevelChange \/ Frame(Released)) /\ UNCHANGED unload => (~crossed => Clean)'
<1> SUFFICES ASSUME WType, ~crossed => Clean, UNCHANGED unload, ~crossed',
                    WeatherFrame \/ LevelChange \/ Frame(Released)
             PROVE Clean'
  BY DEF WInv
<1> USE WeatherAssumption
    DEF WType, FramePlaces, Clean, Stored, Named, Accounted, Apart, Idle, GoTo, ReleaseThen,
        Settings, Host
<1>1. CASE BeginRelease
  BY <1>1 DEF BeginRelease, DestroyEffect, Foreign
<1>2. CASE EndRelease
  BY <1>2 DEF EndRelease, ForgetEffect
<1>3. CASE Off
  BY <1>3 DEF Off
<1>4. CASE Leave
  BY <1>4 DEF Leave
<1>5. CASE Update
  <2>1. CASE handle # None /\ drawn # type
    <3>1. /\ frame.at = "update" /\ frame'.at = "release" /\ ~crossed
          /\ UNCHANGED <<effects, manager, type, handle, drawn, carried, edited, foreign>>
      BY <1>5, <2>1 DEF Update
    <3> QED BY <3>1
  <2>2. CASE ~(handle # None /\ drawn # type)
    <3>1. /\ frame.at = "update" /\ frame'.at = "ensure" /\ ~crossed
          /\ UNCHANGED <<effects, manager, type, handle, drawn, carried, edited, foreign>>
      BY <1>5, <2>2 DEF Update
    <3> QED BY <3>1
  <2> QED BY <2>1, <2>2
<1>6. CASE CreateParticle
  BY <1>6 DEF CreateParticle
<1>7. CASE StoreParticle
  BY <1>7 DEF StoreParticle
<1>8. CASE Drive
  BY <1>8 DEF Drive, Foreign
<1>9. CASE LevelChange
  BY <1>9 DEF LevelChange
<1>10. CASE Frame(Released)
  BY <1>10 DEF Frame, Released
<1> QED
  BY <1>1, <1>2, <1>3, <1>4, <1>5, <1>6, <1>7, <1>8, <1>9, <1>10 DEF WeatherFrame

LEMMA NextWInv == WInv /\ [Next]_vars => WInv'
<1> SUFFICES ASSUME WInv, [Next]_vars PROVE WInv'
  OBVIOUS
<1>1. CASE UNCHANGED <<weatherVars, unload>>
  BY <1>1 DEF weatherVars, WInv, WType, Clean, Stored, Named, Accounted, Apart
<1>2. CASE GameStep
  <2>1. (WeatherFrame \/ LevelChange \/ Frame(Released)) /\ UNCHANGED unload
    BY <1>2 DEF GameStep
  <2> QED BY <2>1, FrameType, FrameClean DEF WInv
<1> USE WeatherAssumption
    DEF WInv, WType, FramePlaces, Clean, Stored, Named, Accounted, Apart, Idle, Settings, Host
<1>3. CASE Outside
  <2>1. CASE Edit
    BY <1>3, <2>1 DEF Outside, Edit
  <2>2. ASSUME NEW i \in Indices, HostEffect(i) PROVE WInv'
    BY <1>3, <2>2 DEF Outside, HostEffect
  <2> QED BY <1>3, <2>1, <2>2 DEF Outside
<1>4. CASE Unloads("weather", "forget") /\ UnloadDestroys
  <2>1. WType'
    BY <1>4 DEF Unloads, UnloadDestroys, DestroyEffect, Foreign
  <2>2. ASSUME ~crossed' PROVE Clean'
    <3>1. frame = Idle /\ ~crossed /\ Clean
      BY <1>4, <2>2 DEF UnloadDestroys
    <3>2. unload.pc = "weather" /\ unload'.pc = "forget" /\ frame' = Idle
      BY <1>4, <3>1 DEF Unloads, UnloadDestroys
    <3>3. ~foreign'
      BY <1>4, <3>1, <3>2 DEF UnloadDestroys, Foreign
    <3>4. \A i \in Indices : effects'[i] \notin Types
      BY <1>4, <3>1, <3>2 DEF UnloadDestroys, DestroyEffect
    <3> QED BY <1>4, <3>2, <3>3, <3>4 DEF UnloadDestroys
  <2> QED BY <2>1, <2>2
<1>5. CASE Unloads("weather", "menu") /\ UnloadFindsNone
  <2>1. WType'
    BY <1>5 DEF Unloads, UnloadFindsNone
  <2>2. ASSUME ~crossed' PROVE Clean'
    <3>1. frame = Idle /\ handle = None /\ ~crossed /\ Clean
      BY <1>5, <2>2 DEF UnloadFindsNone
    <3>2. unload.pc = "weather" /\ unload'.pc = "menu" /\ frame' = Idle /\ handle' = None
      BY <1>5, <3>1 DEF Unloads, UnloadFindsNone
    <3> QED BY <1>5, <3>1, <3>2 DEF UnloadFindsNone
  <2> QED BY <2>1, <2>2
<1>6. CASE Unloads("forget", "menu") /\ UnloadForgets
  BY <1>6 DEF Unloads, UnloadForgets, ForgetEffect
<1>7. CASE UNCHANGED weatherVars /\ \E from, to : Unloads(from, to) /\ from # "weather"
                                  /\ from # "forget" /\ (from = "loaded" <=> to = "weather")
                                  /\ to # "forget" /\ to # "loaded"
  BY <1>7 DEF Unloads, weatherVars
<1>8. CASE UNCHANGED weatherVars /\ unload' = [unload EXCEPT !.next = unload.next + 1]
  BY <1>8 DEF weatherVars
<1>9. CASE BeginUnload
  BY <1>7, <1>9 DEF BeginUnload
<1>10. CASE ShutdownMenu
  BY <1>7, <1>10 DEF ShutdownMenu
<1>11. CASE ShutdownEvents
  BY <1>7, <1>8, <1>11 DEF ShutdownEvents
<1>12. CASE ShutdownHooks
  BY <1>7, <1>12 DEF ShutdownHooks
<1> QED
  BY <1>1, <1>2, <1>3, <1>4, <1>5, <1>6, <1>9, <1>10, <1>11, <1>12
     DEF Next, InitializeEvents, InstallHooks, ReleaseHooks, EndLoading, RenderStep,
         HostFiresEvent, ReleaseWeather, vars

\* Every effect of ours is named by the handle or by a frame that is about to set it, unless
\* a frame ran into the unloading.
THEOREM EffectsAreAccounted == Spec => []WInv
<1> QED BY InitWInv, NextWInv, PTL DEF Spec

\* (EffectIsOurs) No effect of the host's is touched, and none of ours is lost.
THEOREM EffectAlwaysOurs == Spec => []EffectIsOurs
<1>1. WInv => EffectIsOurs
  BY WeatherAssumption
     DEF WInv, WType, Clean, Accounted, EffectIsOurs, Ours, Idle
<1> QED BY EffectsAreAccounted, <1>1, PTL

\* (DetachLeavesNothing) What is left once the hooks are removed, and when.
THEOREM DetachAlwaysLeavesNothing == Spec => []DetachLeavesNothing
<1>1. RInv /\ EInv /\ WInv => DetachLeavesNothing
  <2> SUFFICES ASSUME RInv, EInv, WInv, unload.pc = "done"
               PROVE known = {} /\ (Ours # {} => crossed) /\ (menu => premature)
    BY DEF DetachLeavesNothing
  <2>1. known = {}
    BY DEF EInv
  <2>2. Ours # {} => crossed
    BY WeatherAssumption DEF WInv, Clean, Accounted, Apart, Ours, Idle
  <2>3. menu => premature
    BY DEF RInv
  <2> QED BY <2>1, <2>2, <2>3
<1> QED BY SetUpIsKept, ListenersAreListed, EffectsAreAccounted, <1>1, PTL
============================================================================
