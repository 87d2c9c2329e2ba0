---------------------------- MODULE RenderFrame ----------------------------
(***************************************************************************)
(* rendering::context and the ImGui menu on the host's render thread.  The *)
(* first frame sets up what it can and a later one tries again; each frame *)
(* then passes through the menu in four calls that test separately whether *)
(* the menu is there.  When the host resizes its buffers the view of the   *)
(* back buffer is given up before and made again after.  The thread that   *)
(* unloads the module takes the menu down, whatever a frame is doing.      *)
(*                                                                         *)
(* What is drawn is left out, and so are the fonts and the textures.       *)
(***************************************************************************)
EXTENDS Naturals

VARIABLES
  ready,     \* m_hooks_ready
  complete,  \* m_loading_state is 1
  device,    \* m_device and m_context
  view,      \* m_rtv is not null
  viewRefs,  \* references to the host's back buffer that are ours
  setup,     \* context::m_initialized
  menu,      \* imgui_menu::m_initialized
  imgui,     \* the library: absent, up, or taken down in part
  render,    \* where the render thread is
  met,       \* history: the frame overlapped the teardown of the menu
  harmed,    \* history: a frame that did not used a menu that was not up
  blocked,   \* history: hooked, the host resized a buffer that we still referred to
  crashed,   \* history: the view was made again without a device
  lost       \* history: a resize failed, or the view could not be made after it

renderVars == <<ready, complete, device, view, viewRefs, setup, menu, imgui, render, met,
                harmed, blocked, crashed, lost>>

At(s) == [at |-> s, in |-> FALSE]
Between == At("idle")

RenderInit ==
  /\ ready = FALSE /\ complete = FALSE
  /\ device = FALSE /\ view = FALSE /\ viewRefs = 0
  /\ setup = FALSE /\ menu = FALSE /\ imgui = "absent"
  /\ render = Between /\ met = FALSE
  /\ harmed = FALSE /\ blocked = FALSE /\ crashed = FALSE /\ lost = FALSE

----------------------------------------------------------------------------
(* Setting up                                                                *)

Step(from, to) == render = At(from) /\ render' = At(to)

\* The host presents. While the module is not ready, or no longer, nothing is done.
Present(tearing) ==
  /\ ready
  /\ Step("idle", IF setup THEN "gate" ELSE "device")
  /\ met' = tearing
  /\ UNCHANGED <<ready, complete, device, view, viewRefs, setup, menu, imgui, harmed,
                 blocked, crashed, lost>>

Unharmed == UNCHANGED <<ready, complete, met, harmed, blocked, crashed, lost>>

AcquireDevice ==
  /\ \/ Step("device", "view") /\ device' = TRUE
     \/ Step("device", "idle") /\ UNCHANGED device
  /\ Unharmed /\ UNCHANGED <<view, viewRefs, setup, menu, imgui>>

\* A view refers to the buffer. The pointer to one that was there is overwritten.
CreateRtv == view' = TRUE /\ viewRefs' = viewRefs + 1

\* It is made, or it is not, and then all is given up.
MakeView ==
  /\ \/ Step("view", "menu") /\ CreateRtv
     \/ Step("view", "undo") /\ UNCHANGED <<view, viewRefs>>
  /\ Unharmed /\ UNCHANGED <<device, setup, menu, imgui>>

\* imgui_menu::initialize takes the library up, and its flag is set at the end; if the
\* backends cannot be started, the library's context is destroyed again. (It returns early
\* if the flag is set, which it never is here: the guard says so, and deadlock is checked.)
InitializeMenu ==
  /\ ~menu
  /\ \/ Step("menu", "flag") /\ imgui' = "up"
     \/ Step("menu", "undo") /\ imgui' = "absent"
  /\ Unharmed /\ UNCHANGED <<device, view, viewRefs, setup, menu>>

FlagMenu ==
  /\ Step("flag", "set") /\ menu' = TRUE
  /\ Unharmed /\ UNCHANGED <<device, view, viewRefs, setup, imgui>>

SetUp ==
  /\ Step("set", "gate") /\ setup' = TRUE
  /\ Unharmed /\ UNCHANGED <<device, view, viewRefs, menu, imgui>>

\* context::shutdown, when setting up has failed; the menu is not up then.
ReleaseAll ==
  /\ Step("undo", "idle")
  /\ view' = FALSE /\ viewRefs' = (IF view THEN viewRefs - 1 ELSE viewRefs)
  /\ device' = FALSE
  /\ Unharmed /\ UNCHANGED <<setup, menu, imgui>>

----------------------------------------------------------------------------
(* A frame                                                                   *)

Gate ==
  /\ Step("gate", IF device /\ view /\ menu THEN "begin" ELSE "idle")
  /\ Unharmed /\ UNCHANGED <<device, view, viewRefs, setup, menu, imgui>>

Stages == {"begin", "overlays", "draw", "submit"}
After == [begin |-> "overlays", overlays |-> "draw", draw |-> "submit", submit |-> "idle"]

\* Each call returns at once if the menu is not there; gameplay_ready also asks whether
\* loading is complete, and the last call whether the library has a context.
Passes(s) ==
  CASE s = "overlays" -> menu /\ complete
    [] s = "submit" -> menu /\ imgui # "absent"
    [] OTHER -> menu

Test(s) ==
  /\ render = At(s)
  /\ render' = IF Passes(s) THEN [at |-> s, in |-> TRUE] ELSE At(After[s])
  /\ Unharmed /\ UNCHANGED <<device, view, viewRefs, setup, menu, imgui>>

\* The call works on the library's context.
Use(s) ==
  /\ render = [at |-> s, in |-> TRUE] /\ render' = At(After[s])
  /\ harmed' = (harmed \/ (imgui # "up" /\ ~met))
  /\ UNCHANGED <<ready, complete, device, view, viewRefs, setup, menu, imgui, met, blocked,
                 crashed, lost>>

----------------------------------------------------------------------------
(* The host resizes its buffers                                              *)

\* Wrong variant: the pointer is cleared without giving the reference back.
DropView ==
  /\ ready /\ Step("idle", "resize")
  /\ view' = FALSE /\ UNCHANGED viewRefs
  /\ Unharmed /\ UNCHANGED <<device, setup, menu, imgui>>

OnResizeBuffers ==
  /\ ready /\ Step("idle", "resize")
  /\ view' = FALSE /\ viewRefs' = (IF view THEN viewRefs - 1 ELSE viewRefs)
  /\ Unharmed /\ UNCHANGED <<device, setup, menu, imgui>>

\* It fails, at the latest if a reference to a buffer is left.
Resize ==
  /\ \/ viewRefs = 0 /\ Step("resize", "resized") /\ UNCHANGED lost
     \/ Step("resize", "idle") /\ lost' = TRUE
  /\ blocked' = (blocked \/ viewRefs # 0)
  /\ UNCHANGED <<ready, complete, device, view, viewRefs, setup, menu, imgui, met, harmed,
                 crashed>>

\* The view is made again with the device, which is not looked at.
OnResizeBuffersPost ==
  /\ \/ device /\ Step("resized", "idle") /\ CreateRtv /\ UNCHANGED <<lost, crashed>>
     \/ Step("resized", "idle") /\ lost' = TRUE /\ UNCHANGED <<view, viewRefs, crashed>>
     \/ ~device /\ Step("resized", "crashed") /\ crashed' = TRUE /\ UNCHANGED <<view, viewRefs, lost>>
  /\ UNCHANGED <<ready, complete, device, setup, menu, imgui, met, harmed, blocked>>

----------------------------------------------------------------------------
(* Other threads                                                             *)

\* The thread that initialises the module releases the hooks and ends the loading screen.
SetReady ==
  /\ ready' = TRUE
  /\ UNCHANGED <<complete, device, view, viewRefs, setup, menu, imgui, render, met, harmed,
                 blocked, crashed, lost>>

LoadingComplete ==
  /\ ~complete /\ complete' = TRUE
  /\ UNCHANGED <<ready, device, view, viewRefs, setup, menu, imgui, render, met, harmed,
                 blocked, crashed, lost>>

Met == met' = (met \/ render # Between)

\* imgui_menu::shutdown: the backends first, then the context.
StopBackends ==
  /\ imgui' = "half" /\ Met
  /\ UNCHANGED <<ready, complete, device, view, viewRefs, setup, menu, render, harmed,
                 blocked, crashed, lost>>

DestroyContext ==
  /\ imgui' = "absent" /\ Met
  /\ UNCHANGED <<ready, complete, device, view, viewRefs, setup, menu, render, harmed,
                 blocked, crashed, lost>>

\* Wrong variant: the flag stays.
KeepFlag ==
  /\ Met
  /\ UNCHANGED <<ready, complete, device, view, viewRefs, setup, menu, imgui, render, harmed,
                 blocked, crashed, lost>>

ClearFlag ==
  /\ menu' = FALSE /\ Met
  /\ UNCHANGED <<ready, complete, device, view, viewRefs, setup, imgui, render, harmed,
                 blocked, crashed, lost>>

\* cheat::shutdown stops the frames; what the context holds is kept.
Unready ==
  /\ ready' = FALSE
  /\ UNCHANGED <<complete, device, view, viewRefs, setup, menu, imgui, render, met, harmed,
                 blocked, crashed, lost>>

RenderThread(tearing) ==
  \/ Present(tearing) \/ AcquireDevice \/ MakeView \/ InitializeMenu \/ FlagMenu \/ SetUp
  \/ ReleaseAll \/ Gate
  \/ \E s \in Stages : Test(s) \/ Use(s)
  \/ OnResizeBuffers \/ Resize \/ OnResizeBuffersPost

----------------------------------------------------------------------------
(* Properties                                                                *)

\* The host never finds a reference of ours on a buffer it resizes through the hook. The
\* view is made without a device only if the host resizes before the first frame could be
\* set up. Between frames either everything is set up, with a view unless a resize went
\* wrong, or nothing is left of an attempt that failed.
ResizesAndSetupAgree ==
  /\ ~blocked
  /\ crashed => ~setup
  /\ viewRefs = IF view THEN 1 ELSE 0
  /\ render = Between /\ setup => device /\ (view \/ lost)
  /\ render = Between /\ ~setup => ~device /\ ~view
============================================================================
