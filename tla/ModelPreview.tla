---------------------------- MODULE ModelPreview ----------------------------
(***************************************************************************)
(* systems::model_preview: the picture of an item that the menu shows.     *)
(* The menu, on the render thread, submits what is selected.  The game     *)
(* thread has the host build it and open a panel for it, render workers    *)
(* catch the panel's texture when the host draws to it, and the render     *)
(* thread promotes the texture that was caught last.  A level change       *)
(* resets it all.  The four share a record of atomics; only a request is   *)
(* taken under a mutex.                                                    *)
(*                                                                         *)
(* A selection is known by its revision, a texture by the revision whose   *)
(* panel it belongs to.  Settling and retry times decide only when a       *)
(* request is taken.  Initialisation and shutdown are not modelled here.   *)
(***************************************************************************)
EXTENDS Naturals, FiniteSets, Functions

CONSTANTS
  Workers,      \* threads that call the hooks of the render targets
  MaxRevision   \* bound: selections made in a session

ASSUME PreviewAssumption == IsFiniteSet(Workers) /\ MaxRevision \in Nat

None == 0
Revisions == 1..MaxRevision
Views == Revisions
MaybeView == Views \cup {None}

VARIABLES
  revision,     \* of the request that is pending
  processed,    \* processed_revision
  status,       \* model_preview_status
  panel_active, \* panel_active
  name,         \* texture_name: the revision in it, or None if it is empty
  staged,       \* staged
  current,      \* current
  refs,         \* references to each view that are held here
  host,         \* views the host holds
  game,         \* what the game thread does, and for which revision
  render,       \* what the render thread does, and the views it holds and draws
  matched,      \* the view whose name each worker has found to be the panel's
  caught,       \* the view each worker holds
  fresh,        \* history: no panel was opened since the last reset
  passing,      \* history: views that were on their way when the last reset began, or taken
                \* during it, until a panel is opened
  promoting,    \* history: a promotion was about to end when the last reset began, likewise
  torn,         \* history: a reset took the view that is being drawn
  cleared       \* history: there was a reset since the last selection

selection == <<revision, processed>>
panel == <<panel_active, name, host>>
views == <<staged, current, refs>>
workers == <<matched, caught>>
history == <<fresh, passing, promoting, torn, cleared>>
vars == <<revision, processed, status, panel_active, name, staged, current, refs, host,
          game, render, matched, caught, fresh, passing, promoting, torn, cleared>>

----------------------------------------------------------------------------

Resting == [pc |-> "idle", rev |-> None]
Between == [pc |-> "idle", held |-> None, drawn |-> None]

Init ==
  /\ revision = 0 /\ processed = 0 /\ status = "request"
  /\ panel_active = FALSE /\ name = None
  /\ staged = None /\ current = None
  /\ refs = [v \in Views |-> 0] /\ host = {}
  /\ game = Resting /\ render = Between
  /\ matched = [w \in Workers |-> None] /\ caught = [w \in Workers |-> None]
  /\ fresh = FALSE /\ passing = {} /\ promoting = FALSE /\ torn = FALSE /\ cleared = FALSE

Released(v) == IF v = None THEN refs ELSE [refs EXCEPT ![v] = @ - 1]

GameAt(from, to) == game.pc = from /\ game' = [game EXCEPT !.pc = to]
RenderAt(from, to) == render.pc = from /\ render' = [render EXCEPT !.pc = to]

----------------------------------------------------------------------------
(* The game thread, at frame stage 6                                         *)

\* The pending request is taken; what follows does not hold the mutex.
TakeRequest ==
  /\ game.pc = "idle" /\ revision \notin {0, processed}
  /\ game' = [pc |-> "build", rev |-> revision]
  /\ UNCHANGED <<selection, status, panel, views, render, workers, history>>

\* There is no panel to draw in, or the item cannot be built.
GiveUp ==
  /\ game.pc = "build" /\ game' = Resting
  /\ status' \in {"panel", "item"}
  /\ UNCHANGED <<selection, panel, views, render, workers, history>>

\* The item is built. The panel before it is closed, and the texture gets a new name.
Rename ==
  /\ GameAt("build", "renamed")
  /\ panel_active' = FALSE /\ name' = game.rev
  /\ UNCHANGED <<selection, status, host, views, render, workers, history>>

ScriptFails ==
  /\ game.pc = "renamed" /\ game' = Resting
  /\ status' = "panel"
  /\ UNCHANGED <<selection, panel, views, render, workers, history>>

\* The script opens a panel, or returns without one.
OpenPanel ==
  /\ GameAt("renamed", "opened")
  /\ panel_active' = TRUE
  /\ fresh' = FALSE /\ passing' = {} /\ promoting' = FALSE
  /\ host' = host \/ host' = host \cup {game.rev}
  /\ UNCHANGED <<selection, status, name, views, render, workers, torn, cleared>>

\* Wrong variant: the revision is read again, without the mutex.
AnnounceLatest ==
  /\ game.pc = "opened" /\ game' = Resting
  /\ processed' = revision /\ status' = "texture"
  /\ UNCHANGED <<revision, panel, views, render, workers, history>>

Announce ==
  /\ game.pc = "opened" /\ game' = Resting
  /\ processed' = game.rev /\ status' = "texture"
  /\ UNCHANGED <<revision, panel, views, render, workers, history>>

----------------------------------------------------------------------------
(* The game thread, at a level change                                        *)

\* Views that a worker or the render thread has got past the reset.
UnderWay == (Range(matched) \cup Range(caught)
              \cup (IF render.pc = "taken" THEN {render.held} ELSE {})) \ {None}

\* reset closes the panel ...
Deactivate ==
  /\ GameAt("idle", "closed")
  /\ panel_active' = FALSE /\ name' = None
  /\ fresh' = TRUE /\ cleared' = TRUE
  /\ passing' = UnderWay /\ promoting' = (render.pc = "promoted")
  /\ UNCHANGED <<selection, status, host, views, render, workers, torn>>

\* Wrong variant: a texture that was not promoted yet is left.
KeepStaged ==
  /\ GameAt("closed", "unstaged")
  /\ UNCHANGED <<selection, status, panel, views, render, workers, history>>

\* ... releases the texture caught last ...
ReleaseStaged ==
  /\ GameAt("closed", "unstaged")
  /\ staged' = None /\ refs' = Released(staged)
  /\ UNCHANGED <<selection, status, panel, current, render, workers, history>>

\* ... and the one on display ...
ReleaseCurrent ==
  /\ GameAt("unstaged", "released")
  /\ current' = None /\ refs' = Released(current)
  /\ torn' = (torn \/ (current # None /\ render.drawn = current))
  /\ UNCHANGED <<selection, status, panel, staged, render, workers, fresh, passing, promoting, cleared>>

\* ... and waits for a selection.
EndReset ==
  /\ game.pc = "released" /\ game' = Resting
  /\ status' = "request"
  /\ UNCHANGED <<selection, panel, views, render, workers, history>>

----------------------------------------------------------------------------
(* The host, and the render workers in its hooks                             *)

\* The host lets go of the texture of a panel that has been closed, but not while it is
\* in a call with it.
DropView(v) ==
  /\ v \in host /\ ~(panel_active /\ name = v) /\ v \notin Range(matched)
  /\ host' = host \ {v}
  /\ UNCHANGED <<selection, status, panel_active, name, views, game, render, workers, history>>

\* The host draws to the texture of the panel.  The panel's flag is read a little before
\* the name, but a name that has changed since belongs to no texture yet.
Match(w) ==
  /\ matched[w] = None /\ caught[w] = None
  /\ panel_active /\ name \in host
  /\ matched' = [matched EXCEPT ![w] = name]
  /\ UNCHANGED <<selection, status, panel, views, game, render, caught, history>>

\* It has no binding or no view yet, or the reference cannot be taken.
Miss(w) ==
  /\ matched[w] # None
  /\ matched' = [matched EXCEPT ![w] = None]
  /\ UNCHANGED <<selection, status, panel, views, game, render, caught, history>>

\* A reference is taken, with nothing tested again ...
Capture(w) ==
  /\ matched[w] # None
  /\ matched' = [matched EXCEPT ![w] = None]
  /\ caught' = [caught EXCEPT ![w] = matched[w]]
  /\ refs' = [refs EXCEPT ![matched[w]] = @ + 1]
  /\ UNCHANGED <<selection, status, panel, staged, current, game, render, history>>

\* Wrong variant: the texture that is replaced is not released.
StageOver(w) ==
  /\ caught[w] # None
  /\ staged' = caught[w]
  /\ caught' = [caught EXCEPT ![w] = None]
  /\ UNCHANGED <<selection, status, panel, current, refs, game, render, matched, history>>

\* ... and staged in the place of the one before it.
Stage(w) ==
  /\ caught[w] # None
  /\ staged' = caught[w] /\ refs' = Released(staged)
  /\ caught' = [caught EXCEPT ![w] = None]
  /\ UNCHANGED <<selection, status, panel, current, game, render, matched, history>>

----------------------------------------------------------------------------
(* The render thread, once a frame                                           *)

NothingStaged ==
  /\ staged = None /\ RenderAt("idle", "menu")
  /\ UNCHANGED <<selection, status, panel, views, game, workers, history>>

TakeStaged ==
  /\ staged # None /\ render.pc = "idle"
  /\ render' = [render EXCEPT !.pc = "taken", !.held = staged]
  /\ staged' = None
  /\ passing' = passing \cup (IF game.pc = "closed" THEN {staged} ELSE {})
  /\ UNCHANGED <<selection, status, panel, current, refs, game, workers, fresh, promoting, torn, cleared>>

\* A texture without a size is given up.
Discard ==
  /\ render.pc = "taken"
  /\ render' = [render EXCEPT !.pc = "menu", !.held = None]
  /\ refs' = Released(render.held)
  /\ UNCHANGED <<selection, status, panel, staged, current, game, workers, history>>

\* A texture that has a size replaces the one on display.
Promote ==
  /\ render.pc = "taken"
  /\ render' = [render EXCEPT !.pc = "promoted", !.held = current]
  /\ current' = render.held
  /\ UNCHANGED <<selection, status, panel, staged, refs, game, workers, history>>

\* The texture that was replaced is released.
Promoted ==
  /\ render.pc = "promoted"
  /\ render' = [render EXCEPT !.pc = "menu", !.held = None]
  /\ status' = "ready" /\ refs' = Released(render.held)
  /\ UNCHANGED <<selection, panel, staged, current, game, workers, history>>

\* The menu submits what is selected; a selection that did not change is no request.
Submit ==
  /\ render.pc = "menu" /\ revision < MaxRevision
  /\ revision' = revision + 1 /\ status' = "item" /\ cleared' = FALSE
  /\ UNCHANGED <<processed, panel, views, game, render, workers, fresh, passing, promoting, torn>>

\* Wrong variant: the menu draws before the staged texture has been promoted.
DrawTaken ==
  /\ render.pc \in {"menu", "taken"}
  /\ render' = [render EXCEPT !.pc = IF @ = "menu" THEN "drawing" ELSE @, !.drawn = current]
  /\ UNCHANGED <<selection, status, panel, views, game, workers, history>>

\* The menu draws what is on display, and takes no reference to it.
Draw ==
  /\ render.pc = "menu"
  /\ render' = [render EXCEPT !.pc = "drawing", !.drawn = current]
  /\ UNCHANGED <<selection, status, panel, views, game, workers, history>>

EndFrame ==
  /\ render.pc = "drawing" /\ render' = Between
  /\ torn' = FALSE
  /\ UNCHANGED <<selection, status, panel, views, game, workers, fresh, passing, promoting, cleared>>

----------------------------------------------------------------------------

Process == TakeRequest \/ GiveUp \/ Rename \/ ScriptFails \/ OpenPanel \/ Announce
Reset == Deactivate \/ ReleaseStaged \/ ReleaseCurrent \/ EndReset
Tick == NothingStaged \/ TakeStaged \/ Discard \/ Promote \/ Promoted
Menu == Submit \/ Draw \/ EndFrame

Next ==
  \/ Process \/ Reset \/ Tick \/ Menu
  \/ \E w \in Workers : Match(w) \/ Miss(w) \/ Capture(w) \/ Stage(w)
  \/ \E v \in Views : DropView(v)

Spec == Init /\ [][Next]_vars

\* The threads keep running. The host draws what it was given to draw, and an item, a
\* script or a texture that fails does not fail every time.
Fairness ==
  /\ WF_vars(TakeRequest) /\ SF_vars(Rename) /\ SF_vars(OpenPanel) /\ WF_vars(Announce)
  /\ WF_vars(ReleaseStaged) /\ WF_vars(ReleaseCurrent) /\ WF_vars(EndReset)
  /\ WF_vars(NothingStaged \/ TakeStaged) /\ SF_vars(Promote) /\ WF_vars(Promoted)
  /\ WF_vars(Draw) /\ WF_vars(EndFrame)
  /\ \A w \in Workers : WF_vars(Match(w)) /\ SF_vars(Capture(w)) /\ WF_vars(Stage(w))

FairSpec == Spec /\ Fairness

----------------------------------------------------------------------------
(* Properties                                                                *)

\* Every reference is held in one place: none is lost and none is given back twice,
\* whichever of the threads takes a texture out of a slot.
ReferencesBalance ==
  \A v \in Views :
    refs[v] = Cardinality({w \in Workers : caught[w] = v})
              + Cardinality({s \in {<<"staged", staged>>, <<"current", current>>,
                                    <<"held", render.held>>} : s[2] = v})

\* A texture is there as long as the menu draws it, unless a reset on the game thread
\* took it away from under the drawing.
DrawnViewLives ==
  LET v == render.drawn IN v # None => v \in host \/ refs[v] > 0 \/ torn

\* After a reset nothing gets on display, or is about to, before a panel has been opened
\* again, but a view that a thread had passed its last test with, or taken out of a slot,
\* before the reset emptied it: that one can still be published after the reset.
ResetLeavesOnlyPassing ==
  fresh /\ game.pc \notin {"closed", "unstaged", "released"} =>
    /\ {staged, current} \ {None} \subseteq passing
    /\ status = "ready" => promoting \/ passing # {}

\* The last selection is shown in the end, although textures of earlier ones may be on
\* their way when it is made. Not if a reset comes after it: the selection counts as
\* processed and is not built again. Nor if the script opened no panel.
LastSelectionIsShown ==
  revision = MaxRevision ~>
    \/ current = MaxRevision
    \/ cleared
    \/ panel_active /\ name = MaxRevision /\ name \notin host
============================================================================
