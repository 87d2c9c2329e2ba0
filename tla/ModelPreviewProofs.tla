------------------------- MODULE ModelPreviewProofs -------------------------
(***************************************************************************)
(* The safety properties of the model preview, for any number of render    *)
(* workers and of selections: references balance, what is drawn lives, and *)
(* a reset leaves only what was passing it.                                *)
(***************************************************************************)
EXTENDS ModelPreview, FiniteSetTheorems, TLAPS

GamePlaces == {"idle", "build", "renamed", "opened", "closed", "unstaged", "released"}
RenderPlaces == {"idle", "taken", "promoted", "menu", "drawing"}

Types ==
  /\ revision \in 0..MaxRevision
  /\ status \in {"request", "panel", "item", "texture", "ready"}
  /\ panel_active \in BOOLEAN /\ name \in MaybeView /\ host \subseteq Views
  /\ staged \in MaybeView /\ current \in MaybeView /\ refs \in [Views -> Int]
  /\ game \in [pc : GamePlaces, rev : 0..MaxRevision]
  /\ game.pc \in {"build", "renamed", "opened"} => game.rev \in Revisions
  /\ render \in [pc : RenderPlaces, held : MaybeView, drawn : MaybeView]
  /\ matched \in [Workers -> MaybeView] /\ caught \in [Workers -> MaybeView]
  /\ fresh \in BOOLEAN /\ promoting \in BOOLEAN /\ torn \in BOOLEAN

\* The render thread holds a view only between taking it and the end of its promotion, and
\* draws what is on display unless a reset has taken it.  A worker has one view at a time.
Renders ==
  /\ render.held # None => render.pc \in {"taken", "promoted"}
  /\ render.pc = "taken" => render.held # None
  /\ render.drawn # None => render.pc = "drawing" /\ (current = render.drawn \/ torn)
  /\ \A w \in Workers : matched[w] = None \/ caught[w] = None

One(x, v) == IF x = v THEN 1 ELSE 0
Catchers(v) == {w \in Workers : caught[w] = v}

\* The references to a view, counted slot by slot.
Balance ==
  \A v \in Views :
    refs[v] = Cardinality(Catchers(v)) + One(staged, v) + One(current, v) + One(render.held, v)

Passing(x) == x = None \/ x \in passing
SomePassed == promoting \/ passing # {}

\* What the threads hold and the slots contain, as far as the last reset has got, is passing it.
Emptied ==
  fresh =>
    /\ ~panel_active
    /\ \A w \in Workers : Passing(matched[w]) /\ Passing(caught[w])
    /\ render.pc = "taken" => Passing(render.held)
    /\ render.pc = "promoted" => SomePassed
    /\ game.pc # "closed" => Passing(staged)
    /\ game.pc \notin {"closed", "unstaged"} => Passing(current)
    /\ game.pc \notin {"closed", "unstaged", "released"} /\ status = "ready" => SomePassed

IInv == Types /\ Renders /\ Balance /\ Emptied

----------------------------------------------------------------------------
(* Counting                                                                  *)

LEMMA OneType == \A x, v : One(x, v) \in {0, 1}
  BY DEF One

\* Giving a reference back.
LEMMA ReleasedCounts ==
  ASSUME Types, NEW x \in MaybeView
  PROVE  /\ Released(x) \in [Views -> Int]
         /\ \A v \in Views : Released(x)[v] = refs[v] - One(x, v)
<1>1. None \notin Views
  BY DEF None, Views, Revisions
<1>2. CASE x = None
  BY <1>1, <1>2 DEF Types, Released, One
<1>3. CASE x \in Views
  <2>1. Released(x) = [refs EXCEPT ![x] = @ - 1]
    BY <1>1, <1>3 DEF Released
  <2> QED BY <1>3, <2>1 DEF Types, One
<1> QED BY <1>2, <1>3 DEF MaybeView

\* The slots that refer to a view, in the form in which the property counts them.
LEMMA SlotsCounted ==
  ASSUME NEW a, NEW b, NEW c, NEW v
  PROVE  Cardinality({s \in {<<"staged", a>>, <<"current", b>>, <<"held", c>>} : s[2] = v})
           = One(a, v) + One(b, v) + One(c, v)
<1> DEFINE A == IF a = v THEN {<<"staged", a>>} ELSE {}
           AB == IF b = v THEN A \cup {<<"current", b>>} ELSE A
           ABC == IF c = v THEN AB \cup {<<"held", c>>} ELSE AB
<1>1. {s \in {<<"staged", a>>, <<"current", b>>, <<"held", c>>} : s[2] = v} = ABC
  OBVIOUS
<1>2. IsFiniteSet(A) /\ Cardinality(A) = One(a, v)
  BY FS_EmptySet, FS_Singleton DEF One
<1>3. <<"current", b>> \notin A /\ <<"held", c>> \notin AB
  OBVIOUS
<1>4. IsFiniteSet(AB) /\ Cardinality(AB) = One(a, v) + One(b, v)
  <2>1. CASE b = v
    <3>1. AB = A \cup {<<"current", b>>} /\ One(b, v) = 1
      BY <2>1 DEF One
    <3> HIDE DEF A, AB
    <3> QED BY <1>2, <1>3, <3>1, FS_AddElement
  <2>2. CASE b # v
    <3>1. AB = A /\ One(b, v) = 0
      BY <2>2 DEF One
    <3> HIDE DEF A, AB
    <3> QED BY <1>2, <3>1, OneType
  <2> QED BY <2>1, <2>2
<1>5. Cardinality(ABC) = One(a, v) + One(b, v) + One(c, v)
  <2>1. CASE c = v
    <3>1. ABC = AB \cup {<<"held", c>>} /\ One(c, v) = 1
      BY <2>1 DEF One
    <3> HIDE DEF A, AB, ABC
    <3> QED BY <1>3, <1>4, <3>1, FS_AddElement
  <2>2. CASE c # v
    <3>1. ABC = AB /\ One(c, v) = 0
      BY <2>2 DEF One
    <3> HIDE DEF A, AB, ABC
    <3> QED BY <1>4, <3>1, OneType
  <2> QED BY <2>1, <2>2
<1> QED BY <1>1, <1>5

LEMMA CatchersFinite ==
  ASSUME NEW v PROVE IsFiniteSet(Catchers(v)) /\ Cardinality(Catchers(v)) \in Nat
<1>1. Catchers(v) \in SUBSET Workers
  BY DEF Catchers
<1> QED BY <1>1, PreviewAssumption, FS_Subset, FS_CardinalityType

----------------------------------------------------------------------------
(* The invariant                                                             *)

LEMMA InitIInv == Init => IInv
<1> SUFFICES ASSUME Init PROVE IInv
  OBVIOUS
<1>0. None \in 0..MaxRevision /\ None \in MaybeView
  BY PreviewAssumption DEF None, MaybeView
<1>1. Types /\ Renders /\ Emptied
  <2>1. render = [pc |-> "idle", held |-> None, drawn |-> None]
        /\ game = [pc |-> "idle", rev |-> None]
        /\ caught = [w \in Workers |-> None] /\ matched = [w \in Workers |-> None]
    BY DEF Init, Between, Resting
  <2>2. Types
    <3>1. refs \in [Views -> Int] /\ caught \in [Workers -> MaybeView] /\ matched \in [Workers -> MaybeView]
      BY <1>0 DEF Init
    <3>2. revision \in 0..MaxRevision
      BY <1>0 DEF Init, None
    <3>3. /\ game \in [pc : GamePlaces, rev : 0..MaxRevision] /\ game.pc = "idle"
          /\ render \in [pc : RenderPlaces, held : MaybeView, drawn : MaybeView]
      BY <1>0, <2>1 DEF GamePlaces, RenderPlaces
    <3> QED BY <1>0, <3>1, <3>2, <3>3 DEF Init, Types
  <2>3. Renders /\ Emptied
    BY <2>1 DEF Init, Renders, Emptied
  <2> QED BY <2>2, <2>3
<1>2. Balance
  <2> SUFFICES ASSUME NEW v \in Views
               PROVE  0 = Cardinality(Catchers(v)) + One(None, v) + One(None, v) + One(None, v)
    BY DEF Balance, Init, Between
  <2>1. v # None
    BY DEF None, Views, Revisions
  <2>2. Catchers(v) = {}
    BY <2>1 DEF Init, Catchers
  <2> QED BY <2>1, <2>2, FS_EmptySet DEF One
<1> QED BY <1>1, <1>2 DEF IInv

\* Each variable keeps its kind.
LEMMA NextTypes == Types /\ [Next]_vars => Types'
<1> SUFFICES ASSUME Types, [Next]_vars PROVE Types'
  OBVIOUS
<1>0. None \in 0..MaxRevision /\ None \in MaybeView /\ Views \subseteq MaybeView
      /\ Revisions \subseteq 0..MaxRevision /\ Revisions = Views
  BY PreviewAssumption DEF None, MaybeView, Views, Revisions
<1>00. None \notin Views
  BY DEF None, Views, Revisions
<1> USE <1>0, <1>00 DEF Types, GamePlaces, RenderPlaces, GameAt, RenderAt, Resting, Between, selection, panel,
        views, workers, history
<1>1. CASE TakeRequest
  <2>1. revision \in Revisions
    BY <1>1 DEF TakeRequest, Revisions
  <2> QED BY <1>1, <2>1 DEF TakeRequest
<1>2. CASE GiveUp
  BY <1>2 DEF GiveUp
<1>3. CASE Rename
  BY <1>3 DEF Rename
<1>4. CASE ScriptFails
  BY <1>4 DEF ScriptFails
<1>5. CASE OpenPanel
  BY <1>5 DEF OpenPanel
<1>6. CASE Announce
  BY <1>6 DEF Announce
<1>7. CASE Deactivate
  BY <1>7 DEF Deactivate, UnderWay
<1>8. CASE ReleaseStaged
  BY <1>8, ReleasedCounts DEF ReleaseStaged
<1>9. CASE ReleaseCurrent
  BY <1>9, ReleasedCounts DEF ReleaseCurrent
<1>10. CASE EndReset
  BY <1>10 DEF EndReset
<1>11. CASE NothingStaged
  BY <1>11 DEF NothingStaged
<1>12. CASE TakeStaged
  BY <1>12 DEF TakeStaged
<1>13. CASE Discard
  BY <1>13, ReleasedCounts DEF Discard
<1>14. CASE Promote
  BY <1>14 DEF Promote
<1>15. CASE Promoted
  BY <1>15, ReleasedCounts DEF Promoted
<1>16. CASE Submit
  <2>1. revision + 1 \in 0..MaxRevision
    BY <1>16, PreviewAssumption DEF Submit
  <2> QED BY <1>16, <2>1 DEF Submit
<1>17. CASE Draw
  BY <1>17 DEF Draw
<1>18. CASE EndFrame
  BY <1>18 DEF EndFrame
<1>19. ASSUME NEW w \in Workers, Match(w) \/ Miss(w) \/ Capture(w) PROVE Types'
  <2>1. CASE Match(w)
    BY <2>1 DEF Match
  <2>2. CASE Miss(w)
    BY <2>2 DEF Miss
  <2>3. CASE Capture(w)
    <3>1. /\ matched[w] \in Views /\ matched' = [matched EXCEPT ![w] = None]
          /\ caught' = [caught EXCEPT ![w] = matched[w]]
          /\ refs' = [refs EXCEPT ![matched[w]] = @ + 1]
      BY <2>3 DEF Capture, MaybeView
    <3>2. refs' \in [Views -> Int]
      <4>1. ASSUME NEW x \in Views, refs' = [refs EXCEPT ![x] = @ + 1] PROVE refs' \in [Views -> Int]
        BY <4>1
      <4> QED BY <3>1, <4>1
    <3>3. caught' \in [Workers -> MaybeView]
      BY <3>1 DEF MaybeView
    <3>4. matched' \in [Workers -> MaybeView]
      BY <3>1
    <3> QED BY <2>3, <3>2, <3>3, <3>4 DEF Capture
  <2> QED BY <1>19, <2>1, <2>2, <2>3
<1>20. ASSUME NEW w \in Workers, Stage(w) PROVE Types'
  BY <1>20, ReleasedCounts DEF Stage
<1>21. ASSUME NEW v \in Views, DropView(v) PROVE Types'
  BY <1>21 DEF DropView
<1>22. CASE UNCHANGED vars
  BY <1>22 DEF vars
<1> QED
  BY <1>1, <1>2, <1>3, <1>4, <1>5, <1>6, <1>7, <1>8, <1>9, <1>10, <1>11, <1>12, <1>13,
     <1>14, <1>15, <1>16, <1>17, <1>18, <1>19, <1>20, <1>21, <1>22
     DEF Next, Process, Reset, Tick, Menu

\* What the render thread holds and draws.
LEMMA NextRenders == Types /\ Renders /\ [Next]_vars => Renders'
<1> SUFFICES ASSUME Types, Renders, [Next]_vars PROVE Renders'
  OBVIOUS
<1> USE DEF Renders, Types, RenderPlaces, RenderAt, Between, selection, panel, views, workers, history
<1>1. CASE UNCHANGED <<render, current, torn, matched, caught>>
  BY <1>1
<1>2. CASE Process
  BY <1>2 DEF Process, TakeRequest, GiveUp, Rename, ScriptFails, OpenPanel, Announce
<1>3. CASE Deactivate \/ ReleaseStaged \/ EndReset
  BY <1>3 DEF Deactivate, ReleaseStaged, EndReset
<1>4. CASE ReleaseCurrent
  BY <1>4 DEF ReleaseCurrent
<1>5. CASE NothingStaged
  BY <1>5 DEF NothingStaged
<1>6. CASE TakeStaged
  BY <1>6 DEF TakeStaged
<1>7. CASE Discard
  BY <1>7 DEF Discard
<1>8. CASE Promote
  BY <1>8 DEF Promote
<1>9. CASE Promoted
  BY <1>9 DEF Promoted
<1>10. CASE Submit
  BY <1>10 DEF Submit
<1>11. CASE Draw
  BY <1>11 DEF Draw
<1>12. CASE EndFrame
  BY <1>12 DEF EndFrame
<1>13. ASSUME NEW w \in Workers, Match(w) \/ Miss(w) \/ Capture(w) \/ Stage(w) PROVE Renders'
  BY <1>13 DEF Match, Miss, Capture, Stage
<1>14. ASSUME NEW v \in Views, DropView(v) PROVE Renders'
  BY <1>14 DEF DropView
<1> QED
  BY <1>1, <1>2, <1>3, <1>4, <1>5, <1>6, <1>7, <1>8, <1>9, <1>10, <1>11, <1>12, <1>13, <1>14
     DEF Next, Reset, Tick, Menu, vars

\* A reference that is taken or given back is the one of the slot that changes.
LEMMA NextBalance == Types /\ Renders /\ Balance /\ [Next]_vars => Balance'
<1> SUFFICES ASSUME Types, Renders, Balance, [Next]_vars, NEW v \in Views
             PROVE  (refs[v] = Cardinality(Catchers(v)) + One(staged, v) + One(current, v)
                                + One(render.held, v))'
  BY DEF Balance
<1>0. /\ refs[v] = Cardinality(Catchers(v)) + One(staged, v) + One(current, v)
                   + One(render.held, v)
      /\ refs[v] \in Int /\ Cardinality(Catchers(v)) \in Nat
      /\ One(None, v) = 0 /\ v # None
  BY CatchersFinite DEF Balance, Types, One, None, Views, Revisions
<1>00. \A x, y : One(x, y) \in {0, 1}
  BY OneType
<1> DEFINE Same == UNCHANGED <<refs, caught, staged, current, render.held>>
<1>1. CASE Same
  BY <1>0, <1>1 DEF Catchers
<1>2. CASE Process
  BY <1>1, <1>2 DEF Process, TakeRequest, GiveUp, Rename, ScriptFails, OpenPanel, Announce, views, workers
<1>3. CASE Deactivate \/ EndReset
  BY <1>1, <1>3 DEF Deactivate, EndReset, views, workers
<1>4. ASSUME UNCHANGED <<caught, current, render>>, staged' = None, refs' = Released(staged)
      PROVE  (refs[v] = Cardinality(Catchers(v)) + One(staged, v) + One(current, v)
                         + One(render.held, v))'
  <2>1. refs'[v] = refs[v] - One(staged, v) /\ Catchers(v)' = Catchers(v)
    BY <1>4, ReleasedCounts DEF Types, Catchers
  <2> QED BY <1>0, <1>00, <1>4, <2>1
<1>5. CASE ReleaseCurrent
  <2>1. refs'[v] = refs[v] - One(current, v) /\ Catchers(v)' = Catchers(v)
        /\ current' = None /\ UNCHANGED <<staged, render>>
    BY <1>5, ReleasedCounts DEF ReleaseCurrent, Types, Catchers, workers
  <2> QED BY <1>0, <1>00, <2>1
<1>6. CASE NothingStaged \/ Submit \/ Draw
  <2>1. Same
    BY <1>6 DEF NothingStaged, Submit, Draw, RenderAt, views, workers, Types
  <2> QED BY <1>1, <2>1
<1>7. CASE TakeStaged
  <2>1. render.held = None /\ render'.held = staged /\ staged' = None
        /\ UNCHANGED <<refs, caught, current>>
    BY <1>7 DEF TakeStaged, Renders, Types, workers
  <2>2. Catchers(v)' = Catchers(v)
    BY <2>1 DEF Catchers
  <2> QED BY <1>0, <1>00, <2>1, <2>2
<1>8. CASE Discard \/ Promoted
  <2>1. render'.held = None /\ refs' = Released(render.held) /\ render.held \in MaybeView
        /\ UNCHANGED <<staged, caught, current>>
    BY <1>8 DEF Discard, Promoted, Types, workers
  <2>2. refs'[v] = refs[v] - One(render.held, v) /\ Catchers(v)' = Catchers(v)
    BY <2>1, ReleasedCounts DEF Catchers
  <2> QED BY <1>0, <1>00, <2>1, <2>2
<1>9. CASE Promote
  <2>1. render'.held = current /\ current' = render.held /\ UNCHANGED <<refs, staged, caught>>
    BY <1>9 DEF Promote, Types, workers
  <2>2. Catchers(v)' = Catchers(v)
    BY <2>1 DEF Catchers
  <2> QED BY <1>0, <1>00, <2>1, <2>2
<1>10. CASE EndFrame
  <2>1. render.held = None /\ render'.held = None /\ UNCHANGED <<refs, caught, staged, current>>
    BY <1>10 DEF EndFrame, Between, Renders, Types, views, workers
  <2> QED BY <1>1, <2>1
<1>11. ASSUME NEW w \in Workers, Capture(w)
       PROVE  (refs[v] = Cardinality(Catchers(v)) + One(staged, v) + One(current, v)
                          + One(render.held, v))'
  <2> DEFINE x == matched[w]
  <2>1. x \in Views /\ caught' = [caught EXCEPT ![w] = x]
        /\ refs' = [refs EXCEPT ![x] = @ + 1] /\ UNCHANGED <<staged, current, render>>
    BY <1>11 DEF Capture, Types, MaybeView
  <2>2. caught[w] = None
    BY <1>11 DEF Capture, Renders
  <2> HIDE DEF x
  <2>3. CASE x = v
    <3>1. Catchers(v)' = Catchers(v) \cup {w} /\ w \notin Catchers(v) /\ refs'[v] = refs[v] + 1
      BY <1>0, <2>1, <2>2, <2>3 DEF Catchers, Types
    <3>2. Cardinality(Catchers(v)') = Cardinality(Catchers(v)) + 1
      BY <3>1, CatchersFinite, FS_AddElement
    <3> QED BY <1>0, <1>00, <2>1, <3>1, <3>2
  <2>4. CASE x # v
    <3>1. Catchers(v)' = Catchers(v) /\ refs'[v] = refs[v]
      BY <1>0, <2>1, <2>2, <2>4 DEF Catchers, Types
    <3> QED BY <1>0, <2>1, <3>1
  <2> QED BY <2>3, <2>4
<1>12. ASSUME NEW w \in Workers, Stage(w)
       PROVE  (refs[v] = Cardinality(Catchers(v)) + One(staged, v) + One(current, v)
                          + One(render.held, v))'
  <2>1. caught[w] # None /\ caught' = [caught EXCEPT ![w] = None] /\ staged' = caught[w]
        /\ UNCHANGED <<current, render>> /\ refs'[v] = refs[v] - One(staged, v)
    BY <1>12, ReleasedCounts DEF Stage, Types
  <2>2. CASE caught[w] = v
    <3>1. Catchers(v)' = Catchers(v) \ {w} /\ w \in Catchers(v) /\ One(staged', v) = 1
      BY <1>0, <2>1, <2>2 DEF Catchers, Types, One
    <3>2. Cardinality(Catchers(v)') = Cardinality(Catchers(v)) - 1
      BY <3>1, CatchersFinite, FS_RemoveElement
    <3> QED BY <1>0, <1>00, <2>1, <3>1, <3>2
  <2>3. CASE caught[w] # v
    <3>1. Catchers(v)' = Catchers(v) /\ One(staged', v) = 0
      BY <1>0, <2>1, <2>3 DEF Catchers, Types, One
    <3> QED BY <1>0, <1>00, <2>1, <3>1
  <2> QED BY <2>2, <2>3
<1>13. ASSUME NEW x \in Views, DropView(x)
       PROVE  (refs[v] = Cardinality(Catchers(v)) + One(staged, v) + One(current, v)
                          + One(render.held, v))'
  BY <1>1, <1>13 DEF DropView, views, workers
<1>14. CASE ReleaseStaged
  BY <1>4, <1>14 DEF ReleaseStaged, workers
<1>15. ASSUME NEW w \in Workers, Match(w) \/ Miss(w)
       PROVE  (refs[v] = Cardinality(Catchers(v)) + One(staged, v) + One(current, v)
                          + One(render.held, v))'
  BY <1>1, <1>15 DEF Match, Miss, views
<1> QED
  BY <1>1, <1>2, <1>3, <1>5, <1>6, <1>7, <1>8, <1>9, <1>10, <1>11, <1>12, <1>13, <1>14, <1>15
     DEF Next, Reset, Tick, Menu, vars

\* What gets past a reset was passing it.
LEMMA NextEmptied == Types /\ Renders /\ Emptied /\ [Next]_vars => Emptied'
<1> SUFFICES ASSUME Types, Renders, Emptied, [Next]_vars PROVE Emptied'
  OBVIOUS
<1> USE DEF Emptied, Passing, SomePassed, Types, Renders, GamePlaces, RenderPlaces, GameAt, RenderAt,
        Resting, Between, selection, panel, views, workers, history
<1>1. CASE UNCHANGED vars
  BY <1>1 DEF vars
<1>2. CASE TakeRequest \/ GiveUp \/ Rename \/ ScriptFails
  <2>1. /\ UNCHANGED <<render, workers, staged, current, fresh, passing, promoting>>
        /\ game.pc \notin {"closed", "unstaged", "released"}
        /\ panel_active' \in {panel_active, FALSE} /\ (status' = status \/ status' # "ready")
    <3>1. CASE TakeRequest
      BY <3>1 DEF TakeRequest
    <3>2. CASE GiveUp
      BY <3>2 DEF GiveUp
    <3>3. CASE Rename
      BY <3>3 DEF Rename
    <3>4. CASE ScriptFails
      BY <3>4 DEF ScriptFails
    <3> QED BY <1>2, <3>1, <3>2, <3>3, <3>4
  <2> QED BY <2>1
<1>3. CASE OpenPanel \/ Announce
  <2>1. CASE OpenPanel
    BY <2>1 DEF OpenPanel
  <2>2. CASE Announce
    BY <2>2 DEF Announce
  <2> QED BY <1>3, <2>1, <2>2
<1>4. CASE Deactivate
  <2>1. /\ \A w \in Workers : matched[w] \in Range(matched) /\ caught[w] \in Range(caught)
        /\ game'.pc = "closed" /\ panel_active' = FALSE /\ UNCHANGED <<render, workers>>
        /\ passing' = UnderWay /\ promoting' = (render.pc = "promoted")
    BY <1>4 DEF Deactivate, Range
  <2>2. \A w \in Workers : Passing(matched[w])' /\ Passing(caught[w])'
    BY <2>1 DEF UnderWay
  <2>3. render.pc = "taken" => Passing(render.held)'
    BY <2>1 DEF UnderWay
  <2> QED BY <2>1, <2>2, <2>3
<1>5. CASE ReleaseStaged
  BY <1>5 DEF ReleaseStaged
<1>6. CASE ReleaseCurrent
  BY <1>6 DEF ReleaseCurrent
<1>7. CASE EndReset
  BY <1>7 DEF EndReset
<1>8. CASE NothingStaged
  BY <1>8 DEF NothingStaged
<1>9. CASE TakeStaged
  BY <1>9 DEF TakeStaged
<1>10. CASE Discard \/ Promote \/ Promoted
  <2>1. CASE Discard
    BY <2>1 DEF Discard
  <2>2. CASE Promote
    BY <2>2 DEF Promote
  <2>3. CASE Promoted
    BY <2>3 DEF Promoted
  <2> QED BY <1>10, <2>1, <2>2, <2>3
<1>11. CASE Submit
  BY <1>11 DEF Submit
<1>12. CASE Draw \/ EndFrame
  <2>1. /\ UNCHANGED <<status, panel_active, staged, current, game, workers, fresh, passing, promoting>>
        /\ render'.pc \in {"drawing", "idle"}
    <3>1. CASE Draw
      BY <3>1 DEF Draw
    <3>2. CASE EndFrame
      BY <3>2 DEF EndFrame
    <3> QED BY <1>12, <3>1, <3>2
  <2> QED BY <2>1
<1>13. ASSUME NEW w \in Workers, Match(w) \/ Miss(w) PROVE Emptied'
  <2>1. CASE Match(w)
    BY <2>1 DEF Match
  <2>2. CASE Miss(w)
    BY <2>2 DEF Miss
  <2> QED BY <1>13, <2>1, <2>2
<1>14. ASSUME NEW w \in Workers, Capture(w) PROVE Emptied'
  BY <1>14 DEF Capture
<1>15. ASSUME NEW w \in Workers, Stage(w) PROVE Emptied'
  BY <1>15 DEF Stage
<1>16. ASSUME NEW v \in Views, DropView(v) PROVE Emptied'
  BY <1>16 DEF DropView
<1> QED
  BY <1>1, <1>2, <1>3, <1>4, <1>5, <1>6, <1>7, <1>8, <1>9, <1>10, <1>11, <1>12, <1>13,
     <1>14, <1>15, <1>16
     DEF Next, Process, Reset, Tick, Menu

\* The invariant that the three properties follow from.
LEMMA PreviewInvariant == Spec => []IInv
<1>1. IInv /\ [Next]_vars => IInv'
  BY NextTypes, NextRenders, NextBalance, NextEmptied DEF IInv
<1> QED BY InitIInv, <1>1, PTL DEF Spec

----------------------------------------------------------------------------
(* The properties                                                            *)

\* (ReferencesBalance) Every reference is held in one place, for any number of workers and
\* selections.
THEOREM ReferencesAlwaysBalance == Spec => []ReferencesBalance
<1>1. IInv => ReferencesBalance
  <2> SUFFICES ASSUME IInv, NEW v \in Views
               PROVE  refs[v] = Cardinality(Catchers(v))
                        + Cardinality({s \in {<<"staged", staged>>, <<"current", current>>,
                                              <<"held", render.held>>} : s[2] = v})
    BY DEF ReferencesBalance, Catchers
  <2>1. refs[v] = Cardinality(Catchers(v)) + One(staged, v) + One(current, v)
                    + One(render.held, v)
    BY DEF IInv, Balance
  <2>2. Cardinality({s \in {<<"staged", staged>>, <<"current", current>>,
                            <<"held", render.held>>} : s[2] = v})
          = One(staged, v) + One(current, v) + One(render.held, v)
    BY SlotsCounted
  <2> QED BY <2>1, <2>2, CatchersFinite, OneType
<1> QED BY PreviewInvariant, <1>1, PTL

\* (DrawnViewLives) What the menu draws is referred to, unless a reset took it.
THEOREM DrawnViewAlwaysLives == Spec => []DrawnViewLives
<1>1. IInv => DrawnViewLives
  <2> SUFFICES ASSUME IInv, render.drawn # None, ~torn PROVE refs[render.drawn] > 0
    BY DEF DrawnViewLives
  <2>1. current = render.drawn /\ render.drawn \in Views
    BY DEF IInv, Types, Renders, MaybeView
  <2>2. One(current, render.drawn) = 1
    BY <2>1 DEF One
  <2> QED BY <2>1, <2>2, OneType, CatchersFinite DEF IInv, Balance
<1> QED BY PreviewInvariant, <1>1, PTL

\* (ResetLeavesOnlyPassing) Whatever the threads were at when a reset began, only a view they
\* had then, or took out of a slot before it was emptied, gets on display after it.
THEOREM ResetAlwaysLeavesOnlyPassing == Spec => []ResetLeavesOnlyPassing
<1>1. IInv => ResetLeavesOnlyPassing
  BY DEF IInv, Emptied, Passing, SomePassed, ResetLeavesOnlyPassing
<1> QED BY PreviewInvariant, <1>1, PTL
=============================================================================
