--------------------------- MODULE SceneObjects ----------------------------
(***************************************************************************)
(* The scene objects of the backtrack and onshot chams.  The game thread   *)
(* creates and destroys them at frame stage 6 and around a level change,   *)
(* the detaching thread destroys them once more, and render workers draw   *)
(* with them inside the hook of GeneratePrimitives.  Each map of objects   *)
(* has a shared mutex: the updating threads wait for it, the workers only  *)
(* try it.  Creating or destroying an object can re-enter the hook on the  *)
(* same thread.                                                            *)
(*                                                                         *)
(* An object is identified by its address, so a freed one can come back.   *)
(* Calls in flight when the hooks are removed are left to HookedCalls.     *)
(***************************************************************************)
EXTENDS Sequences

CONSTANTS
  Pawns,     \* addresses of player pawns
  Objects,   \* addresses of scene objects
  Workers,   \* render workers
  None

Mutators == {"game", "detach"}
Maps == {"backtrack", "onshot"}

ASSUME SceneAssumption == None \notin Objects \cup Pawns \cup Maps

VARIABLES
  level,     \* the host's level: "up", "going" while its end is announced, "down",
             \* and "gone" if it ended without an announcement
  pawns,     \* pawns the entity list knows
  scene_system, \* the host's scene system was found when the module started
  scene,     \* objects made here that the host's scene holds
  objects,   \* for each map and pawn the recorded object, or None
  pending,   \* pawns whose shot waits to be given an object
  disabled,  \* g_scene_object_path_disabled
  ready,     \* m_hooks_ready
  todo,      \* sections each mutating thread still has to go through
  section,   \* the section it is in, and the pawns that are left in it
  mutating,  \* g_scene_object_mutation of each mutating thread
  worker,    \* what each worker does
  hooked,    \* the hooks are in place
  skipped,   \* history: a level ended without the callback, and none has begun since
  lost,      \* history: objects whose destruction faulted
  forgotten, \* history: objects given up for want of a scene system to destroy them
  late,      \* history: objects made after the detaching thread had been there
  harm       \* history: what went wrong on a mutating thread; a dangling use is
             \* remembered until the next level begins

host == <<level, pawns, hooked, ready, scene_system>>
control == <<todo, section, mutating>>
history == <<skipped, lost, forgotten, late, harm>>
vars == <<level, pawns, scene_system, scene, objects, pending, disabled, ready, todo, section,
          mutating, worker, hooked, skipped, lost, forgotten, late, harm>>

----------------------------------------------------------------------------

NoSection == [map |-> None, job |-> "none", left |-> {}]
Resting == [pc |-> "idle", drawn |-> None, owner |-> None, locks |-> {}, targets |-> {}]

Init ==
  /\ level = "down" /\ pawns = {} /\ scene = {} /\ scene_system \in BOOLEAN
  /\ objects = [m \in Maps |-> [p \in Pawns |-> None]]
  /\ pending = {} /\ disabled = FALSE /\ ready = FALSE /\ hooked = TRUE
  /\ todo = [t \in Mutators |-> <<>>]
  /\ section = [t \in Mutators |-> NoSection]
  /\ mutating = [t \in Mutators |-> FALSE]
  /\ worker = [w \in Workers |-> Resting]
  /\ skipped = FALSE /\ lost = {} /\ forgotten = {} /\ late = {} /\ harm = {}

Recorded(m) == {objects[m][p] : p \in Pawns} \ {None}

Exclusive(m) == \E t \in Mutators : section[t].map = m
Shared(m) == \E w \in Workers : m \in worker[w].locks

Idle(t) == todo[t] = <<>> /\ section[t] = NoSection

----------------------------------------------------------------------------
(* The game thread's callbacks, and the detaching thread.                    *)

Schedule(t, jobs) ==
  /\ Idle(t) /\ hooked
  /\ todo' = [todo EXCEPT ![t] = jobs]
  /\ UNCHANGED <<section, mutating, scene, objects, pending, disabled, worker>>

Update(m) == [map |-> m, job |-> "update"]
Shutdown(m) == [map |-> m, job |-> "shutdown"]
Both(job(_)) == <<job("backtrack"), job("onshot")>>

\* frame_stage_notify is not held back by m_hooks_ready, and goes on with the
\* players of a level whose end it has not been told of.
FrameStage6 ==
  /\ level \in {"up", "gone"}
  /\ Schedule("game", Both(Update))
  /\ UNCHANGED <<host, history>>

FireShot ==
  /\ level = "up"
  /\ Schedule("game", <<[map |-> "onshot", job |-> "push"]>>)
  /\ UNCHANGED <<host, history>>

LevelShutdown ==
  /\ level = "up"
  /\ Schedule("game", Append(Both(Shutdown), [map |-> None, job |-> "tear down"]))
  /\ level' = "going"
  /\ UNCHANGED <<pawns, hooked, ready, scene_system, history>>

\* The host clears its scene between two levels.
SceneCleared == scene' = {} /\ lost' = {} /\ forgotten' = {} /\ late' = {}

\* A client that skips the callback when it reconnects.
LevelEndsUnannounced ==
  /\ level = "up" /\ Idle("game") /\ \A w \in Workers : worker[w] = Resting
  /\ level' = "gone" /\ pawns' = {} /\ SceneCleared
  /\ skipped' = TRUE
  /\ UNCHANGED <<objects, pending, disabled, ready, control, worker, hooked, scene_system, harm>>

LevelInitialization ==
  /\ level \in {"down", "gone"}
  /\ Schedule("game", Append(Both(Shutdown), [map |-> None, job |-> "set up"]))
  /\ UNCHANGED <<host, history>>

\* Wrong variant: only the backtrack objects are released.
DetachBacktrackOnly ==
  /\ Schedule("detach", <<Shutdown("backtrack"), [map |-> None, job |-> "unhook"]>>)
  /\ UNCHANGED <<host, history>>

Detach ==
  /\ Schedule("detach", Append(Both(Shutdown), [map |-> None, job |-> "unhook"]))
  /\ UNCHANGED <<host, history>>

SetReady ==
  /\ ~ready /\ hooked /\ Idle("detach")
  /\ ready' = TRUE
  /\ UNCHANGED <<level, pawns, hooked, scene_system, scene, objects, pending, disabled, control,
                 worker, history>>

\* Players join and leave between the callbacks.
PlayersChange ==
  /\ level = "up" /\ Idle("game")
  /\ \E p \in Pawns : pawns' = IF p \in pawns THEN pawns \ {p} ELSE pawns \cup {p}
  /\ UNCHANGED <<level, hooked, ready, scene_system, scene, objects, pending, disabled, control,
                 worker, history>>

----------------------------------------------------------------------------
(* Sections under a map's lock.                                              *)

\* Wrong variant: the scope that marks the thread is missing.
EnterUnmarked(t) ==
  LET next == Head(todo[t]) IN
  /\ section[t] = NoSection /\ todo[t] # <<>> /\ next.map # None
  /\ ~Exclusive(next.map) /\ ~Shared(next.map)
  /\ section' = [section EXCEPT ![t] = [map |-> next.map, job |-> next.job, left |-> Pawns]]
  /\ UNCHANGED <<todo, mutating, host, scene, objects, pending, disabled, worker, history>>

\* push takes the lock without the scope: it makes no scene object.
Enter(t) ==
  LET next == Head(todo[t]) IN
  /\ section[t] = NoSection /\ todo[t] # <<>> /\ next.map # None
  /\ ~Exclusive(next.map) /\ ~Shared(next.map)
  /\ section' = [section EXCEPT ![t] = [map |-> next.map, job |-> next.job, left |-> Pawns]]
  /\ mutating' = [mutating EXCEPT ![t] = next.job # "push"]
  /\ UNCHANGED <<todo, host, scene, objects, pending, disabled, worker, history>>

Leave(t) ==
  /\ section' = [section EXCEPT ![t] = NoSection]
  /\ mutating' = [mutating EXCEPT ![t] = FALSE]
  /\ todo' = [todo EXCEPT ![t] = Tail(@)]

\* object::destroy of o: the object goes, or the engine faults and it stays; without a
\* scene system it stays too and is forgotten.  Of a dangling pointer the flags cannot be
\* read or say that the object is going, and it is forgotten, or the engine is called on it.
Destroyed(o) ==
  LET intact == [scene |-> scene, lost |-> {}, forgotten |-> {}, disabled |-> disabled, harm |-> {}]
      faulted == [intact EXCEPT !.disabled = TRUE]
  IN IF o = None THEN {intact}
     ELSE IF o \notin scene
     THEN {intact} \cup IF ~scene_system THEN {}
                        ELSE {[x EXCEPT !.harm = {"dangling"}] : x \in {intact, faulted}}
     ELSE IF scene_system
     THEN {[intact EXCEPT !.scene = scene \ {o}], [faulted EXCEPT !.lost = {o}]}
     ELSE {[intact EXCEPT !.forgotten = {o}]}

NotCreated(d) == [object |-> None, disabled |-> d.disabled, lost |-> {}, forgotten |-> {}]

\* object::create after d: an object, nothing because the path is disabled or something is
\* missing, or a fault that disables the path.  A fault after the engine has made the
\* object destroys it again, which may fault too; without a scene system it stays.
Created(d) ==
  LET faulted == [NotCreated(d) EXCEPT !.disabled = TRUE]
  IN {NotCreated(d), faulted}
       \cup IF d.disabled \/ level # "up" THEN {}
            ELSE UNION {{[NotCreated(d) EXCEPT !.object = o],
                         IF scene_system THEN [faulted EXCEPT !.lost = {o}]
                                         ELSE [faulted EXCEPT !.forgotten = {o}]} :
                        o \in Objects \ d.scene}

\* The detaching thread has been through map m.
DetachPast(m) == todo["detach"] # <<>> /\ Shutdown(m) \notin {todo["detach"][i] : i \in DOMAIN todo["detach"]}

\* The engine, called by thread t, re-enters the hook of GeneratePrimitives.
Reentered(t) == IF ready /\ ~mutating[t] THEN {"relock"} ELSE {}

Visited(t, p) == section' = [section EXCEPT ![t].left = @ \ {p}]

\* The entry of p is replaced: what it holds is destroyed and, if wanted, a new
\* object is made.
Replace(t, m, p, d, c) ==
  /\ objects' = [objects EXCEPT ![m][p] = c.object]
  /\ scene' = d.scene \cup ({c.object} \ {None}) \cup c.lost \cup c.forgotten
  /\ disabled' = c.disabled
  /\ lost' = lost \cup d.lost \cup c.lost
  /\ forgotten' = forgotten \cup d.forgotten \cup c.forgotten
  /\ late' = late \cup (IF DetachPast(m) THEN {c.object} \ {None} ELSE {})
  /\ harm' = harm \cup d.harm \cup Reentered(t)

Drop(t, m, p) ==
  \E d \in Destroyed(objects[m][p]) : Replace(t, m, p, d, NotCreated(d))

\* setup_bones writes into the object.
Keep(m, p) ==
  /\ objects[m][p] # None
  /\ harm' = harm \cup IF m = "backtrack" /\ objects[m][p] \notin scene THEN {"dangling"} ELSE {}
  /\ UNCHANGED <<scene, objects, disabled, lost, forgotten, late>>

\* backtrack::update on one pawn: its object is dropped when the pawn is gone,
\* dead, not an enemy, without a record or close to its record, or when the
\* feature is off; otherwise it is made if there is none and posed.
VisitBacktrack(t, p) ==
  /\ section[t].map = "backtrack" /\ section[t].job = "update"
  /\ \/ Drop(t, "backtrack", p)
     \/ p \in pawns /\ Keep("backtrack", p)
     \/ /\ p \in pawns /\ objects["backtrack"][p] = None
        /\ \E d \in Destroyed(None) : \E c \in Created(d) : Replace(t, "backtrack", p, d, c)
  /\ UNCHANGED pending

\* Wrong variant: the object of an earlier shot is not destroyed first.
VisitOnshotOverwrites(t, p) ==
  /\ section[t].map = "onshot" /\ section[t].job = "update"
  /\ \/ Drop(t, "onshot", p)
     \/ p \notin pending /\ Keep("onshot", p)
     \/ /\ p \in pending
        /\ \E d \in Destroyed(None) : \E c \in Created(d) : Replace(t, "onshot", p, d, c)
  /\ pending' = pending \ {p}

\* onshot::update on one pawn: a pending shot replaces the object of an earlier
\* one, the others stay until they have faded.
VisitOnshot(t, p) ==
  /\ section[t].map = "onshot" /\ section[t].job = "update"
  /\ \/ Drop(t, "onshot", p)
     \/ p \notin pending /\ Keep("onshot", p)
     \/ /\ p \in pending
        /\ \E d \in Destroyed(objects["onshot"][p]) : \E c \in Created(d) : Replace(t, "onshot", p, d, c)
  /\ pending' = pending \ {p}

\* Wrong variant: onshot::shutdown forgets the shots that wait for an object.
VisitShutdownKeepsPending(t, p) ==
  /\ section[t].job = "shutdown"
  /\ Drop(t, section[t].map, p)
  /\ UNCHANGED pending

VisitShutdown(t, p) ==
  /\ section[t].job = "shutdown"
  /\ Drop(t, section[t].map, p)
  /\ pending' = IF section[t].map = "onshot" THEN pending \ {p} ELSE pending

Visit(t) ==
  /\ \E p \in section[t].left :
       /\ VisitBacktrack(t, p) \/ VisitOnshot(t, p) \/ VisitShutdown(t, p)
       /\ Visited(t, p)
  /\ UNCHANGED <<host, todo, mutating, worker, skipped>>

\* onshot::push: the feature may be off, or the pawn without a valid record.
Push(t) ==
  /\ section[t].job = "push"
  /\ pending' = pending \/ \E p \in pawns : pending' = pending \cup {p}
  /\ Leave(t)
  /\ UNCHANGED <<host, scene, objects, disabled, worker, history>>

LeaveMap(t) ==
  /\ section[t].job \in {"update", "shutdown"} /\ section[t].left = {}
  /\ Leave(t)
  /\ UNCHANGED <<host, scene, objects, pending, disabled, worker, history>>

----------------------------------------------------------------------------
(* What follows the sections of a callback.                                  *)

Proceed(t, job) ==
  /\ section[t] = NoSection /\ todo[t] # <<>> /\ Head(todo[t]).job = job
  /\ todo' = [todo EXCEPT ![t] = <<>>]
  /\ UNCHANGED <<section, mutating, objects, pending, disabled, worker, scene_system>>

TearDown ==
  /\ Proceed("game", "tear down")
  /\ \A w \in Workers : worker[w] = Resting
  /\ level' = "down" /\ pawns' = {} /\ SceneCleared
  /\ UNCHANGED <<hooked, ready, skipped, harm>>

SetUp ==
  /\ Proceed("game", "set up")
  /\ level' = "up"
  /\ skipped' = FALSE /\ harm' = harm \ {"dangling"}
  /\ UNCHANGED <<pawns, hooked, ready, scene, lost, forgotten, late>>

Unhook ==
  /\ Proceed("detach", "unhook")
  /\ Idle("game") /\ \A w \in Workers : worker[w] = Resting
  /\ hooked' = FALSE /\ ready' = FALSE
  /\ UNCHANGED <<level, pawns, scene, lost, forgotten, late, skipped, harm>>

----------------------------------------------------------------------------
(* The render workers, in cheat::generate_primitives.                        *)

Goes(w, r) ==
  /\ worker' = [worker EXCEPT ![w] = r]
  /\ UNCHANGED <<host, control, scene, objects, pending, disabled, history>>

\* The host draws one of the objects made here, which have no owner, or one of a
\* pawn.  Until the hooks are ready its own path is taken.
Arrive(w) ==
  /\ worker[w] = Resting /\ hooked /\ level \in {"up", "going"}
  /\ \E x \in scene \X {None} \cup {None} \X pawns :
       Goes(w, IF ready THEN [Resting EXCEPT !.pc = "backtrack", !.drawn = x[1], !.owner = x[2]]
                        ELSE [Resting EXCEPT !.pc = "engine"])

TryLock(w) ==
  LET m == worker[w].pc IN
  /\ m \in Maps
  /\ Goes(w, [worker[w] EXCEPT !.pc = IF m = "backtrack" THEN "onshot" ELSE "locked",
                               !.locks = IF Exclusive(m) THEN @ ELSE @ \cup {m}])

LocksMissing(w) ==
  /\ worker[w].pc = "locked" /\ worker[w].locks # Maps
  /\ Goes(w, [Resting EXCEPT !.pc = "engine", !.locks = worker[w].locks])

\* Wrong variant: one of the two locks is taken to be enough.
DrawWithOneLock(w) ==
  /\ worker[w].pc = "locked" /\ worker[w].locks # {}
  /\ worker[w].drawn \notin Recorded("backtrack") \cup Recorded("onshot")
  /\ Goes(w, [worker[w] EXCEPT !.pc = "draw", !.owner = None,
       !.targets = IF disabled \/ worker[w].owner = None THEN {}
                   ELSE {objects[m][worker[w].owner] : m \in Maps} \ {None}])

SkipRecorded(w) ==
  /\ worker[w].pc = "locked" /\ worker[w].locks = Maps
  /\ worker[w].drawn \in Recorded("backtrack") \cup Recorded("onshot")
  /\ Goes(w, Resting)

\* The objects of the pawn are drawn along with its own.
Draw(w) ==
  /\ worker[w].pc = "locked" /\ worker[w].locks = Maps
  /\ worker[w].drawn \notin Recorded("backtrack") \cup Recorded("onshot")
  /\ Goes(w, [worker[w] EXCEPT !.pc = "draw", !.owner = None,
       !.targets = IF disabled \/ worker[w].owner = None THEN {}
                   ELSE {objects[m][worker[w].owner] : m \in Maps} \ {None}])

\* Wrong variant: a lock that was taken alone is not given back.
FinishKeepsLock(w) ==
  /\ worker[w].pc \in {"engine", "draw"}
  /\ worker[w].locks \in {{}, Maps}
  /\ Goes(w, Resting)

Finish(w) ==
  /\ worker[w].pc \in {"engine", "draw"}
  /\ Goes(w, Resting)

----------------------------------------------------------------------------

WorkerStep(w) == TryLock(w) \/ LocksMissing(w) \/ SkipRecorded(w) \/ Draw(w) \/ Finish(w)
MutatorStep(t) == Visit(t) \/ Push(t) \/ LeaveMap(t)
Callbacks == FrameStage6 \/ FireShot \/ LevelShutdown \/ LevelInitialization \/ LevelEndsUnannounced

Next ==
  \/ Callbacks \/ Detach \/ SetReady \/ PlayersChange
  \/ \E t \in Mutators : Enter(t) \/ MutatorStep(t)
  \/ TearDown \/ SetUp \/ Unhook
  \/ \E w \in Workers : Arrive(w) \/ WorkerStep(w)

Spec == Init /\ [][Next]_vars

\* A thread that runs goes on, and one that waits for a map gets it if it is free
\* again and again.
FairSpec ==
  /\ Spec
  /\ \A t \in Mutators : SF_vars(Enter(t)) /\ WF_vars(MutatorStep(t))
  /\ SF_vars(TearDown) /\ WF_vars(SetUp)
  /\ \A w \in Workers : WF_vars(WorkerStep(w))

----------------------------------------------------------------------------
(* Properties                                                                *)

\* What a worker draws along with a pawn is in the scene, and under both locks it
\* never hands a recorded object on as if it were the host's (the two is_active
\* tests).  This needs the locks to be kept while it draws, and the cleanup that
\* level_initialization repeats.  Of a worker that missed a lock it says nothing:
\* that one hands on whatever it was given.
DrawsAreSafe ==
  \A w \in Workers : worker[w].pc = "draw" =>
    /\ worker[w].targets \subseteq scene
    /\ worker[w].drawn \notin Recorded("backtrack") \cup Recorded("onshot")

\* Through update, push and shutdown every object in the scene stays recorded, once,
\* but for two kinds: those lost in a fault of the engine, after which no more are
\* made, and those forgotten because there is no scene system to destroy them with.
ObjectsAccounted ==
  LET recorded == Recorded("backtrack") \cup Recorded("onshot") IN
  level # "gone" =>
    /\ scene = recorded \cup lost \cup forgotten
    /\ (lost \cup forgotten) \cap recorded = {}
    /\ lost # {} => disabled
    /\ forgotten # {} => ~scene_system
    /\ \A m, n \in Maps : \A p, q \in Pawns :
         objects[m][p] = objects[n][q] /\ objects[m][p] # None => m = n /\ p = q

\* The engine is never called on a dangling object, unless a level ended without
\* its callback and the next one has not begun, and a thread never tries a lock it
\* holds when it re-enters the hook.
HarmOnlyFromSkippedCallback == harm \subseteq IF skipped THEN {"dangling"} ELSE {}

\* A new level starts with no object and no shot of an earlier one, however that
\* one ended.
LevelStartsClean ==
  [][level # "up" /\ level' = "up" =>
       pending' = {} /\ \A m \in Maps, p \in Pawns : objects'[m][p] = None]_vars

\* When the hooks are gone nothing is left in the scene but what a frame that
\* came after the cleanup of the detaching thread has made, and what could not be
\* destroyed: lost in a fault, or forgotten for want of a scene system, in which case
\* all that this level has seen is left.
UnloadLeavesOnlyLate == ~hooked => scene \subseteq late \cup lost \cup forgotten

\* The callbacks of the game thread return: a worker cannot keep it out for good,
\* and no two threads wait for each other.
CallbacksReturn == todo["game"] # <<>> ~> todo["game"] = <<>>
============================================================================
