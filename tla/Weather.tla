------------------------------ MODULE Weather ------------------------------
(***************************************************************************)
(* features::world::weather: one particle effect of the host's, made and   *)
(* driven by the game thread at every frame stage, and known only by its   *)
(* index in the host's particle manager.  The settings are edited on the   *)
(* render thread; the thread that unloads the module releases the effect,  *)
(* without a lock.  Nobody tells the class that the level has changed.     *)
(*                                                                         *)
(* An index is a number the host gives out again.  Where an effect is, the *)
(* wind and the color are left out.                                        *)
(***************************************************************************)
CONSTANTS
  Indices,   \* of the host's effects
  Types,     \* of weather
  None       \* no index, no type

ASSUME WeatherAssumption == None \notin Indices \cup Types /\ "host" \notin Types

VARIABLES
  effects,  \* what the manager has at an index: nothing, an effect of the host's, or a type of ours
  manager,  \* the host has a particle manager
  enabled,  \* settings: weather is shown
  type,     \* settings: which
  handle,   \* m_effect_index
  drawn,    \* m_last_particle_type
  frame,    \* the game thread: where it is, where it goes after a release, the index it was given
  carried,  \* history: the level changed since the handle was set
  edited,   \* history: the type was edited while the effect of the handle was made
  crossed,  \* history: a frame ran into the release by the unloading thread, or after it
  foreign   \* history: an effect of the host's was driven or destroyed in the level of the handle

weatherVars == <<effects, manager, enabled, type, handle, drawn, frame, carried, edited,
                 crossed, foreign>>

Settings == <<enabled, type>>
Host == <<effects, manager>>
Idle == [at |-> "idle", then |-> "idle", made |-> None]
GoTo(s) == frame' = [frame EXCEPT !.at = s]
ReleaseThen(s) == frame' = [frame EXCEPT !.at = "release", !.then = s]

WeatherInit ==
  /\ effects = [i \in Indices |-> None] /\ manager = TRUE
  /\ enabled = FALSE /\ type \in Types
  /\ handle = None /\ drawn = None /\ frame = Idle
  /\ carried = FALSE /\ edited = FALSE /\ crossed = FALSE /\ foreign = FALSE

----------------------------------------------------------------------------
(* release_particles, by either thread                                       *)

\* Is the effect the handle names one of the host's, though the level is the same?
Foreign == handle # None /\ manager /\ effects[handle] = "host" /\ ~carried

\* Wrong variant: the effect is not destroyed.
LeaveEffect == UNCHANGED effects

\* particle_destroy_effect, if there is a manager.
DestroyEffect ==
  effects' = IF handle # None /\ manager THEN [effects EXCEPT ![handle] = None] ELSE effects

ForgetEffect == handle' = None /\ drawn' = None /\ carried' = FALSE

\* The handle is tested, and the effect destroyed ...
BeginRelease ==
  /\ frame.at = "release"
  /\ GoTo(IF handle = None THEN frame.then ELSE "forget")
  /\ DestroyEffect /\ foreign' = (foreign \/ Foreign)
  /\ UNCHANGED <<manager, Settings, handle, drawn, carried, edited, crossed>>

\* ... and then it is forgotten.
EndRelease ==
  /\ frame.at = "forget" /\ GoTo(frame.then)
  /\ ForgetEffect
  /\ UNCHANGED <<Host, Settings, edited, crossed, foreign>>

\* weather::release when the module is unloaded; a frame may be about to set the handle.
UnloadFindsNone ==
  /\ handle = None /\ crossed' = (crossed \/ frame # Idle)
  /\ UNCHANGED <<Host, Settings, handle, drawn, frame, carried, edited, foreign>>

UnloadDestroys ==
  /\ handle # None /\ DestroyEffect
  /\ foreign' = (foreign \/ Foreign) /\ crossed' = (crossed \/ frame # Idle)
  /\ UNCHANGED <<manager, Settings, handle, drawn, frame, carried, edited>>

UnloadForgets ==
  /\ ForgetEffect /\ crossed' = (crossed \/ frame # Idle)
  /\ UNCHANGED <<Host, Settings, frame, edited, foreign>>

----------------------------------------------------------------------------
(* on_frame_stage_notify and update_particles, on the game thread            *)

\* Weather that is off, or a game without rules, has no effect; a new round has a new one.
Frame(released) ==
  /\ frame = Idle /\ crossed' = (crossed \/ released)
  /\ IF ~enabled THEN ReleaseThen("off")
     ELSE ReleaseThen("idle") \/ ReleaseThen("update") \/ GoTo("update")
  /\ UNCHANGED <<Host, Settings, handle, drawn, carried, edited, foreign>>

Off ==
  /\ frame.at = "off" /\ frame' = Idle /\ drawn' = None
  /\ UNCHANGED <<Host, Settings, handle, carried, edited, crossed, foreign>>

\* After a release the frame ends, or goes on.
Leave ==
  /\ frame.at = "idle" /\ frame # Idle /\ frame' = Idle
  /\ UNCHANGED <<Host, Settings, handle, drawn, carried, edited, crossed, foreign>>

\* An effect of another type than the one that is set is given up.
Update ==
  /\ frame.at = "update"
  /\ IF handle # None /\ drawn # type THEN ReleaseThen("ensure") ELSE GoTo("ensure")
  /\ UNCHANGED <<Host, Settings, handle, drawn, carried, edited, crossed, foreign>>

\* create_particle: the host gives an index, if it has a manager; it may give none.
CreateParticle ==
  /\ frame.at = "ensure" /\ handle = None
  /\ \/ frame' = Idle /\ UNCHANGED <<effects, edited>>
     \/ /\ manager /\ edited' = FALSE
        /\ \E i \in Indices : /\ effects[i] = None
                              /\ effects' = [effects EXCEPT ![i] = type]
                              /\ frame' = [at |-> "store", then |-> "idle", made |-> i]
  /\ UNCHANGED <<manager, Settings, handle, drawn, carried, crossed, foreign>>

\* The type is read again to be remembered.
StoreParticle ==
  /\ frame.at = "store" /\ GoTo("drive")
  /\ handle' = frame.made /\ drawn' = type /\ carried' = FALSE
  /\ UNCHANGED <<Host, Settings, edited, crossed, foreign>>

\* The effect is moved with the player, whatever has become of it.
Drive ==
  /\ \/ frame.at = "drive"
     \/ frame.at = "ensure" /\ handle # None
  /\ frame' = Idle /\ foreign' = (foreign \/ Foreign)
  /\ UNCHANGED <<Host, Settings, handle, drawn, carried, edited, crossed>>

WeatherFrame == \/ BeginRelease \/ EndRelease \/ Off \/ Leave \/ Update
                \/ CreateParticle \/ StoreParticle \/ Drive

----------------------------------------------------------------------------
(* The menu and the host                                                     *)

Edit ==
  /\ \/ enabled' = ~enabled /\ UNCHANGED <<type, edited>>
     \/ /\ type' \in Types \ {type} /\ UNCHANGED enabled
        /\ edited' = (edited \/ frame.at = "store")
  /\ UNCHANGED <<Host, handle, drawn, frame, carried, crossed, foreign>>

\* The host makes and ends effects of its own, with indices that are free.
HostEffect(i) ==
  /\ manager
  /\ \/ effects[i] = None /\ effects' = [effects EXCEPT ![i] = "host"]
     \/ effects[i] = "host" /\ effects' = [effects EXCEPT ![i] = None]
  /\ UNCHANGED <<manager, Settings, handle, drawn, frame, carried, edited, crossed, foreign>>

\* A level ends with all its effects, and maybe with the manager; another begins.
LevelChange ==
  /\ frame = Idle
  /\ effects' = [i \in Indices |-> None] /\ manager' \in BOOLEAN
  /\ carried' = (handle # None)
  /\ UNCHANGED <<Settings, handle, drawn, frame, edited, crossed, foreign>>

----------------------------------------------------------------------------
(* Properties                                                                *)

Ours == {i \in Indices : effects[i] \in Types}

\* An effect of the host's is touched only if a frame ran into the unloading, or if the
\* level changed under the handle. Otherwise, between frames, an effect that is ours is
\* the one the handle names: none is lost when the weather is switched off or changed,
\* when a round begins or the manager is gone. It is of the type that is remembered, unless
\* the type was edited while it was made.
EffectIsOurs ==
  /\ foreign => crossed
  /\ frame = Idle /\ ~crossed /\ ~carried =>
       /\ Ours \subseteq {handle}
       /\ \A i \in Ours : effects[i] = drawn \/ edited
============================================================================
