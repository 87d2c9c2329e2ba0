--------------------------- MODULE EventListeners ---------------------------
(***************************************************************************)
(* systems::events: listeners that are registered with the host's event    *)
(* manager by the thread that initialises the module, one after another.   *)
(* When an event is fired the host calls the listener on the game thread,  *)
(* which walks the list of all listeners to find the handler.  The list is *)
(* not locked.                                                             *)
(***************************************************************************)
EXTENDS Naturals, FiniteSets

CONSTANTS MaxListener   \* listeners are registered in the order 1..MaxListener

ASSUME ListenersAssumption == MaxListener \in Nat \ {0}

Listeners == 1..MaxListener

VARIABLES
  known,      \* listeners the host has registered
  list,       \* m_listeners
  registrar,  \* the initialising thread: what it does, and with which listener
  walk,       \* the listener whose handler the game thread looks for, or 0
  touched,    \* history: the list was changed, or about to be, since the walk began
  astray      \* history: a walk on a list nobody changed did not find the handler

eventVars == <<known, list, registrar, walk, touched, astray>>

EventsInit ==
  /\ known = {} /\ list = {}
  /\ registrar = [pc |-> "register", next |-> 1]
  /\ walk = 0 /\ touched = FALSE /\ astray = FALSE

\* register_listener: the host knows the listener first ...
Register ==
  /\ registrar.pc = "register"
  /\ known' = known \cup {registrar.next}
  /\ registrar' = [registrar EXCEPT !.pc = "push"]
  /\ UNCHANGED <<list, walk, touched, astray>>

\* ... and the list after it.
Push ==
  /\ registrar.pc = "push"
  /\ list' = list \cup {registrar.next} /\ touched' = TRUE
  /\ registrar' = IF registrar.next = MaxListener THEN [registrar EXCEPT !.pc = "registered"]
                  ELSE [pc |-> "register", next |-> registrar.next + 1]
  /\ UNCHANGED <<known, walk, astray>>

\* The host refuses, or a later stage of the initialisation fails; what is registered stays.
InitializationFails ==
  /\ registrar.pc \in {"register", "registered", "hooked"}
  /\ registrar' = [registrar EXCEPT !.pc = "failed"]
  /\ UNCHANGED <<known, list, walk, touched, astray>>

\* Later stages: the hooks are installed, and at the end the module is ready.
Initializes(from, to) ==
  /\ registrar.pc = from /\ registrar' = [registrar EXCEPT !.pc = to]
  /\ UNCHANGED <<known, list, walk, touched, astray>>

\* The host fires an event: fire_event looks for the listener that was called.
FireEvent(l) ==
  /\ walk = 0 /\ l \in known /\ walk' = l
  /\ touched' = (registrar.pc = "push")
  /\ UNCHANGED <<known, list, registrar, astray>>

EndWalk ==
  /\ walk # 0 /\ walk' = 0
  /\ astray' = (astray \/ (~touched /\ walk \notin list))
  /\ UNCHANGED <<known, list, registrar, touched>>

\* Wrong variant: a listener that was removed is not marked, so that nothing is removed.
SkipListener(l) ==
  /\ l \in list /\ touched' = TRUE
  /\ UNCHANGED <<known, list, registrar, walk, astray>>

\* events::shutdown has the host remove one listener after the other ...
RemoveListener(l) ==
  /\ l \in list /\ known' = known \ {l} /\ touched' = TRUE
  /\ UNCHANGED <<list, registrar, walk, astray>>

\* ... and clears the list.
ClearListeners ==
  /\ list' = {} /\ touched' = TRUE
  /\ UNCHANGED <<known, registrar, walk, astray>>
============================================================================
