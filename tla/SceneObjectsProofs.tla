------------------------- MODULE SceneObjectsProofs -------------------------
(***************************************************************************)
(* The safety properties of the scene objects, for any pawns, addresses    *)
(* and workers.                                                            *)
(***************************************************************************)
EXTENDS SceneObjects, SequenceTheorems, TLAPS

\* What a callback has still to go through.
End(x) == [map |-> None, job |-> x]
Ends == {"tear down", "set up", "unhook"}
Frame2 == <<Update("backtrack"), Update("onshot")>>
Frame1 == <<Update("onshot")>>
Shot == <<[map |-> "onshot", job |-> "push"]>>
Away3(x) == <<Shutdown("backtrack"), Shutdown("onshot"), End(x)>>
Away2(x) == <<Shutdown("onshot"), End(x)>>
Away1(x) == <<End(x)>>
Aways(x) == {Away3(x), Away2(x), Away1(x)}

GamePlans == {<<>>, Frame2, Frame1, Shot} \cup Aways("tear down") \cup Aways("set up")
DetachPlans == {<<>>} \cup Aways("unhook")

Sections == [map : Maps \cup {None}, job : {"none", "update", "shutdown", "push"}, left : SUBSET Pawns]
Works == [pc : Maps \cup {"idle", "locked", "engine", "draw"}, drawn : Objects \cup {None},
          owner : Pawns \cup {None}, locks : SUBSET Maps, targets : SUBSET Objects]

Typed ==
  /\ level \in {"up", "going", "down", "gone"} /\ pawns \in SUBSET Pawns
  /\ scene \in SUBSET Objects /\ objects \in [Maps -> [Pawns -> Objects \cup {None}]]
  /\ pending \in SUBSET Pawns
  /\ todo["game"] \in GamePlans /\ todo["detach"] \in DetachPlans /\ DOMAIN todo = Mutators
  /\ section \in [Mutators -> Sections] /\ mutating \in [Mutators -> BOOLEAN]
  /\ worker \in [Workers -> Works]
  /\ disabled \in BOOLEAN /\ ready \in BOOLEAN /\ hooked \in BOOLEAN /\ skipped \in BOOLEAN
  /\ scene_system \in BOOLEAN /\ lost \in SUBSET Objects /\ forgotten \in SUBSET Objects
  /\ late \in SUBSET Objects

\* A thread in a section is at the head of its list, marked if the section makes or
\* destroys objects, and alone in the section's map.
Ordered ==
  /\ \A t \in Mutators :
       IF section[t].map = None THEN section[t] = NoSection
       ELSE /\ todo[t] # <<>> /\ section[t].map = Head(todo[t]).map
            /\ section[t].job = Head(todo[t]).job
  /\ \A t \in Mutators : section[t].job \in {"update", "shutdown"} => mutating[t]
  /\ section["game"].map = section["detach"].map => section["game"].map = None
  /\ todo["game"] = Shot => level = "up"

\* A worker's locks keep the sections out, and it draws while the level is there.
Locked ==
  /\ \A w \in Workers : \A m \in worker[w].locks : ~Exclusive(m)
  /\ \A w \in Workers : worker[w].pc = "draw" => worker[w].locks = Maps
  /\ \A w \in Workers : worker[w] # Resting => level \in {"up", "going"}

\* A level whose end nobody heard of has taken its objects with it.
Accounted == ObjectsAccounted /\ (level = "gone" => scene = {} /\ lost = {} /\ forgotten = {} /\ skipped)

Cleaned(m, p) == objects[m][p] = None /\ (m = "onshot" => p \notin pending)
Clean(m) == \A p \in Pawns : Cleaned(m, p)

\* What has been shut down so far is empty.
Emptied ==
  /\ \A t \in Mutators : section[t].job = "shutdown" =>
       \A p \in Pawns \ section[t].left : Cleaned(section[t].map, p)
  /\ \A x \in Ends : todo["game"] \in {Away2(x), Away1(x)} => Clean("backtrack")
  /\ \A x \in Ends : todo["game"] = Away1(x) => Clean("onshot")
  /\ level = "down" => Clean("backtrack") /\ Clean("onshot")

\* What is in a map the detaching thread has been through came after it.
Late ==
  /\ level # "gone" => \A m \in Maps : DetachPast(m) => Recorded(m) \subseteq late
  /\ ~hooked => Idle("game") /\ Idle("detach") /\ UnloadLeavesOnlyLate

SInv == Typed /\ Ordered /\ Locked /\ Accounted /\ Emptied /\ Late /\ DrawsAreSafe /\ HarmOnlyFromSkippedCallback

----------------------------------------------------------------------------
(* The lists                                                                 *)

LEMMA Lengths ==
  /\ Len(Frame2) = 2 /\ Len(Frame1) = 1 /\ Len(Shot) = 1
  /\ \A x : Len(Away3(x)) = 3 /\ Len(Away2(x)) = 2 /\ Len(Away1(x)) = 1
  BY DEF Frame2, Frame1, Shot, Away3, Away2, Away1

LEMMA NotEmpty ==
  /\ Frame2 # <<>> /\ Frame1 # <<>> /\ Shot # <<>>
  /\ \A x : Away3(x) # <<>> /\ Away2(x) # <<>> /\ Away1(x) # <<>>
  BY DEF Frame2, Frame1, Shot, Away3, Away2, Away1

LEMMA Heads ==
  /\ Head(Frame2) = Update("backtrack") /\ Head(Frame1) = Update("onshot")
  /\ Head(Shot) = [map |-> "onshot", job |-> "push"]
  /\ \A x : /\ Head(Away3(x)) = Shutdown("backtrack") /\ Head(Away2(x)) = Shutdown("onshot")
            /\ Head(Away1(x)) = End(x)
  BY DEF Frame2, Frame1, Shot, Away3, Away2, Away1

LEMMA Tails ==
  /\ Tail(Frame2) = Frame1 /\ Tail(Frame1) = <<>> /\ Tail(Shot) = <<>>
  /\ \A x : Tail(Away3(x)) = Away2(x) /\ Tail(Away2(x)) = Away1(x) /\ Tail(Away1(x)) = <<>>
  BY DEF Frame2, Frame1, Shot, Away3, Away2, Away1

LEMMA Lists ==
  /\ Both(Update) = Frame2
  /\ <<[map |-> "onshot", job |-> "push"]>> = Shot
  /\ \A x : Append(Both(Shutdown), [map |-> None, job |-> x]) = Away3(x)
<1>1. Both(Update) = Frame2 /\ <<[map |-> "onshot", job |-> "push"]>> = Shot
  BY DEF Frame2, Shot, Both
<1>2. Both(Shutdown) = <<Shutdown("backtrack"), Shutdown("onshot")>>
  BY DEF Both
<1>3. ASSUME NEW a, NEW b, NEW c PROVE Append(<<a, b>>, c) = <<a, b, c>>
  <2>1. <<a, b>> \in Seq({a, b, c}) /\ <<a, b, c>> \in Seq({a, b, c})
    OBVIOUS
  <2>2. /\ Append(<<a, b>>, c) \in Seq({a, b, c}) /\ Len(Append(<<a, b>>, c)) = 3
        /\ Append(<<a, b>>, c)[1] = a /\ Append(<<a, b>>, c)[2] = b /\ Append(<<a, b>>, c)[3] = c
    BY <2>1, AppendProperties
  <2>3. \A i \in 1..3 : Append(<<a, b>>, c)[i] = <<a, b, c>>[i]
    BY <2>2
  <2> QED BY <2>1, <2>2, <2>3, SeqEqual
<1> QED BY <1>1, <1>2, <1>3 DEF Away3, End

\* Which job a list begins with says which list it is.
LEMMA Jobs ==
  /\ Head(Frame2).job = "update" /\ Head(Frame1).job = "update" /\ Head(Shot).job = "push"
  /\ \A x : Head(Away3(x)).job = "shutdown" /\ Head(Away2(x)).job = "shutdown" /\ Head(Away1(x)).job = x
  /\ Head(Frame2).map = "backtrack" /\ Head(Frame1).map = "onshot" /\ Head(Shot).map = "onshot"
  /\ \A x : Head(Away3(x)).map = "backtrack" /\ Head(Away2(x)).map = "onshot" /\ Head(Away1(x)).map = None
  BY Heads DEF Update, Shutdown, End

\* What the detaching thread has been through.
PastIs ==
  /\ todo["detach"] = <<>> => ~DetachPast("backtrack") /\ ~DetachPast("onshot")
  /\ \A x \in Ends :
       /\ todo["detach"] = Away3(x) => ~DetachPast("backtrack") /\ ~DetachPast("onshot")
       /\ todo["detach"] = Away2(x) => DetachPast("backtrack") /\ ~DetachPast("onshot")
       /\ todo["detach"] = Away1(x) => DetachPast("backtrack") /\ DetachPast("onshot")

LEMMA Past == PastIs
<1> USE SceneAssumption DEF Maps
<1>1. Shutdown("backtrack") # Shutdown("onshot") /\ \A x \in Ends, m \in Maps : Shutdown(m) # End(x)
  BY DEF Shutdown, End, Ends
<1>2. ASSUME NEW x \in Ends
      PROVE  /\ todo["detach"] = Away3(x) => ~DetachPast("backtrack") /\ ~DetachPast("onshot")
             /\ todo["detach"] = Away2(x) => DetachPast("backtrack") /\ ~DetachPast("onshot")
             /\ todo["detach"] = Away1(x) => DetachPast("backtrack") /\ DetachPast("onshot")
  <2>1. CASE todo["detach"] = Away3(x)
    <3>1. DOMAIN Away3(x) = {1, 2, 3} /\ Away3(x)[1] = Shutdown("backtrack") /\ Away3(x)[2] = Shutdown("onshot")
      BY DEF Away3
    <3>2. Away3(x) # Away2(x) /\ Away3(x) # Away1(x)
      BY Lengths
    <3> QED BY <2>1, <3>1, <3>2 DEF DetachPast
  <2>2. CASE todo["detach"] = Away2(x)
    <3>1. DOMAIN Away2(x) = {1, 2} /\ Away2(x)[1] = Shutdown("onshot") /\ Away2(x)[2] = End(x)
      BY DEF Away2
    <3>2. Away2(x) # Away1(x) /\ Away2(x) # Away3(x)
      BY Lengths
    <3> QED BY <1>1, <2>2, <3>1, <3>2, NotEmpty DEF DetachPast
  <2>3. CASE todo["detach"] = Away1(x)
    <3>1. DOMAIN Away1(x) = {1} /\ Away1(x)[1] = End(x)
      BY DEF Away1
    <3>2. Away1(x) # Away2(x) /\ Away1(x) # Away3(x)
      BY Lengths
    <3> QED BY <1>1, <2>3, <3>1, <3>2, NotEmpty DEF DetachPast
  <2> QED BY <2>1, <2>2, <2>3
<1> QED BY <1>2 DEF DetachPast, PastIs

\* No two of the lists are the same.
LEMMA Differ ==
  /\ \A x : Frame2 # Away3(x) /\ Frame2 # Away2(x) /\ Frame1 # Away2(x) /\ Shot # Away3(x) /\ Shot # Away2(x)
            /\ Frame1 # Away3(x)
  /\ \A x, y : Away3(x) # Away2(y) /\ Away3(x) # Away1(y) /\ Away2(x) # Away1(y)
  /\ \A x \in Ends : Frame2 # Away1(x) /\ Frame1 # Away1(x) /\ Shot # Away1(x)
  /\ Frame2 # Shot /\ Frame1 # Shot
<1>1. \A x : Frame2 # Away3(x) /\ Frame2 # Away2(x) /\ Frame1 # Away2(x) /\ Shot # Away3(x) /\ Shot # Away2(x)
             /\ Frame1 # Away3(x)
  BY Jobs
<1>2. \A x, y : Away3(x) # Away2(y) /\ Away3(x) # Away1(y) /\ Away2(x) # Away1(y)
  BY Lengths
<1>3. \A x \in Ends : Frame2 # Away1(x) /\ Frame1 # Away1(x) /\ Shot # Away1(x)
  BY Jobs DEF Ends
<1>4. Frame2 # Shot /\ Frame1 # Shot
  BY Jobs
<1> QED BY <1>1, <1>2, <1>3, <1>4

\* The sections that a list can begin with.
LEMMA Sectioned ==
  ASSUME Typed, NEW t \in Mutators, todo[t] # <<>>, Head(todo[t]).map # None
  PROVE  LET s == Head(todo[t]) IN
         /\ s.map \in Maps /\ s.job \in {"update", "push", "shutdown"}
         /\ s.job = "update" =>
              /\ t = "game"
              /\ \/ todo[t] = Frame2 /\ s.map = "backtrack"
                 \/ todo[t] = Frame1 /\ s.map = "onshot"
         /\ s.job = "push" => t = "game" /\ todo[t] = Shot /\ s.map = "onshot"
         /\ s.job = "shutdown" => \E x \in Ends :
              /\ t = "detach" <=> x = "unhook"
              /\ \/ todo[t] = Away3(x) /\ s.map = "backtrack"
                 \/ todo[t] = Away2(x) /\ s.map = "onshot"
<1> DEFINE s == Head(todo[t])
<1>1. ASSUME NEW x \in Ends, todo[t] \in Aways(x)
      PROVE  /\ s.map \in Maps /\ s.job = "shutdown"
             /\ \/ todo[t] = Away3(x) /\ s.map = "backtrack"
                \/ todo[t] = Away2(x) /\ s.map = "onshot"
  <2>1. /\ Head(Away1(x)).map = None
        /\ Head(Away3(x)).map = "backtrack" /\ Head(Away3(x)).job = "shutdown"
        /\ Head(Away2(x)).map = "onshot" /\ Head(Away2(x)).job = "shutdown"
    BY Jobs
  <2>2. todo[t] # Away1(x)
    BY <2>1, Zenon
  <2>3. CASE todo[t] = Away3(x)
    BY <2>1, <2>3, Zenon DEF Maps
  <2>4. CASE todo[t] = Away2(x)
    BY <2>1, <2>4, Zenon DEF Maps
  <2> QED BY <1>1, <2>2, <2>3, <2>4 DEF Aways
<1>2. CASE t = "game"
  <2>1. todo[t] \in {Frame2, Frame1, Shot} \cup Aways("tear down") \cup Aways("set up")
    BY <1>2 DEF Typed, GamePlans
  <2>2. CASE todo[t] \in {Frame2, Frame1, Shot}
    BY <1>2, <2>2, Jobs DEF Maps
  <2>3. CASE todo[t] \in Aways("tear down") \cup Aways("set up")
    BY <1>1, <1>2, <2>3 DEF Ends
  <2> QED BY <2>1, <2>2, <2>3
<1>3. CASE t = "detach"
  <2>1. todo[t] \in Aways("unhook")
    BY <1>3 DEF Typed, DetachPlans
  <2> QED BY <1>1, <1>3, <2>1 DEF Ends
<1> QED BY <1>2, <1>3 DEF Mutators

\* What a thread in a section has still to do.
LEMMA Doing ==
  ASSUME Typed, Ordered, NEW t \in Mutators, section[t].map # None
  PROVE  /\ todo[t] # <<>> /\ section[t].map \in Maps
         /\ section[t].job \in {"update", "push", "shutdown"}
         /\ section[t].job = "update" =>
              /\ t = "game"
              /\ \/ todo[t] = Frame2 /\ section[t].map = "backtrack"
                 \/ todo[t] = Frame1 /\ section[t].map = "onshot"
         /\ section[t].job = "push" => t = "game" /\ todo[t] = Shot /\ section[t].map = "onshot"
         /\ section[t].job = "shutdown" => \E x \in Ends :
              /\ t = "detach" <=> x = "unhook"
              /\ \/ todo[t] = Away3(x) /\ section[t].map = "backtrack"
                 \/ todo[t] = Away2(x) /\ section[t].map = "onshot"
<1>1. todo[t] # <<>> /\ section[t].map = Head(todo[t]).map /\ section[t].job = Head(todo[t]).job
  BY DEF Ordered
<1>2. Head(todo[t]).map # None
  BY <1>1
<1> QED BY <1>1, <1>2, Sectioned

----------------------------------------------------------------------------
(* A callback is given its list                                              *)

LEMMA InitSInv == Init => SInv
<1> SUFFICES ASSUME Init PROVE SInv
  OBVIOUS
<1> USE SceneAssumption DEF Init
<1>1. Typed
  BY DEF Typed, GamePlans, DetachPlans, Mutators, Sections, NoSection, Works, Resting
<1>2. Ordered
  <2>1. \A t \in Mutators : section[t].map = None /\ section[t].job = "none" /\ todo[t] = <<>>
    BY DEF NoSection
  <2> QED BY <2>1, NotEmpty DEF Ordered, Mutators
<1>3. Locked
  BY DEF Locked, Resting
<1>4. \A m \in Maps : Recorded(m) = {} /\ Clean(m)
  BY DEF Recorded, Clean, Cleaned
<1>5. Accounted
  BY <1>4 DEF Accounted, ObjectsAccounted, Maps
<1>6. Emptied
  BY <1>4, NotEmpty DEF Emptied, NoSection, Maps, Mutators
<1>7. Late
  BY <1>4 DEF Late
<1>8. DrawsAreSafe /\ HarmOnlyFromSkippedCallback
  BY DEF DrawsAreSafe, HarmOnlyFromSkippedCallback, Resting
<1> QED BY <1>1, <1>2, <1>3, <1>5, <1>6, <1>7, <1>8 DEF SInv

\* What the game and the detaching thread can be given to do.
Given(t, jobs) ==
  /\ t = "game" => jobs \in {Frame2, Shot, Away3("tear down"), Away3("set up")}
  /\ t = "detach" => jobs = Away3("unhook")
  /\ jobs = Shot => level' = "up"

LEMMA ScheduleSInv ==
  ASSUME SInv, NEW t \in Mutators, NEW jobs, Schedule(t, jobs), Given(t, jobs),
         level' = level \/ (t = "game" /\ level = "up" /\ level' = "going"),
         UNCHANGED <<pawns, hooked, ready, scene_system, history>>
  PROVE  SInv'
<1> USE DEF Mutators
<1>1. /\ todo' = [todo EXCEPT ![t] = jobs] /\ hooked
      /\ UNCHANGED <<section, mutating, scene, objects, pending, disabled, worker, pawns, hooked, ready,
                     skipped, lost, forgotten, late, harm, scene_system>>
  BY DEF Schedule, history
<1>2. DOMAIN todo = {"game", "detach"} /\ level \in {"up", "going", "down", "gone"}
  BY DEF SInv, Typed
<1>3. todo'[t] = jobs /\ \A u \in Mutators : u # t => todo'[u] = todo[u]
  BY <1>1, <1>2
<1>4. jobs \in {Frame2, Shot, Away3("tear down"), Away3("set up"), Away3("unhook")} /\ jobs # <<>>
  BY NotEmpty DEF Given
<1>5. Typed'
  <2>1. todo'["game"] \in GamePlans /\ todo'["detach"] \in DetachPlans
    BY <1>3 DEF SInv, Typed, Given, GamePlans, DetachPlans, Aways
  <2> QED BY <1>1, <1>2, <2>1 DEF SInv, Typed
<1>6. section[t] = NoSection /\ NoSection.map = None /\ NoSection.job = "none" /\ todo[t] = <<>>
  BY DEF Schedule, Idle, NoSection
<1>7. Ordered'
  <2>1. \A u \in Mutators : (IF section[u].map = None THEN section[u] = NoSection
            ELSE todo[u] # <<>> /\ section[u].map = Head(todo[u]).map /\ section[u].job = Head(todo[u]).job)'
    BY <1>1, <1>3, <1>6 DEF SInv, Ordered
  <2>2. todo'["game"] = Shot => level' = "up"
    BY <1>3, Differ DEF SInv, Ordered, Given
  <2> QED BY <1>1, <2>1, <2>2 DEF SInv, Ordered
<1>8. Locked' /\ Accounted'
  BY <1>1 DEF SInv, Locked, Accounted, ObjectsAccounted, Recorded, Exclusive
<1>9. \A m : Clean(m)' <=> Clean(m)
  BY <1>1 DEF Clean, Cleaned
<1>10. Emptied'
  <2>1. \A x \in Ends : todo'["game"] \in {Away2(x), Away1(x)} => todo'["game"] = todo["game"]
    BY <1>3, Differ DEF Given
  <2> QED BY <1>1, <1>9, <2>1, Differ DEF SInv, Emptied, Cleaned
<1>11. Late'
  <2>1. \A m \in Maps : DetachPast(m)' => DetachPast(m)
    <3>1. CASE t = "detach"
      <4>1. todo'["detach"] = Away3("unhook")
        BY <1>3, <3>1 DEF Given
      <4>2. PastIs'
        BY Past, PTL
      <4> QED BY <4>1, <4>2 DEF PastIs, Ends, Maps
    <3>2. CASE t # "detach"
      BY <1>3, <3>2 DEF DetachPast
    <3> QED BY <3>1, <3>2
  <2> QED BY <1>1, <2>1 DEF SInv, Late, Recorded
<1>12. DrawsAreSafe' /\ HarmOnlyFromSkippedCallback'
  BY <1>1 DEF SInv, DrawsAreSafe, Recorded, HarmOnlyFromSkippedCallback
<1> QED BY <1>5, <1>7, <1>8, <1>10, <1>11, <1>12 DEF SInv


----------------------------------------------------------------------------
(* A section begins and ends                                                 *)

LEMMA EnterSInv ==
  ASSUME SInv, NEW t \in Mutators, Enter(t)
  PROVE  SInv'
<1> DEFINE s == Head(todo[t])
<1>1. /\ section[t] = NoSection /\ todo[t] # <<>> /\ s.map # None /\ ~Exclusive(s.map) /\ ~Shared(s.map)
      /\ section' = [section EXCEPT ![t] = [map |-> s.map, job |-> s.job, left |-> Pawns]]
      /\ mutating' = [mutating EXCEPT ![t] = s.job # "push"]
      /\ UNCHANGED <<todo, level, pawns, hooked, ready, scene, objects, pending, disabled, worker,
                     skipped, lost, forgotten, late, harm, scene_system>>
  BY DEF Enter, host, history
<1> HIDE DEF s
<1>2. s.map \in Maps /\ s.job \in {"update", "push", "shutdown"}
  BY <1>1, Sectioned DEF SInv, s
<1>3. /\ section' \in [Mutators -> Sections] /\ mutating' \in [Mutators -> BOOLEAN]
      /\ section'[t] = [map |-> s.map, job |-> s.job, left |-> Pawns]
      /\ \A u \in Mutators : u # t => section'[u] = section[u] /\ mutating'[u] = mutating[u]
      /\ mutating'[t] = (s.job # "push")
  BY <1>1, <1>2 DEF SInv, Typed, Sections
<1>4. Typed'
  BY <1>1, <1>3 DEF SInv, Typed
<1>5. Ordered'
  <2>1. \A u \in Mutators : (IF section[u].map = None THEN section[u] = NoSection
            ELSE todo[u] # <<>> /\ section[u].map = Head(todo[u]).map /\ section[u].job = Head(todo[u]).job)'
    BY <1>1, <1>3 DEF SInv, Ordered, s
  <2>2. \A u \in Mutators : section'[u].job \in {"update", "shutdown"} => mutating'[u]
    BY <1>2, <1>3 DEF SInv, Ordered
  <2>3. section'["game"].map = section'["detach"].map => section'["game"].map = None
    BY <1>1, <1>3 DEF SInv, Ordered, Exclusive, Mutators
  <2> QED BY <1>1, <2>1, <2>2, <2>3 DEF SInv, Ordered
<1>6. Locked'
  <2>1. \A w \in Workers : \A m \in worker[w].locks : m # s.map
    BY <1>1 DEF Shared
  <2> QED BY <1>1, <1>3, <2>1 DEF SInv, Locked, Exclusive
<1>7. Accounted' /\ DrawsAreSafe' /\ HarmOnlyFromSkippedCallback'
  BY <1>1 DEF SInv, Accounted, ObjectsAccounted, Recorded, DrawsAreSafe, HarmOnlyFromSkippedCallback
<1>8. Emptied'
  <2>1. \A m : \A u \in Mutators : section'[u].job = "shutdown" /\ section'[u].map = m =>
           \A p \in Pawns \ section'[u].left : Cleaned(m, p)'
    BY <1>1, <1>3 DEF SInv, Emptied, Cleaned
  <2> QED BY <1>1, <2>1 DEF SInv, Emptied, Clean, Cleaned
<1>9. Late'
  BY <1>1 DEF SInv, Late, Idle, DetachPast, Recorded, UnloadLeavesOnlyLate, Mutators
<1> QED BY <1>4, <1>5, <1>6, <1>7, <1>8, <1>9 DEF SInv

\* The section is given up, and with it what the shots need not wait for.
LEMMA LeaveSInv ==
  ASSUME SInv, NEW t \in Mutators, section[t].map # None, Leave(t),
         section[t].job = "shutdown" => section[t].left = {},
         pending' \in SUBSET Pawns, section[t].job # "push" => pending' = pending,
         UNCHANGED <<host, scene, objects, disabled, worker, history>>
  PROVE  SInv'
<1>1. /\ section' = [section EXCEPT ![t] = NoSection] /\ mutating' = [mutating EXCEPT ![t] = FALSE]
      /\ todo' = [todo EXCEPT ![t] = Tail(@)]
      /\ UNCHANGED <<level, pawns, hooked, ready, scene, objects, disabled, worker,
                     skipped, lost, forgotten, late, harm, scene_system>>
  BY DEF Leave, host, history
<1>2. NoSection \in Sections /\ NoSection.map = None /\ NoSection.job = "none"
  BY DEF NoSection, Sections
<1>3. DOMAIN todo = Mutators /\ section \in [Mutators -> Sections] /\ mutating \in [Mutators -> BOOLEAN]
  BY DEF SInv, Typed
<1>4. /\ section' \in [Mutators -> Sections] /\ mutating' \in [Mutators -> BOOLEAN] /\ DOMAIN todo' = Mutators
      /\ section'[t] = NoSection /\ todo'[t] = Tail(todo[t])
      /\ \A u \in Mutators : u # t => section'[u] = section[u] /\ mutating'[u] = mutating[u] /\ todo'[u] = todo[u]
  BY <1>1, <1>2, <1>3
<1>5. /\ todo[t] # <<>> /\ section[t].map \in Maps
      /\ section[t].job \in {"update", "push", "shutdown"}
      /\ section[t].job = "update" => t = "game" /\ todo'[t] \in {Frame1, <<>>}
      /\ section[t].job = "push" => t = "game" /\ todo'[t] = <<>> /\ section[t].map = "onshot"
      /\ section[t].job = "shutdown" => \E x \in Ends :
              /\ t = "detach" <=> x = "unhook"
              /\ \/ todo[t] = Away3(x) /\ todo'[t] = Away2(x) /\ section[t].map = "backtrack"
                 \/ todo[t] = Away2(x) /\ todo'[t] = Away1(x) /\ section[t].map = "onshot"
  BY <1>4, Doing, Tails DEF SInv
<1>6. Typed'
  <2>1. CASE t = "game"
    <3>1. todo'["game"] \in GamePlans
      BY <1>5, <2>1 DEF GamePlans, Aways, Ends
    <3> QED BY <1>1, <1>4, <2>1, <3>1 DEF SInv, Typed, Mutators
  <2>2. CASE t = "detach"
    <3>1. todo'["detach"] \in DetachPlans
      BY <1>5, <2>2 DEF DetachPlans, Aways, Ends
    <3> QED BY <1>1, <1>4, <2>2, <3>1 DEF SInv, Typed, Mutators
  <2> QED BY <2>1, <2>2 DEF Mutators
<1>7. todo'["game"] = Shot => t # "game" /\ todo["game"] = Shot
  BY <1>4, <1>5, Differ, NotEmpty DEF Mutators
<1>8. Ordered'
  <2>1. \A u \in Mutators : (IF section[u].map = None THEN section[u] = NoSection
            ELSE todo[u] # <<>> /\ section[u].map = Head(todo[u]).map /\ section[u].job = Head(todo[u]).job)'
    BY <1>2, <1>4 DEF SInv, Ordered
  <2>2. \A u \in Mutators : section'[u].job \in {"update", "shutdown"} => mutating'[u]
    BY <1>2, <1>4 DEF SInv, Ordered
  <2>3. section'["game"].map = section'["detach"].map => section'["game"].map = None
    BY <1>2, <1>4 DEF SInv, Ordered, Mutators
  <2> QED BY <1>1, <1>7, <2>1, <2>2, <2>3 DEF SInv, Ordered
<1>9. Locked'
  <2>1. \A m : Exclusive(m)' /\ m # None => Exclusive(m)
    BY <1>2, <1>4 DEF Exclusive
  <2>2. \A w \in Workers : worker[w].locks \subseteq Maps
    BY DEF SInv, Typed, Works
  <2> QED BY <1>1, <2>1, <2>2, SceneAssumption DEF SInv, Locked
<1>10. Accounted' /\ DrawsAreSafe' /\ HarmOnlyFromSkippedCallback'
  BY <1>1 DEF SInv, Accounted, ObjectsAccounted, Recorded, DrawsAreSafe, HarmOnlyFromSkippedCallback
<1>11. \A m, p : Cleaned(m, p) => Cleaned(m, p)' \/ (m = "onshot" /\ section[t].job = "push")
  BY <1>1 DEF Cleaned
<1>12. \A m : section[t].job = "shutdown" /\ section[t].map = m => Clean(m)'
  BY <1>11 DEF SInv, Emptied, Clean
<1>13. \A m : Clean(m) => Clean(m)' \/ (m = "onshot" /\ section[t].job = "push")
  BY <1>11 DEF Clean
<1>14. Emptied'
  <2>1. \A m : \A u \in Mutators : section'[u].job = "shutdown" /\ section'[u].map = m =>
           \A p \in Pawns \ section'[u].left : Cleaned(m, p)'
    <3> TAKE m
    <3> TAKE u \in Mutators
    <3>1. CASE u = t
      BY <1>2, <1>4, <3>1
    <3>2. CASE u # t
      <4>1. section[t].map # section[u].map
        BY <3>2 DEF SInv, Ordered, Mutators
      <4> QED BY <1>4, <1>5, <1>11, <3>2, <4>1 DEF SInv, Emptied
    <3> QED BY <3>1, <3>2
  <2>2. level' = "down" => Clean("backtrack")' /\ Clean("onshot")'
    <3>1. section[t].job = "push" => level = "up"
      BY Doing DEF SInv, Ordered
    <3> QED BY <1>1, <1>13, <3>1 DEF SInv, Emptied
  <2>3. \A x \in Ends : /\ todo'["game"] \in {Away2(x), Away1(x)} => Clean("backtrack")'
                        /\ todo'["game"] = Away1(x) => Clean("onshot")'
    <3> TAKE x \in Ends
    <3>1. CASE t = "detach"
      <4>1. section[t].job # "push" /\ todo'["game"] = todo["game"]
        BY <1>4, <1>5, <3>1 DEF Mutators
      <4> QED BY <1>13, <4>1 DEF SInv, Emptied
    <3>2. CASE t = "game" /\ section[t].job # "shutdown"
      BY <1>5, <3>2, Differ, NotEmpty
    <3>3. CASE t = "game" /\ section[t].job = "shutdown"
      <4>1. PICK y \in Ends : \/ todo[t] = Away3(y) /\ todo'[t] = Away2(y) /\ section[t].map = "backtrack"
                              \/ todo[t] = Away2(y) /\ todo'[t] = Away1(y) /\ section[t].map = "onshot"
        BY <1>5, <3>3
      <4>2. CASE todo'[t] = Away2(y) /\ section[t].map = "backtrack"
        <5>1. Clean("backtrack")' /\ Away2(y) # Away1(x)
          BY <1>12, <3>3, <4>2, Differ
        <5> QED BY <3>3, <4>2, <5>1
      <4>3. CASE todo[t] = Away2(y) /\ todo'[t] = Away1(y) /\ section[t].map = "onshot"
        <5>1. Clean("onshot")'
          BY <1>12, <3>3, <4>3
        <5>2. Clean("backtrack")
          BY <3>3, <4>3 DEF SInv, Emptied
        <5> QED BY <1>13, <3>3, <5>1, <5>2
      <4> QED BY <4>1, <4>2, <4>3
    <3> QED BY <3>1, <3>2, <3>3 DEF Mutators
  <2> QED BY <2>1, <2>2, <2>3 DEF Emptied
<1>15. Late'
  <2>1. hooked
    BY <1>5 DEF SInv, Late, Idle, Mutators
  <2>2. \A m \in Maps : DetachPast(m)' => DetachPast(m) \/ Clean(m)'
    <3>1. CASE t = "game"
      BY <1>4, <3>1 DEF DetachPast, Mutators
    <3>2. CASE t = "detach"
      <4>1. section[t].job = "shutdown"
        BY <1>5, <3>2
      <4>2. \/ todo'[t] = Away2("unhook") /\ section[t].map = "backtrack"
            \/ todo[t] = Away2("unhook") /\ section[t].map = "onshot"
        BY <1>5, <3>2, <4>1
      <4>3. PastIs /\ PastIs'
        BY Past, PTL
      <4>4. CASE todo'[t] = Away2("unhook") /\ section[t].map = "backtrack"
        BY <1>12, <3>2, <4>1, <4>3, <4>4 DEF PastIs, Ends, Maps
      <4>5. CASE todo[t] = Away2("unhook") /\ section[t].map = "onshot"
        BY <1>12, <3>2, <4>1, <4>3, <4>5 DEF PastIs, Ends, Maps
      <4> QED BY <4>2, <4>4, <4>5
    <3> QED BY <3>1, <3>2 DEF Mutators
  <2>3. \A m : Clean(m)' => Recorded(m)' = {}
    BY DEF Clean, Cleaned, Recorded
  <2> QED BY <1>1, <2>1, <2>2, <2>3 DEF SInv, Late, Recorded
<1> QED BY <1>6, <1>8, <1>9, <1>10, <1>14, <1>15 DEF SInv

LEMMA PushSInv ==
  ASSUME SInv, NEW t \in Mutators, Push(t)
  PROVE  SInv'
<1>1. section[t].job = "push" /\ Leave(t) /\ UNCHANGED <<host, scene, objects, disabled, worker, history>>
  BY DEF Push
<1>2. pending' \in SUBSET Pawns
  BY DEF SInv, Typed, Push
<1>3. section[t].map # None
  BY <1>1 DEF SInv, Ordered, NoSection
<1> QED BY <1>1, <1>2, <1>3, LeaveSInv

LEMMA LeaveMapSInv ==
  ASSUME SInv, NEW t \in Mutators, LeaveMap(t)
  PROVE  SInv'
<1>1. /\ section[t].job \in {"update", "shutdown"} /\ section[t].left = {} /\ Leave(t)
      /\ UNCHANGED <<host, scene, objects, disabled, worker, history>> /\ pending' = pending
  BY DEF LeaveMap
<1>2. pending' \in SUBSET Pawns
  BY <1>1 DEF SInv, Typed
<1>3. section[t].map # None
  BY <1>1 DEF SInv, Ordered, NoSection
<1> QED BY <1>1, <1>2, <1>3, LeaveSInv

----------------------------------------------------------------------------
(* The host's level, and the hooks                                           *)

\* Where a list stands when its last entry is up.
LEMMA AtEnd ==
  ASSUME SInv, NEW t \in Mutators, NEW x \in Ends, Proceed(t, x)
  PROVE  todo[t] = Away1(x) /\ section[t] = NoSection
<1>1. section[t] = NoSection /\ todo[t] # <<>> /\ Head(todo[t]).job = x
  BY DEF Proceed
<1>2. todo[t] \in GamePlans \cup DetachPlans
  BY DEF SInv, Typed, Mutators
<1>3. \A y : Head(Away3(y)).job # x /\ Head(Away2(y)).job # x /\ Head(Away1(y)).job = y
  BY Jobs DEF Ends
<1>4. Head(Frame2).job # x /\ Head(Frame1).job # x /\ Head(Shot).job # x
  BY Jobs DEF Ends
<1>5. PICK y \in Ends : todo[t] \in Aways(y)
  BY <1>1, <1>2, <1>4 DEF GamePlans, DetachPlans, Ends
<1>6. todo[t] = Away1(y)
  BY <1>1, <1>3, <1>5 DEF Aways
<1>7. x = y
  BY <1>1, <1>3, <1>6
<1> QED BY <1>1, <1>6, <1>7

\* The level ends or begins with the game thread at the end of a list: the maps are empty.
LEMMA LevelSInv ==
  ASSUME SInv, NEW x \in {"tear down", "set up"}, Proceed("game", x),
         \/ /\ \A w \in Workers : worker[w] = Resting
            /\ level' = "down" /\ pawns' = {} /\ SceneCleared /\ UNCHANGED <<skipped, harm>>
         \/ /\ level' = "up" /\ UNCHANGED <<pawns, scene, lost, forgotten, late>>
            /\ skipped' = FALSE /\ harm' = harm \ {"dangling"},
         UNCHANGED <<hooked, ready>>
  PROVE  SInv'
<1> DEFINE Down == /\ \A w \in Workers : worker[w] = Resting
                   /\ level' = "down" /\ pawns' = {} /\ scene' = {} /\ lost' = {} /\ forgotten' = {}
                   /\ late' = {} /\ UNCHANGED <<skipped, harm>>
<1> DEFINE Up == /\ level' = "up" /\ UNCHANGED <<pawns, scene, lost, forgotten, late>>
                 /\ skipped' = FALSE /\ harm' = harm \ {"dangling"}
<1>1. /\ todo' = [todo EXCEPT !["game"] = <<>>]
      /\ UNCHANGED <<section, mutating, objects, pending, disabled, worker, hooked, ready, scene_system>>
      /\ Down \/ Up
  BY DEF Proceed, SceneCleared
<1> HIDE DEF Down, Up
<1>2. DOMAIN todo = Mutators
  BY DEF SInv, Typed
<1>3. todo'["game"] = <<>> /\ todo'["detach"] = todo["detach"] /\ DOMAIN todo' = Mutators
  BY <1>1, <1>2 DEF Mutators
<1>4. todo["game"] = Away1(x) /\ section["game"] = NoSection
  BY AtEnd DEF Ends, Mutators
<1>5. Clean("backtrack") /\ Clean("onshot")
  BY <1>4 DEF SInv, Emptied, Ends
<1>6. \A m \in Maps : Recorded(m) = {} /\ Recorded(m)' = {} /\ Clean(m)'
  BY <1>1, <1>5 DEF Clean, Cleaned, Recorded, Maps
<1> NoSection.map = None /\ Resting.pc = "idle"
  BY DEF NoSection, Resting
<1>7. Typed'
  BY <1>1, <1>3 DEF SInv, Typed, GamePlans, Down, Up
<1>8. Ordered'
  <2>1. \A u \in Mutators : (IF section[u].map = None THEN section[u] = NoSection
            ELSE todo[u] # <<>> /\ section[u].map = Head(todo[u]).map /\ section[u].job = Head(todo[u]).job)'
    <3>1. section'["game"].map = None /\ section'["game"] = NoSection
      BY <1>1, <1>4
    <3>2. section'["detach"] = section["detach"] /\ todo'["detach"] = todo["detach"]
      BY <1>1, <1>3
    <3> QED BY <3>1, <3>2 DEF SInv, Ordered, Mutators
  <2> QED BY <1>1, <1>3, <2>1, NotEmpty DEF SInv, Ordered
<1>9. Locked'
  BY <1>1 DEF SInv, Locked, Exclusive, Down, Up
<1>10. Accounted'
  <2>1. ObjectsAccounted'
    <3>1. /\ scene' = lost' \cup forgotten' /\ (lost' # {} => disabled')
          /\ (forgotten' # {} => ~scene_system')
      BY <1>1, <1>6 DEF SInv, Accounted, ObjectsAccounted, Down, Up, Maps
    <3>2. \A m \in Maps : \A p \in Pawns : objects'[m][p] = None
      BY <1>6 DEF Clean, Cleaned
    <3> QED BY <1>6, <3>1, <3>2 DEF ObjectsAccounted, Maps
  <2> QED BY <1>1, <2>1 DEF Accounted, Down, Up
<1>11. Emptied'
  <2>1. \A m : \A u \in Mutators : section'[u].job = "shutdown" /\ section'[u].map = m =>
           \A p \in Pawns \ section'[u].left : Cleaned(m, p)'
    BY <1>1 DEF SInv, Emptied, Cleaned
  <2> QED BY <1>3, <1>6, <2>1, NotEmpty DEF Emptied, Maps
<1>12. Late'
  <2>1. ~hooked => FALSE
    BY <1>4, NotEmpty DEF SInv, Late, Idle
  <2>2. \A m \in Maps : Recorded(m)' \subseteq late'
    BY <1>6
  <2>3. (~hooked)' => FALSE
    <3>1. hooked' = hooked
      BY <1>1
    <3>2. hooked
      BY <2>1
    <3> QED BY <3>1, <3>2, Zenon
  <2>4. (\A m \in Maps : DetachPast(m) => Recorded(m) \subseteq late)'
    BY <2>2
  <2> QED BY <2>3, <2>4 DEF Late
<1>13. DrawsAreSafe' /\ HarmOnlyFromSkippedCallback'
  <2>1. CASE Down
    <3>1. \A w \in Workers : worker'[w].pc # "draw"
      BY <1>1, <2>1 DEF Down
    <3> QED BY <2>1, <3>1 DEF SInv, DrawsAreSafe, HarmOnlyFromSkippedCallback, Down
  <2>2. CASE Up
    <3>1. harm' = {} /\ scene' = scene /\ worker' = worker /\ objects' = objects
      BY <1>1, <2>2 DEF SInv, HarmOnlyFromSkippedCallback, Up
    <3> QED BY <3>1 DEF SInv, DrawsAreSafe, Recorded, HarmOnlyFromSkippedCallback
  <2> QED BY <1>1, <2>1, <2>2
<1> QED BY <1>7, <1>8, <1>9, <1>10, <1>11, <1>12, <1>13 DEF SInv

LEMMA UnhookSInv == SInv /\ Unhook => SInv'
<1> SUFFICES ASSUME SInv, Unhook PROVE SInv'
  OBVIOUS
<1>1. /\ todo' = [todo EXCEPT !["detach"] = <<>>]
      /\ UNCHANGED <<section, mutating, objects, pending, disabled, worker, skipped, harm,
                     level, pawns, scene, lost, forgotten, late, scene_system>>
      /\ Idle("game") /\ hooked' = FALSE /\ ready' = FALSE
  BY DEF Unhook, Proceed
<1>2. DOMAIN todo = Mutators
  BY DEF SInv, Typed
<1>3. todo'["detach"] = <<>> /\ todo'["game"] = todo["game"] /\ DOMAIN todo' = Mutators
  BY <1>1, <1>2 DEF Mutators
<1>4. todo["detach"] = Away1("unhook") /\ section["detach"] = NoSection
  BY AtEnd DEF Unhook, Ends, Mutators
<1>5. Typed'
  BY <1>1, <1>3 DEF SInv, Typed, DetachPlans
<1>6. Ordered'
  <2>1. \A u \in Mutators : (IF section[u].map = None THEN section[u] = NoSection
            ELSE todo[u] # <<>> /\ section[u].map = Head(todo[u]).map /\ section[u].job = Head(todo[u]).job)'
    BY <1>1, <1>3, <1>4 DEF SInv, Ordered, NoSection, Mutators
  <2> QED BY <1>1, <1>3, <2>1 DEF SInv, Ordered
<1>7. Locked' /\ Accounted' /\ DrawsAreSafe' /\ HarmOnlyFromSkippedCallback'
  BY <1>1 DEF SInv, Locked, Exclusive, Accounted, ObjectsAccounted, Recorded, DrawsAreSafe, HarmOnlyFromSkippedCallback
<1>8. Emptied'
  <2>1. \A m : \A u \in Mutators : section'[u].job = "shutdown" /\ section'[u].map = m =>
           \A p \in Pawns \ section'[u].left : Cleaned(m, p)'
    BY <1>1 DEF SInv, Emptied, Cleaned
  <2> QED BY <1>1, <1>3, <2>1 DEF SInv, Emptied, Clean, Cleaned
<1>9. Late'
  <2>1. PastIs /\ PastIs'
    BY Past, PTL
  <2>2. \A m \in Maps : DetachPast(m) /\ ~DetachPast(m)'
    BY <1>3, <1>4, <2>1 DEF PastIs, Ends, Maps
  <2>3. Idle("game")' /\ Idle("detach")'
    BY <1>1, <1>3, <1>4 DEF Idle
  <2>4. UnloadLeavesOnlyLate'
    BY <1>1, <2>2 DEF SInv, Late, UnloadLeavesOnlyLate, Accounted, ObjectsAccounted, Maps
  <2> QED BY <2>2, <2>3, <2>4 DEF Late
<1> QED BY <1>5, <1>6, <1>7, <1>8, <1>9 DEF SInv

LEMMA LevelEndsSInv == SInv /\ LevelEndsUnannounced => SInv'
<1> SUFFICES ASSUME SInv, LevelEndsUnannounced PROVE SInv'
  OBVIOUS
<1>1. /\ level = "up" /\ Idle("game") /\ (\A w \in Workers : worker[w] = Resting)
      /\ level' = "gone" /\ pawns' = {} /\ scene' = {} /\ lost' = {} /\ forgotten' = {} /\ late' = {}
      /\ skipped' = TRUE
      /\ UNCHANGED <<objects, pending, disabled, ready, todo, section, mutating, worker, hooked, harm,
                     scene_system>>
  BY DEF LevelEndsUnannounced, SceneCleared, control
<1>2. Typed'
  BY <1>1 DEF SInv, Typed
<1>3. Ordered'
  BY <1>1, NotEmpty DEF SInv, Ordered, Idle
<1>4. Locked' /\ Accounted' /\ DrawsAreSafe'
  <2>1. \A w \in Workers : worker'[w] = Resting /\ worker'[w].pc = "idle" /\ worker'[w].locks = {}
    BY <1>1 DEF Resting
  <2> QED BY <1>1, <2>1 DEF Locked, Accounted, ObjectsAccounted, DrawsAreSafe
<1>5. Emptied'
  BY <1>1 DEF SInv, Emptied, Clean, Cleaned
<1>6. Late'
  BY <1>1 DEF SInv, Late, Idle, UnloadLeavesOnlyLate
<1>7. HarmOnlyFromSkippedCallback'
  BY <1>1 DEF SInv, HarmOnlyFromSkippedCallback
<1> QED BY <1>2, <1>3, <1>4, <1>5, <1>6, <1>7 DEF SInv

\* The rest of the host's doings touch neither the objects nor the lists.
LEMMA QuietSInv ==
  ASSUME SInv, pawns' \in SUBSET Pawns, ready' \in BOOLEAN,
         UNCHANGED <<level, hooked, scene_system, scene, objects, pending, disabled, control, worker, history>>
  PROVE  SInv'
<1>1. UNCHANGED <<level, hooked, scene, objects, pending, disabled, todo, section, mutating, worker,
                  skipped, lost, forgotten, late, harm, scene_system>>
  BY DEF control, history
<1>2. Typed' /\ Ordered' /\ Locked'
  BY <1>1 DEF SInv, Typed, Ordered, Locked, Exclusive
<1>3. Accounted' /\ Emptied' /\ DrawsAreSafe'
  BY <1>1 DEF SInv, Accounted, ObjectsAccounted, Recorded, Emptied, Clean, Cleaned, DrawsAreSafe
<1>4. Late' /\ HarmOnlyFromSkippedCallback'
  BY <1>1 DEF SInv, Late, DetachPast, Idle, Recorded, UnloadLeavesOnlyLate, HarmOnlyFromSkippedCallback
<1> QED BY <1>2, <1>3, <1>4 DEF SInv

----------------------------------------------------------------------------
(* A pawn is visited                                                         *)

\* What destroying leaves of the object o: it is gone, or stays and is lost or forgotten.
DestroyedTo(o, d) ==
  /\ o \notin scene => d.scene = scene /\ d.lost = {} /\ d.forgotten = {}
  /\ o \in scene => \/ d.scene = scene \ {o} /\ d.lost = {} /\ d.forgotten = {}
                    \/ d.scene = scene /\ d.lost = {o} /\ d.forgotten = {} /\ d.disabled
                    \/ d.scene = scene /\ d.lost = {} /\ d.forgotten = {o} /\ ~scene_system
  /\ d.harm \subseteq {"dangling"} /\ (d.harm # {} => o # None /\ o \notin scene)
  /\ d.disabled \in BOOLEAN /\ (disabled => d.disabled)

LEMMA DestroyedIs ==
  ASSUME Typed, NEW o \in Objects \cup {None}, NEW d \in Destroyed(o)
  PROVE  DestroyedTo(o, d)
<1>1. scene \subseteq Objects /\ disabled \in BOOLEAN /\ None \notin scene
  BY SceneAssumption DEF Typed
<1> DEFINE A == [scene |-> scene, lost |-> {}, forgotten |-> {}, disabled |-> disabled, harm |-> {}]
<1> DEFINE B == [A EXCEPT !.harm = {"dangling"}]
<1> DEFINE C == [[A EXCEPT !.disabled = TRUE] EXCEPT !.harm = {"dangling"}]
<1>2. CASE o \notin scene
  <2>1. d = A \/ (o # None /\ (d = B \/ d = C))
    BY <1>1, <1>2 DEF Destroyed
  <2>2. CASE d = A
    <3>1. d.scene = scene /\ d.lost = {} /\ d.forgotten = {} /\ d.disabled = disabled /\ d.harm = {}
      BY <2>2
    <3> QED BY <1>1, <1>2, <3>1 DEF DestroyedTo
  <2>3. CASE d = B /\ o # None
    <3>1. d.scene = scene /\ d.lost = {} /\ d.forgotten = {} /\ d.disabled = disabled /\ d.harm = {"dangling"}
      BY <2>3
    <3> QED BY <1>1, <1>2, <2>3, <3>1 DEF DestroyedTo
  <2>4. CASE d = C /\ o # None
    <3>1. d.scene = scene /\ d.lost = {} /\ d.forgotten = {} /\ d.disabled = TRUE /\ d.harm = {"dangling"}
      BY <2>4
    <3> QED BY <1>1, <1>2, <2>4, <3>1 DEF DestroyedTo
  <2> HIDE DEF A, B, C
  <2> QED BY <2>1, <2>2, <2>3, <2>4
<1> DEFINE D == [A EXCEPT !.scene = scene \ {o}]
<1> DEFINE E == [[A EXCEPT !.disabled = TRUE] EXCEPT !.lost = {o}]
<1> DEFINE F == [A EXCEPT !.forgotten = {o}]
<1>3. CASE o \in scene
  <2>1. d = D \/ d = E \/ (d = F /\ ~scene_system)
    BY <1>1, <1>3 DEF Destroyed
  <2>2. CASE d = D
    <3>1. d.scene = scene \ {o} /\ d.lost = {} /\ d.forgotten = {} /\ d.disabled = disabled /\ d.harm = {}
      BY <2>2
    <3> QED BY <1>1, <1>3, <3>1 DEF DestroyedTo
  <2>3. CASE d = E
    <3>1. d.scene = scene /\ d.lost = {o} /\ d.forgotten = {} /\ d.disabled = TRUE /\ d.harm = {}
      BY <2>3
    <3> QED BY <1>1, <1>3, <3>1 DEF DestroyedTo
  <2>4. CASE d = F /\ ~scene_system
    <3>1. d.scene = scene /\ d.lost = {} /\ d.forgotten = {o} /\ d.disabled = disabled /\ d.harm = {}
      BY <2>4
    <3> QED BY <1>1, <1>3, <2>4, <3>1 DEF DestroyedTo
  <2> HIDE DEF D, E, F
  <2> QED BY <2>1, <2>2, <2>3, <2>4
<1> QED BY <1>2, <1>3

\* What is made after d, if anything: the object, or one that could not be cleaned up.
CreatedTo(d, c) ==
  /\ c.object \in Objects \cup {None} /\ c.disabled \in BOOLEAN /\ (d.disabled => c.disabled)
  /\ c.lost \cup c.forgotten \subseteq Objects \ d.scene
  /\ c.object # None => c.lost \cup c.forgotten = {} /\ ~d.disabled /\ level = "up" /\ c.object \notin d.scene
  /\ c.lost \cup c.forgotten # {} => level = "up"
  /\ (c.lost # {} => c.disabled) /\ (c.forgotten # {} => ~scene_system)

LEMMA NothingCreated ==
  ASSUME NEW d, d.disabled \in BOOLEAN
  PROVE  CreatedTo(d, NotCreated(d)) /\ NotCreated(d).object = None
  BY DEF CreatedTo, NotCreated

LEMMA CreatedIs ==
  ASSUME NEW d, NEW c, d.disabled \in BOOLEAN, c \in Created(d)
  PROVE  CreatedTo(d, c)
<1> DEFINE A == NotCreated(d)
<1> DEFINE B == [A EXCEPT !.disabled = TRUE]
<1> DEFINE C(o) == [A EXCEPT !.object = o]
<1> DEFINE D(o) == [B EXCEPT !.lost = {o}]
<1> DEFINE E(o) == [B EXCEPT !.forgotten = {o}]
<1>1. CASE c = A \/ c = B
  <2>1. /\ c.object = None /\ c.lost = {} /\ c.forgotten = {}
        /\ c.disabled = d.disabled \/ c.disabled = TRUE
    BY <1>1 DEF NotCreated
  <2> QED BY <2>1 DEF CreatedTo
<1>2. ASSUME NEW o \in Objects \ d.scene, ~d.disabled, level = "up",
             c = C(o) \/ c = D(o) \/ (c = E(o) /\ ~scene_system)
      PROVE  CreatedTo(d, c)
  <2>1. CASE c = C(o)
    <3>1. c.object = o /\ c.lost = {} /\ c.forgotten = {} /\ c.disabled = d.disabled
      BY <2>1 DEF NotCreated
    <3> QED BY <1>2, <3>1 DEF CreatedTo
  <2>2. CASE c = D(o)
    <3>1. c.object = None /\ c.lost = {o} /\ c.forgotten = {} /\ c.disabled = TRUE
      BY <2>2 DEF NotCreated
    <3> QED BY <1>2, <3>1 DEF CreatedTo
  <2>3. CASE c = E(o) /\ ~scene_system
    <3>1. c.object = None /\ c.lost = {} /\ c.forgotten = {o} /\ c.disabled = TRUE
      BY <2>3 DEF NotCreated
    <3> QED BY <1>2, <2>3, <3>1 DEF CreatedTo
  <2> QED BY <1>2, <2>1, <2>2, <2>3
<1>3. Created(d) = {A, B} \cup IF d.disabled \/ level # "up" THEN {}
                     ELSE UNION {{C(o), IF scene_system THEN D(o) ELSE E(o)} : o \in Objects \ d.scene}
  BY DEF Created
<1> HIDE DEF A, B, C, D, E
<1>4. \/ c = A \/ c = B
      \/ /\ ~d.disabled /\ level = "up"
         /\ \E o \in Objects \ d.scene : c = C(o) \/ c = D(o) \/ (c = E(o) /\ ~scene_system)
  BY <1>3
<1> QED BY <1>1, <1>2, <1>4

\* The entry of a pawn is dropped or replaced in a section of its map.
Replaces(t, p, d, c) ==
  LET m == section[t].map IN
  /\ section[t].job \in {"update", "shutdown"} /\ p \in section[t].left
  /\ d \in Destroyed(objects[m][p]) /\ Replace(t, m, p, d, c)
  /\ \/ c = NotCreated(d)
     \/ section[t].job = "update" /\ c \in Created(d)
  /\ pending' = pending \/ pending' = pending \ {p}
  /\ section[t].job = "shutdown" /\ m = "onshot" => p \notin pending'
  /\ Visited(t, p)
  /\ UNCHANGED <<host, todo, mutating, worker, skipped>>

\* The entry of a pawn is kept.
Keeps(t, p) ==
  LET m == section[t].map IN
  /\ section[t].job = "update" /\ p \in section[t].left
  /\ m \in Maps /\ Keep(m, p)
  /\ pending' = pending \/ pending' = pending \ {p}
  /\ Visited(t, p)
  /\ UNCHANGED <<host, todo, mutating, worker, skipped>>

LEMMA VisitCases ==
  ASSUME SInv, NEW t \in Mutators, Visit(t)
  PROVE  \E p \in Pawns : Keeps(t, p) \/ \E d, c : Replaces(t, p, d, c)
<1>1. PICK p \in section[t].left : /\ VisitBacktrack(t, p) \/ VisitOnshot(t, p) \/ VisitShutdown(t, p)
                                   /\ Visited(t, p)
  BY DEF Visit
<1>2. UNCHANGED <<host, todo, mutating, worker, skipped>>
  BY DEF Visit
<1>3. p \in Pawns
  BY <1>1 DEF SInv, Typed, Sections
<1>4. CASE VisitBacktrack(t, p)
  <2>1. section[t].map = "backtrack" /\ section[t].job = "update" /\ UNCHANGED pending
    BY <1>4 DEF VisitBacktrack
  <2>2. CASE Drop(t, "backtrack", p)
    <3>1. PICK d \in Destroyed(objects["backtrack"][p]) :
             Replace(t, "backtrack", p, d, NotCreated(d))
      BY <2>2 DEF Drop
    <3>2. Replaces(t, p, d, NotCreated(d))
      BY <1>1, <1>2, <2>1, <3>1 DEF Replaces
    <3> QED BY <1>3, <3>2
  <2>3. CASE Keep("backtrack", p)
    <3>1. Keeps(t, p)
      BY <1>1, <1>2, <2>1, <2>3 DEF Keeps, Maps
    <3> QED BY <1>3, <3>1
  <2>4. CASE /\ p \in pawns /\ objects["backtrack"][p] = None
             /\ \E d \in Destroyed(None) : \E c \in Created(d) : Replace(t, "backtrack", p, d, c)
    <3>1. PICK d \in Destroyed(None) : \E c \in Created(d) : Replace(t, "backtrack", p, d, c)
      BY <2>4
    <3>2. PICK c \in Created(d) : Replace(t, "backtrack", p, d, c)
      BY <3>1
    <3>3. Replaces(t, p, d, c)
      BY <1>1, <1>2, <2>1, <2>4, <3>2 DEF Replaces
    <3> QED BY <1>3, <3>3
  <2> QED BY <1>4, <2>2, <2>3, <2>4 DEF VisitBacktrack
<1>5. CASE VisitOnshot(t, p)
  <2>1. section[t].map = "onshot" /\ section[t].job = "update" /\ pending' = pending \ {p}
    BY <1>5 DEF VisitOnshot
  <2>2. CASE Drop(t, "onshot", p)
    <3>1. PICK d \in Destroyed(objects["onshot"][p]) :
             Replace(t, "onshot", p, d, NotCreated(d))
      BY <2>2 DEF Drop
    <3>2. Replaces(t, p, d, NotCreated(d))
      BY <1>1, <1>2, <2>1, <3>1 DEF Replaces
    <3> QED BY <1>3, <3>2
  <2>3. CASE Keep("onshot", p)
    <3>1. Keeps(t, p)
      BY <1>1, <1>2, <2>1, <2>3 DEF Keeps, Maps
    <3> QED BY <1>3, <3>1
  <2>4. CASE \E d \in Destroyed(objects["onshot"][p]) : \E c \in Created(d) : Replace(t, "onshot", p, d, c)
    <3>1. PICK d \in Destroyed(objects["onshot"][p]) : \E c \in Created(d) : Replace(t, "onshot", p, d, c)
      BY <2>4
    <3>2. PICK c \in Created(d) : Replace(t, "onshot", p, d, c)
      BY <3>1
    <3>3. Replaces(t, p, d, c)
      BY <1>1, <1>2, <2>1, <3>2 DEF Replaces
    <3> QED BY <1>3, <3>3
  <2> QED BY <1>5, <2>2, <2>3, <2>4 DEF VisitOnshot
<1>6. CASE VisitShutdown(t, p)
  <2> DEFINE m == section[t].map
  <2>1. /\ section[t].job = "shutdown" /\ Drop(t, m, p)
        /\ pending' = IF m = "onshot" THEN pending \ {p} ELSE pending
    BY <1>6 DEF VisitShutdown
  <2>2. PICK d \in Destroyed(objects[m][p]) : Replace(t, m, p, d, NotCreated(d))
    BY <2>1 DEF Drop
  <2>3. Replaces(t, p, d, NotCreated(d))
    BY <1>1, <1>2, <2>1, <2>2 DEF Replaces
  <2> QED BY <1>3, <2>3
<1> QED BY <1>1, <1>4, <1>5, <1>6

\* While a thread is in a section of m, nobody draws and no other thread is in it.
LEMMA Alone ==
  ASSUME SInv, NEW t \in Mutators, section[t].map \in Maps
  PROVE  /\ \A w \in Workers : worker[w].pc # "draw"
         /\ \A u \in Mutators : u # t => section[u].map # section[t].map
         /\ hooked
<1>1. section[t].map # None
  BY SceneAssumption
<1>2. Exclusive(section[t].map)
  BY DEF Exclusive
<1>3. hooked
  BY <1>1, Doing DEF SInv, Late, Idle, Mutators
<1>4. \A u \in Mutators : u # t => section[u].map # section[t].map
  BY <1>1 DEF SInv, Ordered, Mutators
<1>5. \A w \in Workers : worker[w].pc # "draw"
  BY <1>2 DEF SInv, Locked
<1> QED BY <1>3, <1>4, <1>5

\* What a visit leaves of the sections.
LEMMA VisitedIs ==
  ASSUME SInv, NEW t \in Mutators, NEW p \in section[t].left, Visited(t, p)
  PROVE  /\ section' \in [Mutators -> Sections]
         /\ \A u \in Mutators : section'[u].map = section[u].map /\ section'[u].job = section[u].job
         /\ \A u \in Mutators : u # t => section'[u] = section[u]
         /\ section'[t].left = section[t].left \ {p}
<1>1. section \in [Mutators -> Sections]
  BY DEF SInv, Typed
<1>2. section' = [section EXCEPT ![t] = [section[t] EXCEPT !.left = section[t].left \ {p}]]
  BY DEF Visited
<1>3. section[t] \in Sections /\ section[t].left \ {p} \in SUBSET Pawns
  BY <1>1 DEF Sections
<1>4. [section[t] EXCEPT !.left = section[t].left \ {p}] \in Sections
  BY <1>3 DEF Sections
<1>5. /\ [section[t] EXCEPT !.left = section[t].left \ {p}].map = section[t].map
      /\ [section[t] EXCEPT !.left = section[t].left \ {p}].job = section[t].job
      /\ [section[t] EXCEPT !.left = section[t].left \ {p}].left = section[t].left \ {p}
  BY <1>3 DEF Sections
<1> QED BY <1>1, <1>2, <1>4, <1>5

\* The lists, the locks and the threads are where they were.
LEMMA VisitOrder ==
  ASSUME SInv, NEW t \in Mutators, NEW p \in section[t].left, Visited(t, p), section[t].map \in Maps,
         UNCHANGED <<host, todo, mutating, worker, skipped>>
  PROVE  Ordered' /\ Locked'
<1>1. UNCHANGED <<level, pawns, hooked, ready, scene_system, todo, mutating, worker, skipped>>
  BY DEF host
<1>2. /\ \A u \in Mutators : section'[u].map = section[u].map /\ section'[u].job = section[u].job
      /\ \A u \in Mutators : u # t => section'[u] = section[u]
  BY VisitedIs
<1>3. Ordered'
  <2>1. section[t].map # None
    BY SceneAssumption
  <2>2. \A u \in Mutators : (IF section[u].map = None THEN section[u] = NoSection
            ELSE todo[u] # <<>> /\ section[u].map = Head(todo[u]).map /\ section[u].job = Head(todo[u]).job)'
    BY <1>1, <1>2, <2>1 DEF SInv, Ordered
  <2> QED BY <1>1, <1>2, <2>2 DEF SInv, Ordered, Mutators
<1>4. \A m : Exclusive(m)' => Exclusive(m)
  BY <1>2 DEF Exclusive
<1>5. Locked'
  BY <1>1, <1>4 DEF SInv, Locked
<1> QED BY <1>3, <1>5

LEMMA ReplacesSInv ==
  ASSUME SInv, NEW t \in Mutators, NEW p \in Pawns, NEW d, NEW c, Replaces(t, p, d, c)
  PROVE  SInv'
<1> DEFINE m == section[t].map
<1> DEFINE o == objects[m][p]
<1> DEFINE n == c.object
<1>1. /\ section[t].job \in {"update", "shutdown"} /\ p \in section[t].left
      /\ d \in Destroyed(o) /\ Visited(t, p)
      /\ pending' = pending \/ pending' = pending \ {p}
      /\ section[t].job = "shutdown" /\ m = "onshot" => p \notin pending'
      /\ UNCHANGED <<host, todo, mutating, worker, skipped>>
  BY DEF Replaces
<1>2. /\ objects' = [objects EXCEPT ![m][p] = n]
      /\ scene' = d.scene \cup ({n} \ {None}) \cup c.lost \cup c.forgotten /\ disabled' = c.disabled
      /\ lost' = lost \cup d.lost \cup c.lost /\ forgotten' = forgotten \cup d.forgotten \cup c.forgotten
      /\ late' = late \cup (IF DetachPast(m) THEN {n} \ {None} ELSE {})
      /\ harm' = harm \cup d.harm \cup Reentered(t)
  BY DEF Replaces, Replace
<1>3. UNCHANGED <<level, pawns, hooked, ready, scene_system, todo, mutating, worker, skipped>>
  BY <1>1 DEF host
<1>4. m \in Maps /\ section[t].map # None
  <2>1. section[t].map # None
    BY <1>1 DEF SInv, Ordered, NoSection
  <2> QED BY <2>1, Doing DEF SInv
<1>5. /\ objects \in [Maps -> [Pawns -> Objects \cup {None}]] /\ o \in Objects \cup {None}
      /\ scene \subseteq Objects /\ None \notin scene /\ late \subseteq Objects
      /\ lost \subseteq Objects /\ forgotten \subseteq Objects
      /\ disabled \in BOOLEAN /\ scene_system \in BOOLEAN
  BY <1>4, SceneAssumption DEF SInv, Typed
<1>6. DestroyedTo(o, d)
  BY <1>1, <1>5, DestroyedIs DEF SInv
<1>7. CreatedTo(d, c) /\ (section[t].job # "update" => n = None)
  <2>1. d.disabled \in BOOLEAN
    BY <1>6 DEF DestroyedTo
  <2>2. CASE c = NotCreated(d)
    BY <2>1, <2>2, NothingCreated
  <2>3. CASE section[t].job = "update" /\ c \in Created(d)
    BY <2>1, <2>3, CreatedIs
  <2> QED BY <2>2, <2>3 DEF Replaces
<1>8. /\ objects' \in [Maps -> [Pawns -> Objects \cup {None}]]
      /\ objects'[m][p] = n
      /\ \A k \in Maps, q \in Pawns : k # m \/ q # p => objects'[k][q] = objects[k][q]
  BY <1>2, <1>4, <1>5, <1>7 DEF CreatedTo
<1>9. /\ section' \in [Mutators -> Sections]
      /\ \A u \in Mutators : section'[u].map = section[u].map /\ section'[u].job = section[u].job
      /\ \A u \in Mutators : u # t => section'[u] = section[u]
      /\ section'[t].left = section[t].left \ {p}
  BY <1>1, VisitedIs
<1>10. Ordered' /\ Locked'
  BY <1>1, <1>4, VisitOrder
<1>11. /\ \A w \in Workers : worker[w].pc # "draw"
       /\ \A u \in Mutators : u # t => section[u].map # m
       /\ hooked
  BY <1>4, Alone
<1> HIDE DEF m, o, n
<1>12. Typed'
  <2>1. /\ scene' \subseteq Objects /\ lost' \subseteq Objects /\ forgotten' \subseteq Objects
        /\ late' \subseteq Objects /\ disabled' \in BOOLEAN
    BY <1>2, <1>5, <1>6, <1>7 DEF DestroyedTo, CreatedTo, n
  <2>2. pending' \in SUBSET Pawns
    BY <1>1 DEF SInv, Typed
  <2> QED BY <1>2, <1>3, <1>7, <1>8, <1>9, <2>1, <2>2 DEF SInv, Typed
<1>13. DrawsAreSafe'
  BY <1>3, <1>11 DEF DrawsAreSafe
<1>14. ASSUME level = "gone" PROVE Accounted'
  <2>1. scene = {} /\ lost = {} /\ forgotten = {} /\ skipped
    BY <1>14 DEF SInv, Accounted
  <2>2. d.scene = {} /\ d.lost = {} /\ d.forgotten = {}
    BY <1>6, <2>1 DEF DestroyedTo
  <2>3. n = None /\ c.lost \cup c.forgotten = {}
    BY <1>7, <1>14 DEF CreatedTo, n
  <2>4. scene' = {} /\ lost' = {} /\ forgotten' = {}
    BY <1>2, <2>1, <2>2, <2>3
  <2>5. skipped' /\ level' = "gone"
    BY <1>3, <1>14, <2>1
  <2> QED BY <2>4, <2>5 DEF Accounted, ObjectsAccounted
<1>15. ASSUME level # "gone" PROVE Accounted'
  <2> DEFINE R == Recorded("backtrack") \cup Recorded("onshot")
  <2> DEFINE L == lost \cup forgotten
  <2> DEFINE e == d.lost \cup d.forgotten
  <2> DEFINE f == c.lost \cup c.forgotten
  <2>1. \A x : x \in R <=> x # None /\ \E k \in Maps : \E q \in Pawns : objects[k][q] = x
    BY DEF Recorded, Maps
  <2>2. \A x : x \in R' <=> x # None /\ \E k \in Maps : \E q \in Pawns : objects'[k][q] = x
    BY DEF Recorded, Maps
  <2>3. /\ scene = R \cup L /\ L \cap R = {}
        /\ (lost # {} => disabled) /\ (forgotten # {} => ~scene_system)
        /\ \A k, l \in Maps : \A q, r \in Pawns :
             objects[k][q] = objects[l][r] /\ objects[k][q] # None => k = l /\ q = r
    BY <1>15 DEF SInv, Accounted, ObjectsAccounted
  <2>4. /\ L' = L \cup e \cup f /\ scene' = d.scene \cup ({n} \ {None}) \cup f /\ L \subseteq Objects
    BY <1>2, <1>5
  <2>5. /\ \A x \in e : x = o /\ o \in scene
        /\ \A x \in d.scene : x \in scene
        /\ \A x \in scene : x # o => x \in d.scene
        /\ o \in scene => (o \in d.scene <=> o \in e)
    BY <1>6 DEF DestroyedTo
  <2>6. /\ f \subseteq Objects \ d.scene
        /\ n # None => f = {} /\ n \notin d.scene
        /\ n \in Objects \cup {None}
    BY <1>7 DEF CreatedTo, n
  <2>7. (lost' # {} => disabled') /\ (forgotten' # {} => ~scene_system')
    <3>1. /\ disabled => d.disabled
          /\ d.lost # {} => d.disabled
          /\ d.forgotten # {} => ~scene_system
      BY <1>6 DEF DestroyedTo
    <3>2. /\ d.disabled => c.disabled
          /\ c.lost # {} => c.disabled
          /\ c.forgotten # {} => ~scene_system
      BY <1>7 DEF CreatedTo
    <3>3. lost' # {} => c.disabled
      BY <1>2, <2>3, <3>1, <3>2
    <3>4. forgotten' # {} => ~scene_system
      BY <1>2, <2>3, <3>1, <3>2
    <3> QED BY <1>2, <1>3, <3>3, <3>4
  <2> HIDE DEF R, L, e, f
  <2>8. o # None => o \in R /\ \A k \in Maps, q \in Pawns : k # m \/ q # p => objects[k][q] # o
    BY <1>4, <2>1, <2>3 DEF o
  <2>9. \A k \in Maps, q \in Pawns : k # m \/ q # p => objects[k][q] = None \/ objects[k][q] \in d.scene
    BY <2>1, <2>3, <2>8, <2>5
  <2>10. L \subseteq d.scene /\ e \subseteq d.scene /\ e \cap L = {}
    BY <1>5, <2>3, <2>8, <2>5
  <2>11. \A x : x \in R' <=> (x \in R /\ x # o) \/ (x = n /\ n # None)
    <3>1. ASSUME NEW x, x \in R' PROVE (x \in R /\ x # o) \/ (x = n /\ n # None)
      <4>1. PICK k \in Maps : \E q \in Pawns : x # None /\ objects'[k][q] = x
        BY <2>2, <3>1
      <4>2. PICK q \in Pawns : x # None /\ objects'[k][q] = x
        BY <4>1
      <4>3. CASE k = m /\ q = p
        BY <1>8, <4>2, <4>3
      <4>4. CASE k # m \/ q # p
        BY <1>8, <2>1, <2>8, <4>2, <4>4
      <4> QED BY <4>3, <4>4
    <3>2. ASSUME NEW x, x \in R, x # o PROVE x \in R'
      <4>1. PICK k \in Maps : \E q \in Pawns : x # None /\ objects[k][q] = x
        BY <2>1, <3>2
      <4>2. PICK q \in Pawns : x # None /\ objects[k][q] = x
        BY <4>1
      <4>3. k # m \/ q # p
        BY <3>2, <4>2 DEF o
      <4> QED BY <1>8, <2>2, <4>2, <4>3
    <3>3. n # None => n \in R'
      BY <1>4, <1>8, <2>2
    <3> QED BY <3>1, <3>2, <3>3
  <2>12. \A x : x \in d.scene <=> (x \in R /\ x # o) \/ x \in L \cup e
    <3>1. o \in scene => o \in R
      BY <1>5, <2>8
    <3>2. o \in R => o \in scene /\ o \notin L
      BY <2>3
    <3> QED BY <2>3, <2>5, <3>1, <3>2
  <2>13. scene' = R' \cup L'
    <3>1. \A x : x \in scene' <=> x \in d.scene \/ (x = n /\ n # None) \/ x \in f
      BY <2>4
    <3> QED BY <2>11, <2>4, <2>12, <3>1
  <2>14. L' \cap R' = {}
    <3>1. \A x \in L \cup e : (x \notin R \/ x = o) /\ x # n
      BY <1>5, <2>3, <2>10, <2>5, <2>6, SceneAssumption
    <3>2. \A x \in f : x \notin R \/ x = o
      BY <2>6, <2>12
    <3> QED BY <2>11, <2>4, <2>6, <3>1, <3>2
  <2>15. \A k, l \in Maps : \A q, r \in Pawns :
           objects'[k][q] = objects'[l][r] /\ objects'[k][q] # None => k = l /\ q = r
    <3>1. \A k \in Maps, q \in Pawns : k # m \/ q # p => objects'[k][q] = None \/ objects'[k][q] # n
      BY <1>8, <2>9, <2>6
    <3> QED BY <1>8, <2>3, <3>1
  <2>16. L' = lost' \cup forgotten' /\ R' = Recorded("backtrack")' \cup Recorded("onshot")'
    BY DEF R, L
  <2>17. level' # "gone"
    BY <1>3, <1>15
  <2>18. ObjectsAccounted'
    BY <2>13, <2>14, <2>15, <2>16, <2>7 DEF ObjectsAccounted
  <2> QED BY <2>17, <2>18 DEF Accounted
<1>16. n = None => \A k \in Maps, q \in Pawns : Cleaned(k, q) => Cleaned(k, q)'
  BY <1>1, <1>8 DEF Cleaned
<1>17. n # None => t = "game" /\ level = "up" /\ todo["game"] \in {Frame2, Frame1}
  BY <1>4, <1>7, Doing DEF SInv, CreatedTo, n
<1>18. Emptied'
  <2>1. \A k : \A u \in Mutators : section'[u].job = "shutdown" /\ section'[u].map = k =>
           \A q \in Pawns \ section'[u].left : Cleaned(k, q)'
    <3> TAKE k
    <3> TAKE u \in Mutators
    <3> HAVE section'[u].job = "shutdown" /\ section'[u].map = k
    <3> TAKE q \in Pawns \ section'[u].left
    <3>1. section[u].job = "shutdown" /\ section[u].map = k
      BY <1>9
    <3>2. CASE u = t /\ q = p
      <4>1. n = None /\ k = m
        BY <1>7, <3>1, <3>2 DEF m
      <4> QED BY <1>1, <1>8, <3>1, <3>2, <4>1 DEF Cleaned, m
    <3>3. CASE u = t /\ q # p
      <4>1. Cleaned(m, q) /\ k = m
        BY <1>9, <3>1, <3>3 DEF SInv, Emptied, m
      <4> QED BY <1>1, <1>4, <1>8, <3>3, <4>1 DEF Cleaned
    <3>4. CASE u # t
      <4>1. Cleaned(k, q) /\ k # m
        BY <1>9, <1>11, <3>1, <3>4 DEF SInv, Emptied
      <4>2. k \in Maps
        <5>1. section[u].map # None
          BY <3>1 DEF SInv, Ordered, NoSection
        <5> QED BY <3>1, <5>1, Doing DEF SInv
      <4> QED BY <1>1, <1>8, <4>1, <4>2 DEF Cleaned
    <3> QED BY <3>2, <3>3, <3>4
  <2>2. \A k \in Maps : Clean(k) /\ n = None => Clean(k)'
    BY <1>16 DEF Clean
  <2>3. level' = "down" => Clean("backtrack")' /\ Clean("onshot")'
    BY <1>3, <1>17, <2>2 DEF SInv, Emptied, Maps
  <2>4. \A x \in Ends : /\ todo'["game"] \in {Away2(x), Away1(x)} => Clean("backtrack")'
                        /\ todo'["game"] = Away1(x) => Clean("onshot")'
    <3>1. CASE n = None
      BY <1>3, <2>2, <3>1 DEF SInv, Emptied, Maps
    <3>2. CASE n # None
      BY <1>3, <1>17, <3>2, Differ
    <3> QED BY <3>1, <3>2
  <2> QED BY <2>1, <2>3, <2>4 DEF Emptied
<1>19. Late'
  <2>1. \A k \in Maps : Recorded(k)' \subseteq Recorded(k) \cup (IF k = m THEN {n} \ {None} ELSE {})
    BY <1>8 DEF Recorded
  <2>2. \A k \in Maps : DetachPast(k)' = DetachPast(k)
    BY <1>3 DEF DetachPast
  <2>3. level' # "gone" => \A k \in Maps : DetachPast(k)' => Recorded(k)' \subseteq late'
    BY <1>2, <1>3, <2>1, <2>2 DEF SInv, Late
  <2>4. hooked'
    <3>1. hooked' = hooked
      BY <1>3
    <3> QED BY <1>11, <3>1, Zenon
  <2> QED BY <2>3, <2>4 DEF Late
<1>20. HarmOnlyFromSkippedCallback'
  <2>1. Reentered(t) = {}
    BY <1>1 DEF SInv, Ordered, Reentered
  <2>2. d.harm # {} => skipped
    <3>1. level # "gone" /\ o # None => o \in scene
      BY <1>4, <1>5 DEF SInv, Accounted, ObjectsAccounted, Recorded, Maps, o
    <3> QED BY <1>6, <3>1 DEF SInv, Accounted, DestroyedTo
  <2> QED BY <1>2, <1>3, <1>6, <2>1, <2>2 DEF SInv, DestroyedTo, HarmOnlyFromSkippedCallback
<1> QED BY <1>10, <1>12, <1>13, <1>14, <1>15, <1>18, <1>19, <1>20 DEF SInv

LEMMA KeepsSInv ==
  ASSUME SInv, NEW t \in Mutators, NEW p \in Pawns, Keeps(t, p)
  PROVE  SInv'
<1> DEFINE m == section[t].map
<1>1. /\ section[t].job = "update" /\ p \in section[t].left /\ m \in Maps /\ Visited(t, p)
      /\ pending' = pending \/ pending' = pending \ {p}
      /\ UNCHANGED <<host, todo, mutating, worker, skipped>>
      /\ UNCHANGED <<scene, objects, disabled, lost, forgotten, late>>
      /\ objects[m][p] # None
      /\ harm' = harm \cup IF m = "backtrack" /\ objects[m][p] \notin scene THEN {"dangling"} ELSE {}
  BY DEF Keeps, Keep
<1> HIDE DEF m
<1>2. UNCHANGED <<level, pawns, hooked, ready, todo, mutating, worker, skipped, scene, objects, disabled,
                 lost, forgotten, late, scene_system>>
  BY <1>1 DEF host
<1>3. /\ section' \in [Mutators -> Sections]
      /\ \A u \in Mutators : section'[u].map = section[u].map /\ section'[u].job = section[u].job
      /\ \A u \in Mutators : u # t => section'[u] = section[u]
  BY <1>1, VisitedIs
<1>4. Typed'
  BY <1>1, <1>2, <1>3 DEF SInv, Typed
<1>5. Ordered' /\ Locked'
  BY <1>1, VisitOrder DEF m
<1>6. Accounted' /\ DrawsAreSafe'
  BY <1>2 DEF SInv, Accounted, ObjectsAccounted, Recorded, DrawsAreSafe
<1>7. \A k, q : Cleaned(k, q) => Cleaned(k, q)'
  BY <1>1, <1>2 DEF Cleaned
<1>8. Emptied'
  <2>1. \A k : \A u \in Mutators : section'[u].job = "shutdown" /\ section'[u].map = k =>
           \A q \in Pawns \ section'[u].left : Cleaned(k, q)'
    BY <1>1, <1>3, <1>7 DEF SInv, Emptied
  <2> QED BY <1>2, <1>7, <2>1 DEF SInv, Emptied, Clean
<1>9. Late'
  <2>1. hooked
    BY <1>1, Alone DEF m
  <2>2. hooked'
    <3>1. hooked' = hooked
      BY <1>2
    <3> QED BY <2>1, <3>1, Zenon
  <2> QED BY <1>2, <2>2 DEF SInv, Late, DetachPast, Recorded
<1>10. HarmOnlyFromSkippedCallback'
  <2>1. level # "gone" => objects[m][p] \in scene
    BY <1>1 DEF SInv, Accounted, ObjectsAccounted, Recorded, Maps
  <2> QED BY <1>1, <1>2, <2>1 DEF SInv, Accounted, HarmOnlyFromSkippedCallback
<1> QED BY <1>4, <1>5, <1>6, <1>8, <1>9, <1>10 DEF SInv

LEMMA VisitSInv ==
  ASSUME SInv, NEW t \in Mutators, Visit(t)
  PROVE  SInv'
<1>1. PICK p \in Pawns : Keeps(t, p) \/ \E d, c : Replaces(t, p, d, c)
  BY VisitCases
<1>2. CASE Keeps(t, p)
  BY <1>2, KeepsSInv
<1>3. CASE \E d, c : Replaces(t, p, d, c)
  BY <1>3, ReplacesSInv
<1> QED BY <1>1, <1>2, <1>3

----------------------------------------------------------------------------
(* The workers                                                               *)

LEMMA RestingWorks == Resting \in Works /\ Resting.pc = "idle" /\ Resting.locks = {}
  BY DEF Resting, Works

LEMMA GoesSInv ==
  ASSUME SInv, NEW w \in Workers, NEW r \in Works, Goes(w, r),
         r # Resting => level \in {"up", "going"},
         \A m \in r.locks : ~Exclusive(m),
         r.pc = "draw" => /\ r.locks = Maps /\ r.targets \subseteq scene
                          /\ r.drawn \notin Recorded("backtrack") \cup Recorded("onshot")
  PROVE  SInv'
<1>1. /\ worker' = [worker EXCEPT ![w] = r]
      /\ UNCHANGED <<level, pawns, hooked, ready, todo, section, mutating, scene, objects, pending,
                     disabled, skipped, lost, forgotten, late, harm, scene_system>>
  BY DEF Goes, host, control, history
<1>2. worker' \in [Workers -> Works] /\ worker'[w] = r /\ \A v \in Workers : v # w => worker'[v] = worker[v]
  BY <1>1 DEF SInv, Typed
<1>3. Typed' /\ Ordered'
  BY <1>1, <1>2 DEF SInv, Typed, Ordered
<1>4. Locked'
  BY <1>1, <1>2 DEF SInv, Locked, Exclusive
<1>5. DrawsAreSafe'
  BY <1>1, <1>2 DEF SInv, DrawsAreSafe, Recorded
<1>6. Accounted' /\ Emptied'
  BY <1>1 DEF SInv, Accounted, ObjectsAccounted, Recorded, Emptied, Clean, Cleaned
<1>7. Late' /\ HarmOnlyFromSkippedCallback'
  BY <1>1 DEF SInv, Late, DetachPast, Idle, Recorded, UnloadLeavesOnlyLate, HarmOnlyFromSkippedCallback
<1> QED BY <1>3, <1>4, <1>5, <1>6, <1>7 DEF SInv

LEMMA ArriveSInv ==
  ASSUME SInv, NEW w \in Workers, Arrive(w)
  PROVE  SInv'
<1>1. PICK x \in scene \X {None} \cup {None} \X pawns :
         Goes(w, IF ready THEN [Resting EXCEPT !.pc = "backtrack", !.drawn = x[1], !.owner = x[2]]
                          ELSE [Resting EXCEPT !.pc = "engine"])
  BY DEF Arrive
<1>2. level \in {"up", "going"}
  BY DEF Arrive
<1>3. x[1] \in Objects \cup {None} /\ x[2] \in Pawns \cup {None}
  BY <1>1 DEF SInv, Typed
<1> DEFINE a == [Resting EXCEPT !.pc = "backtrack", !.drawn = x[1], !.owner = x[2]]
<1> DEFINE b == [Resting EXCEPT !.pc = "engine"]
<1>4. a \in Works /\ a.locks = {} /\ a.pc = "backtrack"
  BY <1>3 DEF Resting, Works, Maps
<1>5. b \in Works /\ b.locks = {} /\ b.pc = "engine"
  BY DEF Resting, Works, Maps
<1> HIDE DEF a, b
<1>6. Goes(w, a) \/ Goes(w, b)
  BY <1>1 DEF a, b
<1> QED BY <1>2, <1>4, <1>5, <1>6, GoesSInv

\* A worker that is on its way is on it in a level.
LEMMA OnItsWay ==
  ASSUME SInv, NEW w \in Workers, worker[w].pc # "idle"
  PROVE  level \in {"up", "going"} /\ worker[w] \in Works
  BY RestingWorks DEF SInv, Locked, Typed

LEMMA TryLockSInv ==
  ASSUME SInv, NEW w \in Workers, TryLock(w)
  PROVE  SInv'
<1> DEFINE m == worker[w].pc
<1> DEFINE r == [worker[w] EXCEPT !.pc = IF m = "backtrack" THEN "onshot" ELSE "locked",
                                  !.locks = IF Exclusive(m) THEN worker[w].locks ELSE worker[w].locks \cup {m}]
<1>1. m \in Maps /\ Goes(w, r)
  BY DEF TryLock
<1>2. level \in {"up", "going"} /\ worker[w] \in Works
  BY <1>1, OnItsWay DEF Maps
<1>3. /\ r \in Works /\ r.pc # "draw"
      /\ r.locks = IF Exclusive(m) THEN worker[w].locks ELSE worker[w].locks \cup {m}
  BY <1>1, <1>2 DEF Works, Maps
<1>4. \A k \in r.locks : ~Exclusive(k)
  BY <1>3 DEF SInv, Locked
<1> HIDE DEF r
<1> QED BY <1>1, <1>2, <1>3, <1>4, GoesSInv

LEMMA LocksMissingSInv ==
  ASSUME SInv, NEW w \in Workers, LocksMissing(w)
  PROVE  SInv'
<1> DEFINE r == [Resting EXCEPT !.pc = "engine", !.locks = worker[w].locks]
<1>1. worker[w].pc = "locked" /\ Goes(w, r)
  BY DEF LocksMissing
<1>2. level \in {"up", "going"} /\ worker[w] \in Works
  BY <1>1, OnItsWay
<1>3. r \in Works /\ r.pc = "engine" /\ r.locks = worker[w].locks
  BY <1>2 DEF Works, Resting, Maps
<1>4. \A k \in r.locks : ~Exclusive(k)
  BY <1>3 DEF SInv, Locked
<1> HIDE DEF r
<1> QED BY <1>1, <1>2, <1>3, <1>4, GoesSInv

\* It draws what is recorded, under both locks, and the level is not gone: all of it is there.
LEMMA DrawSInv ==
  ASSUME SInv, NEW w \in Workers, Draw(w)
  PROVE  SInv'
<1> DEFINE g == IF disabled \/ worker[w].owner = None THEN {}
                ELSE {objects[m][worker[w].owner] : m \in Maps} \ {None}
<1> DEFINE r == [worker[w] EXCEPT !.pc = "draw", !.owner = None, !.targets = g]
<1>1. /\ worker[w].pc = "locked" /\ worker[w].locks = Maps /\ Goes(w, r)
      /\ worker[w].drawn \notin Recorded("backtrack") \cup Recorded("onshot")
  BY DEF Draw
<1>2. level \in {"up", "going"} /\ worker[w] \in Works
  BY <1>1, OnItsWay
<1>3. g \subseteq Recorded("backtrack") \cup Recorded("onshot")
  <2>1. CASE disabled \/ worker[w].owner = None
    BY <2>1
  <2>2. CASE ~(disabled \/ worker[w].owner = None)
    <3>1. worker[w].owner \in Pawns
      BY <1>2, <2>2 DEF Works
    <3> QED BY <2>2, <3>1 DEF Recorded, Maps
  <2> QED BY <2>1, <2>2
<1>4. g \subseteq scene
  BY <1>2, <1>3 DEF SInv, Accounted, ObjectsAccounted
<1>5. g \subseteq Objects
  BY <1>4 DEF SInv, Typed
<1> HIDE DEF g
<1>6. /\ r \in Works /\ r.locks = Maps /\ r.targets = g /\ r.drawn = worker[w].drawn
  BY <1>1, <1>2, <1>5 DEF Works
<1>7. \A k \in r.locks : ~Exclusive(k)
  BY <1>1, <1>6 DEF SInv, Locked
<1> HIDE DEF r
<1> QED BY <1>1, <1>2, <1>4, <1>6, <1>7, GoesSInv

LEMMA WorkerSInv ==
  ASSUME SInv, NEW w \in Workers, WorkerStep(w)
  PROVE  SInv'
<1>1. CASE TryLock(w)
  BY <1>1, TryLockSInv
<1>2. CASE LocksMissing(w)
  BY <1>2, LocksMissingSInv
<1>3. CASE Goes(w, Resting)
  BY <1>3, RestingWorks, GoesSInv
<1>4. CASE Draw(w)
  BY <1>4, DrawSInv
<1> QED BY <1>1, <1>2, <1>3, <1>4 DEF WorkerStep, SkipRecorded, Finish

----------------------------------------------------------------------------
(* Every step                                                                *)

LEMMA CallbacksSInv == SInv /\ Callbacks => SInv'
<1> SUFFICES ASSUME SInv, Callbacks PROVE SInv'
  OBVIOUS
<1> "game" \in Mutators
  BY DEF Mutators
<1>1. CASE FrameStage6
  <2>1. Schedule("game", Frame2) /\ UNCHANGED <<host, history>>
    BY <1>1, Lists DEF FrameStage6
  <2>2. Given("game", Frame2)
    BY Differ DEF Given
  <2>3. UNCHANGED <<pawns, hooked, ready, scene_system, history>> /\ level' = level
    BY <2>1 DEF host
  <2> QED BY <2>1, <2>2, <2>3, ScheduleSInv
<1>2. CASE FireShot
  <2>1. level = "up" /\ Schedule("game", Shot) /\ UNCHANGED <<host, history>>
    BY <1>2, Lists DEF FireShot
  <2>2. UNCHANGED <<pawns, hooked, ready, scene_system, history>> /\ level' = level
    BY <2>1 DEF host
  <2>3. Given("game", Shot)
    BY <2>1, <2>2 DEF Given
  <2> QED BY <2>1, <2>2, <2>3, ScheduleSInv
<1>3. CASE LevelShutdown
  <2>1. /\ level = "up" /\ level' = "going" /\ Schedule("game", Away3("tear down"))
        /\ UNCHANGED <<pawns, hooked, ready, scene_system, history>>
    BY <1>3, Lists DEF LevelShutdown
  <2>2. Given("game", Away3("tear down"))
    BY Differ DEF Given
  <2> QED BY <2>1, <2>2, ScheduleSInv
<1>4. CASE LevelInitialization
  <2>1. Schedule("game", Away3("set up")) /\ UNCHANGED <<host, history>>
    BY <1>4, Lists DEF LevelInitialization
  <2>2. Given("game", Away3("set up"))
    BY Differ DEF Given
  <2>3. UNCHANGED <<pawns, hooked, ready, scene_system, history>> /\ level' = level
    BY <2>1 DEF host
  <2> QED BY <2>1, <2>2, <2>3, ScheduleSInv
<1>5. CASE LevelEndsUnannounced
  BY <1>5, LevelEndsSInv
<1> QED BY <1>1, <1>2, <1>3, <1>4, <1>5 DEF Callbacks

LEMMA DetachSInv == SInv /\ Detach => SInv'
<1> SUFFICES ASSUME SInv, Detach PROVE SInv'
  OBVIOUS
<1>1. Schedule("detach", Away3("unhook")) /\ UNCHANGED <<host, history>>
  BY Lists DEF Detach
<1>2. Given("detach", Away3("unhook"))
  BY Differ DEF Given
<1>3. UNCHANGED <<pawns, hooked, ready, scene_system, history>> /\ level' = level /\ "detach" \in Mutators
  BY <1>1 DEF host, Mutators
<1> QED BY <1>1, <1>2, <1>3, ScheduleSInv

LEMMA HostSInv == SInv /\ (SetReady \/ PlayersChange) => SInv'
<1> SUFFICES ASSUME SInv, SetReady \/ PlayersChange PROVE SInv'
  OBVIOUS
<1>1. CASE SetReady
  <2>1. pawns' \in SUBSET Pawns /\ ready' \in BOOLEAN
    BY <1>1 DEF SetReady, SInv, Typed
  <2> QED BY <1>1, <2>1, QuietSInv DEF SetReady
<1>2. CASE PlayersChange
  <2>1. ready' \in BOOLEAN
    BY <1>2 DEF PlayersChange, SInv, Typed
  <2>2. PICK p \in Pawns : pawns' = IF p \in pawns THEN pawns \ {p} ELSE pawns \cup {p}
    BY <1>2 DEF PlayersChange
  <2>3. pawns' \in SUBSET Pawns
    BY <2>2 DEF SInv, Typed
  <2> QED BY <1>2, <2>1, <2>3, QuietSInv DEF PlayersChange
<1> QED BY <1>1, <1>2

\* The beginning and the end of a level.
LEMMA TearDownSInv == SInv /\ TearDown => SInv'
  BY LevelSInv DEF TearDown

LEMMA SetUpSInv == SInv /\ SetUp => SInv'
  BY LevelSInv DEF SetUp

LEMMA NextSInv == SInv /\ [Next]_vars => SInv'
<1> SUFFICES ASSUME SInv, [Next]_vars PROVE SInv'
  OBVIOUS
<1>1. CASE Callbacks
  BY <1>1, CallbacksSInv
<1>2. CASE Detach
  BY <1>2, DetachSInv
<1>3. CASE SetReady \/ PlayersChange
  BY <1>3, HostSInv
<1>4. ASSUME NEW t \in Mutators, Enter(t) PROVE SInv'
  BY <1>4, EnterSInv
<1>5. ASSUME NEW t \in Mutators, MutatorStep(t) PROVE SInv'
  BY <1>5, VisitSInv, PushSInv, LeaveMapSInv DEF MutatorStep
<1>6. CASE TearDown
  BY <1>6, TearDownSInv
<1>7. CASE SetUp
  BY <1>7, SetUpSInv
<1>8. CASE Unhook
  BY <1>8, UnhookSInv
<1>9. ASSUME NEW w \in Workers, Arrive(w) \/ WorkerStep(w) PROVE SInv'
  BY <1>9, ArriveSInv, WorkerSInv
<1>10. CASE UNCHANGED vars
  <2>1. UNCHANGED <<level, hooked, scene, objects, pending, disabled, control, worker, history, pawns, ready,
                    scene_system>>
    BY <1>10 DEF vars, control, history
  <2>2. pawns' \in SUBSET Pawns /\ ready' \in BOOLEAN
    BY <2>1 DEF SInv, Typed
  <2> QED BY <2>1, <2>2, QuietSInv
<1> QED BY <1>1, <1>2, <1>3, <1>4, <1>5, <1>6, <1>7, <1>8, <1>9, <1>10 DEF Next

\* The invariant of the scene objects holds for any pawns, addresses and workers.
THEOREM ObjectsAreKept == Spec => []SInv
<1>1. Init => SInv
  BY InitSInv
<1>2. SInv /\ [Next]_vars => SInv'
  BY NextSInv
<1> QED BY <1>1, <1>2, PTL DEF Spec

\* A worker that holds both locks draws only with objects that the scene holds, and never
\* hands a recorded one to the engine, whatever the threads do meanwhile.
THEOREM DrawsAreAlwaysSafe == Spec => []DrawsAreSafe
<1>1. SInv => DrawsAreSafe
  BY DEF SInv
<1> QED BY <1>1, ObjectsAreKept, PTL

\* The scene holds each object made here recorded, once, or it was lost in a fault, after
\* which the path stays disabled, or forgotten, which takes a missing scene system.
THEOREM ObjectsAreAccounted == Spec => []ObjectsAccounted
<1>1. SInv => ObjectsAccounted
  BY DEF SInv, Accounted
<1> QED BY <1>1, ObjectsAreKept, PTL

\* The engine is not called on a dangling object but between an unannounced end and the
\* beginning of the next level, and no thread ever tries a lock it holds.
THEOREM HarmAlwaysFromSkippedCallback == Spec => []HarmOnlyFromSkippedCallback
<1>1. SInv => HarmOnlyFromSkippedCallback
  BY DEF SInv
<1> QED BY <1>1, ObjectsAreKept, PTL

\* Once the hooks are gone the scene holds only what was made after the detaching thread
\* had been through its map, and what could not be destroyed: lost, or forgotten.
THEOREM UnloadAlwaysLeavesOnlyLate == Spec => []UnloadLeavesOnlyLate
<1>1. SInv => UnloadLeavesOnlyLate
  BY DEF SInv, Late, UnloadLeavesOnlyLate
<1> QED BY <1>1, ObjectsAreKept, PTL

\* A level begins with both maps empty and no shot waiting.
LEMMA CleanStart ==
  SInv /\ [Next]_vars =>
    [level # "up" /\ level' = "up" =>
       pending' = {} /\ \A m \in Maps, p \in Pawns : objects'[m][p] = None]_vars
<1> SUFFICES ASSUME SInv, [Next]_vars, level # "up", level' = "up"
             PROVE  pending' = {} /\ \A m \in Maps, p \in Pawns : objects'[m][p] = None
  OBVIOUS
<1>1. SetUp
  BY DEF Next, Callbacks, Detach, FrameStage6, FireShot, LevelShutdown, LevelInitialization, LevelEndsUnannounced,
         SetReady, PlayersChange, Enter, MutatorStep, Visit, Push, LeaveMap, TearDown, Unhook,
         Arrive, WorkerStep, TryLock, LocksMissing, SkipRecorded, Draw, Finish, Goes, host, vars
<1>2. todo["game"] = Away1("set up") /\ UNCHANGED <<objects, pending>>
  BY <1>1, AtEnd DEF SetUp, Proceed, Ends, Mutators
<1>3. Clean("backtrack") /\ Clean("onshot")
  BY <1>2 DEF SInv, Emptied, Ends
<1>4. pending = {}
  BY <1>3 DEF SInv, Typed, Clean, Cleaned
<1> QED BY <1>2, <1>3, <1>4 DEF Clean, Cleaned, Maps

\* Every level starts clean, however the last one ended and whoever was interrupted.
THEOREM LevelAlwaysStartsClean == Spec => LevelStartsClean
<1> QED BY CleanStart, ObjectsAreKept, PTL DEF Spec, LevelStartsClean
=============================================================================
