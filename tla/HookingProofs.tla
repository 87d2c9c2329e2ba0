--------------------------- MODULE HookingProofs ---------------------------
(***************************************************************************)
(* The hooks, for any functions, hooks, thunks, script of batches and      *)
(* shutdown order that satisfy the assumptions of Hooking: type            *)
(* correctness, the ownership of every patch, the accounting of            *)
(* trampolines, batches as a whole, what a shutdown leaves, and that a     *)
(* call of a hooked function reaches its hooks.                            *)
(*                                                                         *)
(* Then the same with callers (HookedCalls), for any number of them: what  *)
(* is proved of Hooking holds while they call, a call comes to harm only   *)
(* from the removal of a hook, and one that no removal overlaps runs what  *)
(* it should, once.                                                        *)
(***************************************************************************)
EXTENDS HookedCalls, FiniteSetTheorems, SequenceTheorems, WellFoundedInduction, TLAPS

\* What a valid hook remembers about the location it patches: it displaced an
\* unpatched prologue, which is also what was there at first, and no other
\* valid hook patches the same location.
HookRecords ==
  /\ \A h \in Hooks : target[h] = Null <=> tramp[h] = Null
  /\ \A h \in Hooks : Valid(h) => saved[h] = Body /\ Thunk[target[h]] = Body
  /\ \A h \in Hooks : Valid(h) => Group[target[h]] = Group[h]
  /\ \A g, h \in Hooks : Valid(g) /\ Valid(h) /\ target[g] = target[h] => g = h

\* Jumps stay inside a group, so two lazy hooks never meet.
JumpsStayInGroup == \A l \in Locs : code[l] # Body => Group[code[l]] = Group[l]

\* A hook that is valid and not enabled is a lazy hook whose enable was
\* refused, or it is about to be enabled or reset.
Dormant ==
  \A h \in Hooks : Valid(h) /\ ~enabled[h] =>
    \/ h \in LazyHooks
    \/ phase = "enable" /\ h = Current
    \/ phase \in {"reset", "free"} /\ \E i \in 1..Len(todo) : todo[i] = h

\* What the program counter knows.
Control ==
  /\ stage = "install" /\ phase # "idle" => at \in 1..Len(Script)
  /\ phase \in {"create", "follow", "enable"} /\ client = Null =>
       /\ stage = "install"
       /\ \A i \in 1..Len(Batch) : Request[Batch[i]] # Null
       /\ phase # "create" => cursor \in 1..Len(Batch)
  /\ client # Null => Request[client] # Null /\ phase \in {"create", "follow", "enable"}
  /\ phase = "follow" => ~Valid(Current) /\ resolved \in Locs /\ Group[resolved] = Group[Current]
  /\ phase = "enable" => Valid(Current)
  /\ phase = "free" =>
       /\ todo # <<>> /\ Valid(Head(todo))
       /\ enabled[Head(todo)] => <<target[Head(todo)], Head(todo)>> \in lost

IInv ==
  /\ TypeOK
  /\ PatchOwnership
  /\ EnabledIsPatched
  /\ TrampolinesAccounted
  /\ HookRecords
  /\ JumpsStayInGroup
  /\ Dormant
  /\ Control

----------------------------------------------------------------------------

LEMMA BatchType ==
  ASSUME at \in 1..Len(Script)
  PROVE  Batch \in Seq(Hooks) /\ Script[at].required \in BOOLEAN
<1>1. Script[at] \in [hooks : Seq(Hooks), required : BOOLEAN]
  <2> DEFINE R == [hooks : Seq(Hooks), required : BOOLEAN]
  <2>1. Script \in Seq(R)
    BY ScriptAssumption
  <2> HIDE DEF R
  <2>2. Script[at] \in R
    BY <2>1
  <2>3. QED
    BY <2>2 DEF R
<1>2. QED
  BY <1>1 DEF Batch

LEMMA CurrentType ==
  ASSUME TypeOK, Control, phase \in {"follow", "enable"} \/ Creating
  PROVE  Current \in Hooks /\ Request[Current] \in Funcs
<1>1. CASE client = Null
  <2>1. at \in 1..Len(Script) /\ cursor \in 1..Len(Batch)
    BY <1>1 DEF TypeOK, Control, Creating
  <2>2. Batch[cursor] \in Hooks
    BY <2>1, BatchType
  <2>3. Request[Batch[cursor]] # Null
    BY <1>1, <2>1 DEF Control, Creating
  <2>4. QED
    BY <1>1, <2>2, <2>3, GroupAssumption DEF Current
<1>2. CASE client # Null
  BY <1>2, GroupAssumption, LocationAssumption DEF TypeOK, Control, Current
<1>3. QED
  BY <1>1, <1>2

\* Dropping the first element of a sequence loses no other element.
LEMMA TailKeepsOthers ==
  ASSUME NEW S, NEW q \in Seq(S), q # <<>>, NEW i \in 1..Len(q), q[i] # Head(q)
  PROVE  \E j \in 1..Len(Tail(q)) : Tail(q)[j] = q[i]
<1>1. i # 1 /\ i - 1 \in 1..Len(Tail(q))
  OBVIOUS
<1>2. Tail(q)[i - 1] = q[i]
  BY <1>1
<1>3. QED
  BY <1>1, <1>2

THEOREM InitEstablishes == Init => IInv
<1> SUFFICES ASSUME Init PROVE IInv
  OBVIOUS
<1> USE LocationAssumption, ScriptAssumption, GroupAssumption DEF Init
<1>1. TypeOK
  BY DEF TypeOK, Locs
<1>2. \A h \in Hooks : ~Valid(h)
  BY DEF Valid
<1>3. PatchOwnership /\ EnabledIsPatched
  BY DEF PatchOwnership, EnabledIsPatched
<1>4. TrampolinesAccounted
  BY <1>2 DEF TrampolinesAccounted
<1>5. HookRecords /\ JumpsStayInGroup /\ Dormant
  BY <1>2 DEF HookRecords, JumpsStayInGroup, Dormant
<1>6. Control
  BY DEF Control
<1>7. QED
  BY <1>1, <1>3, <1>4, <1>5, <1>6 DEF IInv

\* Steps that only move the program counter keep what is said of the hooks;
\* each must re-establish Dormant and Control.
LEMMA QuietStep ==
  ASSUME IInv, UNCHANGED <<code, jmpVars, live, lost>>
  PROVE  /\ PatchOwnership' /\ EnabledIsPatched' /\ TrampolinesAccounted'
         /\ HookRecords' /\ JumpsStayInGroup'
  BY DEF IInv, jmpVars, PatchOwnership, EnabledIsPatched, TrampolinesAccounted,
         HookRecords, JumpsStayInGroup, Valid

\* An invariant of the quiet steps: the three parts they can disturb suffice.
LEMMA QuietStepSuffices ==
  ASSUME IInv, UNCHANGED <<code, jmpVars, live, lost>>, TypeOK', Dormant', Control'
  PROVE  IInv'
  BY QuietStep DEF IInv

LEMMA BeginBatchStep == ASSUME IInv, BeginBatch PROVE IInv'
<1> USE DEF IInv, BeginBatch
<1>0. at \in 1..Len(Script) /\ client = Null
  BY LocationAssumption DEF TypeOK, Control
<1>1. TypeOK'
  BY <1>0, BatchType DEF TypeOK, BatchReturns, jmpVars
<1>2. Dormant'
  BY DEF Dormant, BatchReturns, Valid, jmpVars
<1>3. Control'
  <2>1. CASE \E i \in 1..Len(Batch) : Request[Batch[i]] = Null
    BY <1>0, <2>1 DEF Control, BatchReturns, jmpVars
  <2>2. CASE ~\E i \in 1..Len(Batch) : Request[Batch[i]] = Null
    <3>1. UNCHANGED <<Batch, at, stage, client>> /\ phase' = "create"
      BY <2>2 DEF Batch
    <3>2. stage = "install" /\ \A i \in 1..Len(Batch') : Request[Batch'[i]] # Null
      BY <2>2, <3>1
    <3> HIDE DEF BeginBatch, IInv
    <3>3. QED
      BY <1>0, <3>1, <3>2 DEF Control
  <2>3. QED
    BY <2>1, <2>2
<1>4. QED
  BY <1>1, <1>2, <1>3, QuietStepSuffices

LEMMA BeginLazyStep == ASSUME IInv, NEW h \in LazyHooks, BeginLazy(h) PROVE IInv'
<1> USE DEF IInv, BeginLazy
<1>1. TypeOK'
  BY DEF TypeOK, jmpVars
<1>2. Dormant'
  BY DEF Dormant, Valid, jmpVars
<1>3. Control'
  BY LocationAssumption DEF Control, Valid, jmpVars, Locs
<1>4. QED
  BY <1>1, <1>2, <1>3, QuietStepSuffices

LEMMA BatchDoneStep == ASSUME IInv, BatchDone PROVE IInv'
<1> USE DEF IInv, BatchDone
<1>0. at \in 1..Len(Script)
  BY DEF Control
<1>1. TypeOK'
  BY <1>0 DEF TypeOK, BatchReturns, jmpVars
<1>2. Dormant'
  BY DEF Dormant, BatchReturns, Valid, jmpVars
<1>3. Control'
  BY <1>0 DEF Control, BatchReturns, jmpVars
<1>4. QED
  BY <1>1, <1>2, <1>3, QuietStepSuffices

LEMMA CreateBeginStep == ASSUME IInv, CreateBegin PROVE IInv'
<1> USE DEF IInv, CreateBegin
<1>0. Current \in Hooks /\ Request[Current] \in Funcs
  BY CurrentType
<1>1. Current' = Current /\ UNCHANGED Batch
  BY DEF Current, Batch
<1>2. TypeOK'
  BY <1>0, LocationAssumption DEF TypeOK, jmpVars, Locs
<1>3. Dormant'
  BY <1>1 DEF Dormant, Valid, jmpVars, Creating
<1>4. Control'
  <2>1. Request[Current] \in Locs /\ Group[Request[Current]] = Group[Current]
    BY <1>0, GroupAssumption, LocationAssumption DEF Locs
  <2>2. client = Null => cursor \in 1..Len(Batch)
    <3>1. client = Null => Len(Batch) \in Nat
      BY BatchType DEF Control, Creating
    <3>2. QED
      BY <3>1 DEF Creating, TypeOK
  <2>3. QED
    BY <1>0, <1>1, <2>1, <2>2 DEF Control, Valid, jmpVars, Creating
<1>5. QED
  BY <1>2, <1>3, <1>4, QuietStepSuffices

LEMMA FollowJumpStep == ASSUME IInv, FollowJump PROVE IInv'
<1> USE DEF IInv, FollowJump
<1>0. resolved \in Locs /\ Group[resolved] = Group[Current]
  BY DEF Control
<1>1. Current' = Current /\ UNCHANGED Batch
  BY DEF Current, Batch
<1>2. code[resolved] \in Locs /\ Group[code[resolved]] = Group[resolved]
  BY <1>0 DEF TypeOK, JumpsStayInGroup
<1>3. TypeOK'
  BY <1>2, LocationAssumption DEF TypeOK, jmpVars
<1>4. Dormant'
  BY DEF Dormant, Valid, jmpVars
<1>5. Control'
  BY <1>0, <1>1, <1>2 DEF Control, Valid, jmpVars
<1>6. QED
  BY <1>3, <1>4, <1>5, QuietStepSuffices

\* A create that fails leaves its hook as it was: invalid, or valid and not
\* enabled when it was enable() that was refused.
LEMMA CreateFailsStep ==
  ASSUME IInv, CreateFails, phase \in {"follow", "enable"}
  PROVE  IInv'
<1> USE DEF IInv, CreateFails
<1>0. client = Null => at \in 1..Len(Script) /\ Batch \in Seq(Hooks) /\ cursor \in 1..Len(Batch)
  BY BatchType DEF Control
<1>1. TypeOK'
  BY <1>0, LocationAssumption DEF TypeOK, jmpVars
<1>2. Dormant'
  <2> SUFFICES ASSUME NEW h \in Hooks, Valid(h), ~enabled[h], h \notin LazyHooks
               PROVE  phase' = "reset" /\ \E i \in 1..Len(todo') : todo'[i] = h
    BY DEF Dormant, Valid, jmpVars
  <2>1. phase = "enable" /\ h = Current
    BY DEF Dormant
  <2>2. client = Null
    BY <2>1 DEF Current, TypeOK
  <2>3. h = Batch[cursor]
    BY <2>1, <2>2 DEF Current
  <2>4. QED
    BY <1>0, <2>2, <2>3
<1>3. Control'
  BY <1>0 DEF Control, jmpVars
<1>4. QED
  BY <1>1, <1>2, <1>3, QuietStepSuffices

LEMMA ResetSkipsStep == ASSUME IInv, ResetSkips PROVE IInv'
<1> USE DEF IInv, ResetSkips
<1>1. TypeOK'
  BY DEF TypeOK, jmpVars
<1>2. Dormant'
  <2> SUFFICES ASSUME NEW h \in Hooks, Valid(h), ~enabled[h], h \notin LazyHooks
               PROVE  \E i \in 1..Len(Tail(todo)) : Tail(todo)[i] = h
    BY DEF Dormant, Valid, jmpVars
  <2>1. PICK i \in 1..Len(todo) : todo[i] = h
    BY DEF Dormant
  <2>2. todo[i] # Head(todo)
    BY <2>1
  <2>3. QED
    BY <2>1, <2>2, TailKeepsOthers DEF TypeOK
<1>3. Control'
  BY DEF Control, Valid, jmpVars, Batch
<1>4. QED
  BY <1>1, <1>2, <1>3, QuietStepSuffices

LEMMA RollbackDoneStep == ASSUME IInv, RollbackDone PROVE IInv'
<1> USE DEF IInv, RollbackDone
<1>0. at \in 1..Len(Script)
  BY DEF Control
<1>1. TypeOK'
  BY <1>0 DEF TypeOK, BatchReturns, jmpVars
<1>2. Dormant'
  BY DEF Dormant, BatchReturns, Valid, jmpVars, TypeOK
<1>3. Control'
  BY <1>0 DEF Control, BatchReturns, jmpVars
<1>4. QED
  BY <1>1, <1>2, <1>3, QuietStepSuffices

LEMMA LifeCycleStep ==
  ASSUME IInv, SetReady \/ InitializationFails \/ Detach \/ Unload
  PROVE  IInv'
<1> USE DEF IInv, SetReady, InitializationFails, Detach, Unload
<1>1. TypeOK'
  BY ScriptAssumption DEF TypeOK, jmpVars, seqVars
<1>2. Dormant'
  BY DEF Dormant, Valid, jmpVars, seqVars, TypeOK
<1>3. Control'
  BY DEF Control, Valid, jmpVars, seqVars
<1>4. QED
  BY <1>1, <1>2, <1>3, QuietStepSuffices DEF seqVars

----------------------------------------------------------------------------
(* The four steps that change a hook.                                        *)

LEMMA CreateCommitsStep == ASSUME IInv, NEW t \in Tramps, CreateCommits(t) PROVE IInv'
<1> USE DEF IInv, CreateCommits
<1> DEFINE h == Current
<1>0. h \in Hooks /\ ~Valid(h) /\ resolved \in Locs /\ Group[resolved] = Group[h]
  BY CurrentType DEF Control
<1>1. Current' = h /\ UNCHANGED Batch
  BY DEF Current, Batch
<1> HIDE DEF h
<1>2. /\ target' = [target EXCEPT ![h] = resolved]
      /\ tramp' = [tramp EXCEPT ![h] = t]
      /\ saved' = [saved EXCEPT ![h] = Body]
      /\ enabled' = [enabled EXCEPT ![h] = FALSE]
  BY DEF h
<1>3. TypeOK'
  <2>0. /\ target \in [Hooks -> Locs \cup {Null}] /\ tramp \in [Hooks -> Tramps \cup {Null}]
        /\ saved \in [Hooks -> Locs \cup {Body, Null}] /\ enabled \in [Hooks -> BOOLEAN]
    BY DEF TypeOK
  <2> HIDE DEF IInv, CreateCommits
  <2>a. target' \in [Hooks -> Locs \cup {Null}]
    BY <1>0, <1>2, <2>0
  <2>b. tramp' \in [Hooks -> Tramps \cup {Null}]
    BY <1>0, <1>2, <2>0
  <2>c. saved' \in [Hooks -> Locs \cup {Body, Null}]
    BY <1>0, <1>2, <2>0
  <2>d. enabled' \in [Hooks -> BOOLEAN]
    BY <1>0, <1>2, <2>0
  <2> USE DEF IInv, CreateCommits
  <2>1. /\ target' \in [Hooks -> Locs \cup {Null}] /\ tramp' \in [Hooks -> Tramps \cup {Null}]
        /\ saved' \in [Hooks -> Locs \cup {Body, Null}] /\ enabled' \in [Hooks -> BOOLEAN]
    BY <2>a, <2>b, <2>c, <2>d
  <2>2. live' \subseteq Tramps /\ depth' \in 0..FollowLimit - 1
    BY LocationAssumption DEF TypeOK
  <2>3. QED
    BY <2>1, <2>2 DEF TypeOK
<1>4. \A g \in Hooks : Valid(g)' <=> g = h \/ Valid(g)
  BY <1>0, <1>2, LocationAssumption DEF Valid, TypeOK
<1>5. ~enabled[h] /\ \A g \in Hooks \ {h} : enabled'[g] = enabled[g]
  BY <1>0, <1>2, ZenonT(60) DEF EnabledIsPatched, TypeOK
<1>6. \A g \in Hooks \ {h} : target'[g] = target[g] /\ tramp'[g] = tramp[g] /\ saved'[g] = saved[g]
  BY <1>2 DEF TypeOK
<1>7. target'[h] = resolved /\ tramp'[h] = t /\ saved'[h] = Body /\ ~enabled'[h]
  BY <1>0, <1>2 DEF TypeOK
<1>8. PatchOwnership'
  <2> SUFFICES ASSUME NEW l \in Locs, code[l] # Thunk[l]
               PROVE  \E g \in Hooks : code[l] = g /\ (<<l, g>> \in lost \/
                        (enabled'[g] /\ target'[g] = l /\ tramp'[g] \in live'))
    BY DEF PatchOwnership
  <2>1. PICK g \in Hooks : code[l] = g /\ (<<l, g>> \in lost \/
                        (enabled[g] /\ target[g] = l /\ tramp[g] \in live))
    BY DEF PatchOwnership
  <2>2. live \subseteq live'
    OBVIOUS
  <2> HIDE DEF IInv, CreateCommits
  <2>3. CASE <<l, g>> \in lost
    BY <2>1, <2>3
  <2>4. CASE enabled[g] /\ target[g] = l /\ tramp[g] \in live
    <3>1. g \in Hooks \ {h}
      BY <1>5, <2>4
    <3>2. enabled'[g] /\ target'[g] = l /\ tramp'[g] \in live'
      BY <1>5, <1>6, <2>2, <2>4, <3>1
    <3>3. QED
      BY <2>1, <3>2
  <2>5. QED
    BY <2>1, <2>3, <2>4
<1>9. EnabledIsPatched'
  BY <1>4, <1>5, <1>6, <1>7 DEF EnabledIsPatched
<1>10. TrampolinesAccounted'
  <2>1. \A g \in Hooks : Valid(g) => tramp[g] \in live /\ g # h
    BY <1>0 DEF TrampolinesAccounted
  <2>2. live' = {tramp'[g] : g \in {x \in Hooks : Valid(x)'}}
    BY <1>0, <1>4, <1>6, <1>7, <2>1 DEF TrampolinesAccounted
  <2>3. QED
    BY <1>4, <1>6, <1>7, <2>1, <2>2 DEF TrampolinesAccounted
<1>11. HookRecords'
  <2>1. Thunk[resolved] = Body
    <3>1. code[resolved] \notin Hooks
      BY LocationAssumption DEF Locs
    <3>2. QED
      BY <1>0, <3>1 DEF PatchOwnership
  <2>2. \A g \in Hooks \ {h} : Valid(g) => target[g] # resolved
    <3> SUFFICES ASSUME NEW g \in Hooks \ {h}, Valid(g), target[g] = resolved PROVE FALSE
      OBVIOUS
    <3>1. ~enabled[g]
      BY LocationAssumption DEF EnabledIsPatched, Locs
    <3>2. g \in LazyHooks
      BY <3>1 DEF Dormant
    <3>3. Group[g] = Group[h]
      BY <1>0 DEF HookRecords
    <3>4. QED
      BY <1>0, <3>2, <3>3, GroupAssumption
  <2>3. \A g \in Hooks : target'[g] = Null <=> tramp'[g] = Null
    BY <1>0, <1>6, <1>7, LocationAssumption DEF HookRecords
  <2>4. \A g \in Hooks : Valid(g)' =>
          saved'[g] = Body /\ Thunk[target'[g]] = Body /\ Group[target'[g]] = Group[g]
    BY <1>0, <1>4, <1>6, <1>7, <2>1 DEF HookRecords
  <2>5. \A g, k \in Hooks : Valid(g)' /\ Valid(k)' /\ target'[g] = target'[k] => g = k
    BY <1>4, <1>6, <1>7, <2>2 DEF HookRecords
  <2>6. QED
    BY <2>3, <2>4, <2>5 DEF HookRecords
<1>12. JumpsStayInGroup'
  BY DEF JumpsStayInGroup
<1>13. Dormant'
  BY <1>1, <1>4, <1>5 DEF Dormant, h
<1>14. Control'
  <2>1. Valid(Current)'
    BY <1>0, <1>1, <1>4 DEF h
  <2>2. QED
    BY <1>1, <2>1 DEF Control, h
<1>15. QED
  BY <1>3, <1>8, <1>9, <1>10, <1>11, <1>12, <1>13, <1>14

LEMMA EnableSucceedsStep == ASSUME IInv, EnableSucceeds PROVE IInv'
<1> USE DEF IInv, EnableSucceeds
<1> DEFINE h == Current
<1>0. h \in Hooks /\ Valid(h) /\ target[h] \in Locs
  BY CurrentType DEF Control, Valid, TypeOK
<1> HIDE DEF h
<1>1. code' = [code EXCEPT ![target[h]] = h] /\ enabled' = [enabled EXCEPT ![h] = TRUE]
  BY <1>0, ZenonT(60) DEF h, EnabledIsPatched, TypeOK
<1>2. TypeOK'
  BY <1>0, <1>1 DEF TypeOK, Locs, h
<1>3. UNCHANGED <<target, tramp, saved, live, lost, todo, stage, at>> /\ \A g \in Hooks : Valid(g)' <=> Valid(g)
  BY DEF Valid
<1>4. \A g \in Hooks : Valid(g) /\ target[g] = target[h] => g = h
  BY <1>0 DEF HookRecords
<1>5. PatchOwnership'
  <2> SUFFICES ASSUME NEW l \in Locs, code'[l] # Thunk[l]
               PROVE  \E g \in Hooks : code'[l] = g /\ (<<l, g>> \in lost \/
                        (enabled'[g] /\ target[g] = l /\ tramp[g] \in live))
    BY <1>3, SMTT(40) DEF PatchOwnership
  <2>1. CASE l = target[h]
    <3>1. code'[l] = h /\ enabled'[h] /\ tramp[h] \in live
      BY <1>0, <1>1, <2>1 DEF TypeOK, TrampolinesAccounted
    <3>2. QED
      BY <1>0, <2>1, <3>1
  <2>2. CASE l # target[h]
    <3>1. code'[l] = code[l]
      BY <1>1, <2>2 DEF TypeOK
    <3>2. PICK g \in Hooks : code[l] = g /\ (<<l, g>> \in lost \/
                        (enabled[g] /\ target[g] = l /\ tramp[g] \in live))
      BY <3>1 DEF PatchOwnership
    <3>3. enabled[g] => enabled'[g]
      BY <1>1 DEF TypeOK
    <3>4. QED
      BY <3>1, <3>2, <3>3
  <2>3. QED
    BY <2>1, <2>2
<1>6. EnabledIsPatched'
  BY <1>0, <1>1, <1>3, <1>4 DEF EnabledIsPatched, TypeOK
<1>7. TrampolinesAccounted' /\ HookRecords'
  BY <1>3 DEF TrampolinesAccounted, HookRecords
<1>8. JumpsStayInGroup'
  BY <1>0, <1>1 DEF JumpsStayInGroup, HookRecords, TypeOK
<1>9. Dormant'
  BY <1>0, <1>1, <1>3 DEF Dormant, TypeOK, h
<1>10. Control'
  <2>1. UNCHANGED Batch
    BY DEF Batch
  <2>2. QED
    BY <2>1 DEF Control
<1>11. QED
  BY <1>2, <1>5, <1>6, <1>7, <1>8, <1>9, <1>10

LEMMA ResetDisablesStep == ASSUME IInv, ResetDisables PROVE IInv'
<1> USE DEF IInv, ResetDisables
<1> DEFINE h == Head(todo)
<1>0. h \in Hooks /\ Valid(h) /\ target[h] \in Locs /\ saved[h] = Body /\ Thunk[target[h]] = Body
  BY DEF TypeOK, Valid, HookRecords
<1> HIDE DEF h
<1>1. /\ code' = IF enabled[h] THEN [code EXCEPT ![target[h]] = Body] ELSE code
      /\ enabled' = [enabled EXCEPT ![h] = FALSE]
  BY <1>0 DEF h, TypeOK
<1>2. UNCHANGED <<target, tramp, saved, live, lost, todo, stage, at, client, cursor, resolved>>
      /\ \A g \in Hooks : Valid(g)' <=> Valid(g)
  BY DEF Valid, seqVars
<1>3. TypeOK'
  BY <1>0, <1>1, <1>2 DEF TypeOK, seqVars
<1>4. \A g \in Hooks : Valid(g) /\ target[g] = target[h] => g = h
  BY <1>0 DEF HookRecords
<1>5. \A g \in Hooks \ {h} : enabled'[g] = enabled[g]
  BY <1>1 DEF TypeOK
<1>6. ~enabled'[h]
  BY <1>0, <1>1 DEF TypeOK
<1>7. PatchOwnership'
  <2> SUFFICES ASSUME NEW l \in Locs, code'[l] # Thunk[l]
               PROVE  \E g \in Hooks : code'[l] = g /\ (<<l, g>> \in lost \/
                        (enabled'[g] /\ target[g] = l /\ tramp[g] \in live))
    BY <1>2, ZenonT(60) DEF PatchOwnership
  <2>1. code'[l] = code[l] /\ (enabled[h] => l # target[h])
    BY <1>0, <1>1 DEF TypeOK
  <2>2. PICK g \in Hooks : code[l] = g /\ (<<l, g>> \in lost \/
                        (enabled[g] /\ target[g] = l /\ tramp[g] \in live))
    BY <2>1 DEF PatchOwnership
  <2>3. QED
    BY <1>5, <2>1, <2>2
<1>8. EnabledIsPatched'
  BY <1>0, <1>1, <1>2, <1>4, <1>5, <1>6 DEF EnabledIsPatched, TypeOK
<1>9. TrampolinesAccounted' /\ HookRecords'
  BY <1>2 DEF TrampolinesAccounted, HookRecords
<1>10. JumpsStayInGroup'
  BY <1>0, <1>1 DEF JumpsStayInGroup, TypeOK
<1>11. Dormant'
  <2> SUFFICES ASSUME NEW g \in Hooks, Valid(g), ~enabled'[g], g \notin LazyHooks
               PROVE  \E i \in 1..Len(todo) : todo[i] = g
    BY <1>2 DEF Dormant
  <2>1. CASE g = h
    BY <2>1 DEF h, TypeOK
  <2>2. CASE g # h
    BY <1>5, <2>2 DEF Dormant
  <2>3. QED
    BY <2>1, <2>2
<1>12. Control'
  <2>1. ~enabled'[Head(todo)] /\ Valid(Head(todo))'
    BY <1>0, <1>2, <1>6 DEF h
  <2>2. QED
    BY <1>2, <2>1 DEF Control
<1>13. QED
  BY <1>3, <1>7, <1>8, <1>9, <1>10, <1>11, <1>12

LEMMA ResetDisableRefusedStep == ASSUME IInv, ResetDisableRefused PROVE IInv'
<1> USE DEF IInv, ResetDisableRefused
<1> DEFINE h == Head(todo)
<1>0. h \in Hooks /\ Valid(h) /\ target[h] \in Locs
  BY DEF TypeOK, Valid
<1>1. UNCHANGED <<code, target, tramp, saved, enabled, live, todo, stage, at, client, cursor, resolved>>
      /\ \A g \in Hooks : Valid(g)' <=> Valid(g)
  BY DEF Valid, seqVars, jmpVars
<1>2. TypeOK'
  BY <1>0, <1>1 DEF TypeOK, seqVars
<1>3. PatchOwnership' /\ EnabledIsPatched'
  BY <1>1, ZenonT(60) DEF PatchOwnership, EnabledIsPatched
<1>4. TrampolinesAccounted' /\ HookRecords' /\ JumpsStayInGroup'
  BY <1>1 DEF TrampolinesAccounted, HookRecords, JumpsStayInGroup
<1>5. Dormant'
  BY <1>1 DEF Dormant
<1>6. Control'
  <2>1. Valid(Head(todo))' /\ <<target[h], h>> \in lost'
    BY <1>0, <1>1
  <2>2. QED
    BY <1>1, <2>1 DEF Control
<1>7. QED
  BY <1>2, <1>3, <1>4, <1>5, <1>6

LEMMA ResetFreesStep == ASSUME IInv, ResetFrees PROVE IInv'
<1> USE DEF IInv, ResetFrees
<1> DEFINE h == Head(todo)
<1>0. h \in Hooks /\ Valid(h) /\ todo # <<>> /\ phase = "free"
  BY DEF Control, TypeOK
<1>1. enabled[h] => <<target[h], h>> \in lost
  BY DEF Control
<1>2. UNCHANGED <<code, lost, stage, at, client, cursor, resolved>>
  OBVIOUS
<1>3. /\ live' = live \ {tramp[h]}
      /\ target' = [target EXCEPT ![h] = Null] /\ tramp' = [tramp EXCEPT ![h] = Null]
      /\ saved' = [saved EXCEPT ![h] = Null] /\ enabled' = [enabled EXCEPT ![h] = FALSE]
  OBVIOUS
<1>4. TypeOK'
  BY <1>0, <1>3 DEF TypeOK
<1>. HIDE DEF h, ResetFrees
<1>5. \A g \in Hooks \ {h} : /\ target'[g] = target[g] /\ tramp'[g] = tramp[g]
                             /\ saved'[g] = saved[g] /\ enabled'[g] = enabled[g]
  BY <1>3 DEF TypeOK
<1>6. target'[h] = Null /\ tramp'[h] = Null /\ ~enabled'[h]
  BY <1>0, <1>3 DEF TypeOK
<1>7. \A g \in Hooks : Valid(g)' <=> Valid(g) /\ g # h
  BY <1>5, <1>6 DEF Valid
<1>8. \A g \in Hooks \ {h} : Valid(g) => tramp[g] # tramp[h]
  BY <1>0 DEF TrampolinesAccounted
<1>9. PatchOwnership'
  <2> SUFFICES ASSUME NEW l \in Locs, code[l] # Thunk[l]
               PROVE  \E g \in Hooks : code[l] = g /\ (<<l, g>> \in lost \/
                        (enabled'[g] /\ target'[g] = l /\ tramp'[g] \in live'))
    BY <1>2 DEF PatchOwnership
  <2>1. PICK g \in Hooks : code[l] = g /\ (<<l, g>> \in lost \/
                        (enabled[g] /\ target[g] = l /\ tramp[g] \in live))
    BY DEF PatchOwnership
  <2>2. CASE g = h
    BY <1>1, <2>1, <2>2
  <2>3. CASE g # h
    <3>1. enabled[g] => Valid(g)
      BY DEF EnabledIsPatched
    <3> HIDE DEF IInv
    <3>2. CASE <<l, g>> \in lost
      BY <2>1, <3>2
    <3>3. CASE enabled[g] /\ target[g] = l /\ tramp[g] \in live
      <4>1. tramp[g] # tramp[h]
        BY <1>8, <2>3, <3>1, <3>3
      <4>2. enabled'[g] /\ target'[g] = l /\ tramp'[g] \in live'
        BY <1>3, <1>5, <2>3, <3>3, <4>1
      <4>3. QED
        BY <2>1, <4>2
    <3>4. QED
      BY <2>1, <3>2, <3>3
  <2>4. QED
    BY <2>2, <2>3
<1>10. EnabledIsPatched'
  BY <1>2, <1>5, <1>6, <1>7 DEF EnabledIsPatched
<1>11. TrampolinesAccounted'
  <2>1. live' = {tramp'[g] : g \in {x \in Hooks : Valid(x)'}}
    BY <1>0, <1>3, <1>5, <1>7, <1>8 DEF TrampolinesAccounted
  <2>2. QED
    BY <1>5, <1>7, <2>1 DEF TrampolinesAccounted
<1>12. HookRecords'
  BY <1>5, <1>6, <1>7 DEF HookRecords
<1>13. JumpsStayInGroup'
  BY <1>2 DEF JumpsStayInGroup
<1>14. Dormant'
  <2> SUFFICES ASSUME NEW g \in Hooks, Valid(g), g # h, ~enabled[g], g \notin LazyHooks
               PROVE  \E i \in 1..Len(Tail(todo)) : Tail(todo)[i] = g
    BY <1>5, <1>7 DEF Dormant, ResetFrees
  <2>1. PICK i \in 1..Len(todo) : todo[i] = g
    BY <1>0 DEF Dormant
  <2>2. QED
    BY <1>0, <2>1, TailKeepsOthers DEF TypeOK, h
<1>15. Control'
  BY <1>2 DEF Control, ResetFrees
<1>16. QED
  BY <1>4, <1>9, <1>10, <1>11, <1>12, <1>13, <1>14, <1>15

----------------------------------------------------------------------------

THEOREM NextPreserves == IInv /\ [Next]_vars => IInv'
<1> SUFFICES ASSUME IInv, [Next]_vars PROVE IInv'
  OBVIOUS
<1>1. CASE BeginBatch
  BY <1>1, BeginBatchStep
<1>2. CASE BatchDone
  BY <1>2, BatchDoneStep
<1>3. CASE CreateBegin
  BY <1>3, CreateBeginStep
<1>4. CASE FollowJump
  BY <1>4, FollowJumpStep
<1>5. CASE FollowGivesUp \/ CreateRefused \/ EnableRefused
  BY <1>5, CreateFailsStep DEF FollowGivesUp, CreateRefused, EnableRefused
<1>6. CASE \E t \in Tramps : CreateCommits(t)
  BY <1>6, CreateCommitsStep
<1>7. CASE EnableSucceeds
  BY <1>7, EnableSucceedsStep
<1>8. CASE ResetSkips \/ RollbackDone
  BY <1>8, ResetSkipsStep, RollbackDoneStep
<1>9. CASE ResetDisables \/ ResetDisableRefused
  BY <1>9, ResetDisablesStep, ResetDisableRefusedStep
<1>10. CASE ResetFrees
  BY <1>10, ResetFreesStep
<1>11. CASE SetReady \/ InitializationFails \/ Detach \/ Unload
  BY <1>11, LifeCycleStep
<1>12. CASE \E h \in LazyHooks : BeginLazy(h)
  BY <1>12, BeginLazyStep
<1>13. CASE UNCHANGED vars
  <2>1. UNCHANGED <<code, jmpVars, live, lost>>
    BY <1>13 DEF vars
  <2>2. TypeOK'
    BY <1>13 DEF IInv, TypeOK, vars, jmpVars, seqVars
  <2>3. UNCHANGED <<Current, Batch>>
    BY <1>13 DEF vars, seqVars, Current, Batch
  <2>4. Dormant'
    BY <1>13, <2>3 DEF IInv, Dormant, Valid, vars, jmpVars, seqVars
  <2>5. Control'
    BY <1>13, <2>3 DEF IInv, Control, Valid, vars, jmpVars, seqVars
  <2>6. QED
    BY <2>1, <2>2, <2>4, <2>5, QuietStepSuffices
<1>14. QED
  BY <1>1, <1>2, <1>3, <1>4, <1>5, <1>6, <1>7, <1>8, <1>9, <1>10, <1>11, <1>12, <1>13
     DEF Next, InstallStep

LEMMA Inductive == Spec => []IInv
  BY InitEstablishes, NextPreserves, PTL DEF Spec

\* Every variable keeps its type.
THEOREM TypeCorrect == Spec => []TypeOK
<1>1. IInv => TypeOK
  BY DEF IInv
<1>2. QED
  BY <1>1, Inductive, PTL

\* The module never leaves a jump that nobody owns, except where the
\* operating system refused to take one back.
THEOREM PatchesAreOwned == Spec => []PatchIntegrity
<1>1. IInv => PatchIntegrity
  BY DEF IInv, PatchIntegrity
<1>2. QED
  BY <1>1, Inductive, PTL

\* No trampoline leaks and none is shared, on any path of failures.
THEOREM TrampolinesAreAccounted == Spec => []TrampolinesAccounted
<1>1. IInv => TrampolinesAccounted
  BY DEF IInv
<1>2. QED
  BY <1>1, Inductive, PTL

----------------------------------------------------------------------------
(* Batches, and what a shutdown leaves                                       *)

Whole(k) == (\A h \in HooksOf(k) : enabled[h]) \/ (\A h \in HooksOf(k) : ~Valid(h))
Untouched(k) == \A h \in HooksOf(k) : ~Valid(h)
Pending(h) == \E i \in 1..Len(todo) : todo[i] = h

\* Which hooks exist at each place of the script: the batches before the current one are
\* whole, those after it untouched; of the current one all before the cursor are enabled,
\* or all that exist are still to be reset.
Batches == stage \in {"install", "running", "failed"} =>
  /\ \A k \in 1..Len(Script) : k < at => Whole(k)
  /\ \A k \in 1..Len(Script) : k > at \/ (k = at /\ phase = "idle") => Untouched(k)
  /\ client = Null /\ phase \in {"create", "follow", "enable"} =>
       \A i \in 1..Len(Batch) : i < cursor => enabled[Batch[i]]
  /\ phase \in {"reset", "free"} =>
       /\ \A i \in 1..Len(todo) : todo[i] \in HooksOf(at)
       /\ \A h \in HooksOf(at) : Valid(h) => Pending(h)

\* A shutdown passes every hook of its list.
Shutdown ==
  /\ stage = "down" => \A i \in 1..Len(ShutdownOrder) :
       Valid(ShutdownOrder[i]) => Pending(ShutdownOrder[i])
  /\ stage = "unloaded" => \A i \in 1..Len(ShutdownOrder) : ~Valid(ShutdownOrder[i])

\* Which thread may be at work at which stage.
Turns ==
  /\ phase \in {"reset", "free"} => stage \in {"install", "down"}
  /\ phase \in {"create", "follow", "enable"} => stage = IF client = Null THEN "install" ELSE "running"
  /\ stage = "down" => phase \in {"reset", "free"}
  /\ stage = "running" => at > Len(Script)
  /\ stage = "install" /\ phase = "idle" => cursor = 1

BInv == Turns /\ Batches /\ Shutdown

\* The hooks of a batch are hooks, and none is a lazy one or in another batch.
LEMMA BatchMembers ==
  ASSUME NEW k \in 1..Len(Script)
  PROVE  /\ HooksOf(k) \subseteq Hooks \ LazyHooks
         /\ \A j \in 1..Len(Script) : j # k => HooksOf(j) \cap HooksOf(k) = {}
<1>1. Script[k] \in [hooks : Seq(Hooks), required : BOOLEAN]
  <2> DEFINE R == [hooks : Seq(Hooks), required : BOOLEAN]
  <2>1. Script \in Seq(R)
    BY ScriptAssumption
  <2> HIDE DEF R
  <2>2. Script[k] \in R
    BY <2>1
  <2>3. QED
    BY <2>2 DEF R
<1>2. HooksOf(k) \subseteq Hooks
  BY <1>1 DEF HooksOf
<1>3. HooksOf(k) \subseteq BatchHooks
  BY DEF BatchHooks
<1>4. QED
  BY <1>2, <1>3, ScriptAssumption, BatchAssumption

\* A hook of the current batch is its own, whatever index names it.
LEMMA CurrentMember ==
  ASSUME at \in 1..Len(Script)
  PROVE  HooksOf(at) = {Batch[i] : i \in 1..Len(Batch)}
  BY DEF HooksOf, Batch

LEMMA BInvInit == Init => BInv
<1> SUFFICES ASSUME Init PROVE BInv
  OBVIOUS
<1>1. \A k \in 1..Len(Script) : Untouched(k)
  BY BatchMembers DEF Init, Untouched, Valid
<1>2. QED
  BY <1>1 DEF Init, BInv, Turns, Batches, Shutdown

\* A step that changes one hook at most leaves a batch without it as it was.
LEMMA OtherBatches ==
  ASSUME NEW k \in 1..Len(Script), NEW h, h \notin HooksOf(k),
         \A g \in Hooks \ {h} : target'[g] = target[g] /\ tramp'[g] = tramp[g] /\ enabled'[g] = enabled[g]
  PROVE  (Whole(k) => Whole(k)') /\ (Untouched(k) => Untouched(k)')
<1>1. \A g \in HooksOf(k) : g \in Hooks \ {h}
  BY BatchMembers
<1>2. \A g \in HooksOf(k) : (Valid(g)' <=> Valid(g)) /\ enabled'[g] = enabled[g]
  BY <1>1 DEF Valid
<1>3. QED
  BY <1>2 DEF Whole, Untouched, HooksOf

\* A batch that returns is whole if it ends with all of its hooks enabled or none in existence.
LEMMA ReturnKeeps ==
  ASSUME IInv, BInv, stage = "install", at \in 1..Len(Script), client = Null, Whole(at),
         NEW ok \in BOOLEAN, BatchReturns(ok), UNCHANGED <<jmpVars, client, todo>>
  PROVE  BInv'
<1>1. /\ at \in Nat /\ at' = at + 1 /\ phase' = "idle" /\ stage' \in {"install", "failed"}
      /\ client' = Null
  BY DEF BatchReturns
<1>2. \A k \in 1..Len(Script) : (Whole(k)' <=> Whole(k)) /\ (Untouched(k)' <=> Untouched(k))
  BY DEF Whole, Untouched, Valid, HooksOf, jmpVars
<1>3. \A k \in 1..Len(Script) : (k < at + 1 => k < at \/ k = at) /\ (k >= at + 1 => k > at)
  BY <1>1
<1>4. \A k \in 1..Len(Script) : (k < at' => Whole(k)') /\ (k > at' \/ k = at' => Untouched(k)')
  BY <1>1, <1>2, <1>3 DEF BInv, Batches
<1>5. Batches'
  BY <1>1, <1>4 DEF Batches
<1>6. Turns' /\ Shutdown'
  BY <1>1 DEF BInv, Turns, Shutdown, BatchReturns
<1>7. QED
  BY <1>5, <1>6 DEF BInv

\* The hooks stay as they are.
LEMMA SameHooks ==
  ASSUME UNCHANGED jmpVars
  PROVE  /\ \A k : (Whole(k)' <=> Whole(k)) /\ (Untouched(k)' <=> Untouched(k))
         /\ \A h : (Valid(h)' <=> Valid(h)) /\ enabled'[h] = enabled[h]
  BY DEF Whole, Untouched, Valid, HooksOf, jmpVars

LEMMA BeginBatchKeeps == ASSUME IInv, BInv, BeginBatch PROVE BInv'
<1>0. at \in 1..Len(Script) /\ client = Null /\ client' = Null
  BY LocationAssumption DEF BeginBatch, IInv, TypeOK, Control
<1>1. CASE \E i \in 1..Len(Batch) : Request[Batch[i]] = Null
  <2>1. Whole(at)
    BY <1>0 DEF BeginBatch, BInv, Batches, Untouched, Whole
  <2>2. QED
    BY <1>0, <1>1, <2>1, ReturnKeeps DEF BeginBatch
<1>2. CASE ~\E i \in 1..Len(Batch) : Request[Batch[i]] = Null
  <2>1. phase' = "create" /\ stage' = "install" /\ at' = at /\ cursor' = cursor /\ UNCHANGED jmpVars
    BY <1>2 DEF BeginBatch
  <2>2. cursor = 1
    BY DEF BInv, Turns, BeginBatch
  <2>3. QED
    BY <1>0, <2>1, <2>2, SameHooks DEF BInv, Turns, Batches, Shutdown, BeginBatch
<1>3. QED
  BY <1>1, <1>2

LEMMA BatchDoneKeeps == ASSUME IInv, BInv, BatchDone PROVE BInv'
<1>1. stage = "install" /\ at \in 1..Len(Script)
  BY DEF BatchDone, IInv, Control
<1>2. \A i \in 1..Len(Batch) : enabled[Batch[i]]
  <2>1. cursor \in Nat /\ Len(Batch) \in Nat
    BY <1>1, BatchType DEF IInv, TypeOK
  <2>2. \A i \in 1..Len(Batch) : i < cursor
    BY <2>1 DEF BatchDone
  <2>3. QED
    BY <1>1, <2>2 DEF BatchDone, BInv, Batches
<1>3. Whole(at)
  BY <1>1, <1>2, CurrentMember DEF Whole
<1>4. QED
  BY <1>1, <1>3, ReturnKeeps DEF BatchDone

LEMMA RollbackDoneKeeps == ASSUME IInv, BInv, RollbackDone PROVE BInv'
<1>1. at \in 1..Len(Script) /\ client = Null
  BY DEF RollbackDone, IInv, Control
<1>2. Whole(at)
  BY DEF RollbackDone, BInv, Batches, Pending, Whole
<1>3. QED
  BY <1>1, <1>2, ReturnKeeps DEF RollbackDone

\* create and what it does before it changes the hook.
LEMMA CreatingKeeps ==
  ASSUME IInv, BInv, CreateBegin \/ FollowJump \/ (\E h \in LazyHooks : BeginLazy(h))
  PROVE  BInv'
<1>1. UNCHANGED <<jmpVars, at, stage, cursor, todo>> /\ phase' \in {"create", "follow", "enable"}
  BY DEF CreateBegin, FollowJump, BeginLazy
<1>2. UNCHANGED Batch
  BY <1>1 DEF Batch
<1>3. CASE UNCHANGED client /\ phase \in {"create", "follow"}
  BY <1>1, <1>2, <1>3, SameHooks DEF BInv, Turns, Batches, Shutdown
<1>4. CASE client' # Null /\ stage = "running" /\ phase = "idle"
  BY <1>1, <1>2, <1>4, SameHooks DEF BInv, Turns, Batches, Shutdown
<1>5. QED
  BY <1>3, <1>4, LocationAssumption DEF CreateBegin, FollowJump, BeginLazy, Creating, Locs

LEMMA CreateFailsKeeps ==
  ASSUME IInv, BInv, CreateFails, phase \in {"follow", "enable"}
  PROVE  BInv'
<1>1. UNCHANGED <<jmpVars, at, stage>>
  BY DEF CreateFails
<1>2. CASE client = Null
  <2>1. stage = "install" /\ at \in 1..Len(Script) /\ phase' = "reset" /\ todo' = Batch /\ client' = Null
    BY <1>2 DEF CreateFails, IInv, Control
  <2>2. \A h \in HooksOf(at) : \E i \in 1..Len(todo') : todo'[i] = h
    BY <2>1, CurrentMember
  <2>3. \A i \in 1..Len(todo') : todo'[i] \in HooksOf(at)
    BY <2>1, CurrentMember
  <2>4. UNCHANGED HooksOf(at)
    BY <1>1 DEF HooksOf
  <2>5. Turns' /\ Shutdown'
    BY <1>1, <2>1, SameHooks DEF BInv, Turns, Shutdown
  <2>6. Batches'
    BY <1>1, <2>1, <2>2, <2>3, <2>4, SameHooks DEF BInv, Batches, Pending
  <2>7. QED
    BY <2>5, <2>6 DEF BInv
<1>3. CASE client # Null
  <2>1. stage = "running" /\ phase' = "idle" /\ client' = Null /\ at \in Nat
    BY <1>3 DEF CreateFails, BInv, Turns, IInv, TypeOK
  <2>2. QED
    BY <1>1, <2>1, SameHooks DEF BInv, Turns, Batches, Shutdown
<1>4. QED
  BY <1>2, <1>3

\* A hook that is skipped, or left as it is, is not pending any more but not valid either.
LEMMA ResetSkipsKeeps == ASSUME IInv, BInv, ResetSkips PROVE BInv'
<1> USE DEF ResetSkips
<1>1. todo \in Seq(Hooks) /\ Tail(todo) \in Seq(Hooks)
  BY DEF IInv, TypeOK
<1>2. \A h : Valid(h) /\ Pending(h) => Pending(h)'
  BY <1>1, TailKeepsOthers DEF Pending
<1>3. \A i \in 1..Len(Tail(todo)) : \E j \in 1..Len(todo) : Tail(todo)[i] = todo[j]
  BY <1>1
<1>4. UNCHANGED <<jmpVars, at, stage, client, phase>> /\ phase = "reset"
  OBVIOUS
<1>5. Turns' /\ Shutdown'
  BY <1>2, <1>4, SameHooks DEF BInv, Turns, Shutdown
<1>6. UNCHANGED HooksOf(at)
  BY <1>4 DEF HooksOf
<1>7. Batches'
  BY <1>2, <1>3, <1>4, <1>6, SameHooks DEF BInv, Batches
<1>8. QED
  BY <1>5, <1>7 DEF BInv

LEMMA LifeCycleKeeps ==
  ASSUME IInv, BInv, SetReady \/ InitializationFails \/ Detach \/ Unload
  PROVE  BInv'
<1>1. UNCHANGED jmpVars /\ at \in Nat
  BY DEF SetReady, InitializationFails, Detach, Unload, IInv, TypeOK
<1>2. CASE SetReady \/ InitializationFails
  BY <1>1, <1>2, SameHooks DEF SetReady, InitializationFails, seqVars, BInv, Turns, Batches, Shutdown
<1>3. CASE Detach
  BY <1>1, <1>3, SameHooks DEF Detach, BInv, Turns, Batches, Shutdown, Pending
<1>4. CASE Unload
  BY <1>1, <1>4, SameHooks DEF Unload, BInv, Turns, Batches, Shutdown, Pending
<1>5. QED
  BY <1>2, <1>3, <1>4

\* What create and enable do to the current hook.
LEMMA CommitKeeps ==
  ASSUME IInv, BInv, (\E t \in Tramps : CreateCommits(t)) \/ EnableSucceeds
  PROVE  BInv'
<1> DEFINE h == Current
<1>0. h \in Hooks /\ stage \in {"install", "running"} /\ at \in Nat
  BY CurrentType DEF CreateCommits, EnableSucceeds, IInv, Control, BInv, Turns, TypeOK
<1>1. /\ \A g \in Hooks \ {h} : target'[g] = target[g] /\ tramp'[g] = tramp[g] /\ enabled'[g] = enabled[g]
      /\ UNCHANGED <<stage, at, todo>>
  BY DEF CreateCommits, EnableSucceeds, IInv, TypeOK
<1>2. \A k \in 1..Len(Script) : k # at => h \notin HooksOf(k)
  <2>1. CASE client = Null
    <3>1. at \in 1..Len(Script) /\ cursor \in 1..Len(Batch)
      BY <2>1 DEF CreateCommits, EnableSucceeds, IInv, Control
    <3>2. h \in HooksOf(at)
      BY <2>1, <3>1, CurrentMember DEF Current
    <3>3. QED
      BY <3>1, <3>2, BatchMembers
  <2>2. CASE client # Null
    BY <2>2, BatchMembers DEF Current, IInv, TypeOK
  <2>3. QED
    BY <2>1, <2>2
<1>3. \A k \in 1..Len(Script) : k # at => (Whole(k) => Whole(k)') /\ (Untouched(k) => Untouched(k)')
  BY <1>1, <1>2, OtherBatches
<1>4. \A k \in 1..Len(Script) : (k < at => Whole(k)') /\ (k > at => Untouched(k)')
  BY <1>0, <1>3 DEF BInv, Batches
<1>5. UNCHANGED Batch
  BY <1>1 DEF Batch
<1>6. CASE \E t \in Tramps : CreateCommits(t)
  <2>1. phase' = "enable" /\ phase = "follow" /\ UNCHANGED <<client, cursor>>
    BY <1>6 DEF CreateCommits
  <2>2. ~enabled[h]
    BY <1>0, <2>1 DEF IInv, EnabledIsPatched, Control
  <2>3. client = Null => \A i \in 1..Len(Batch) : i < cursor => enabled'[Batch[i]]
    <3> SUFFICES ASSUME client = Null, NEW i \in 1..Len(Batch), i < cursor PROVE enabled'[Batch[i]]
      OBVIOUS
    <3>1. at \in 1..Len(Script) /\ stage = "install"
      BY <2>1 DEF IInv, Control
    <3>2. enabled[Batch[i]] /\ Batch[i] \in Hooks
      BY <2>1, <3>1, BatchType DEF BInv, Batches
    <3>3. QED
      BY <1>1, <2>2, <3>2
  <2>4. QED
    BY <1>0, <1>1, <1>4, <1>5, <2>1, <2>3 DEF BInv, Turns, Batches, Shutdown
<1>7. CASE EnableSucceeds
  <2>1. phase = "enable" /\ enabled' = [enabled EXCEPT ![h] = TRUE]
    BY <1>7 DEF EnableSucceeds
  <2>2. CASE client = Null
    <3>1. at \in 1..Len(Script) /\ cursor \in 1..Len(Batch) /\ stage = "install" /\ h = Batch[cursor]
          /\ phase' = "create" /\ cursor' = cursor + 1 /\ client' = Null
      BY <1>7, <2>2 DEF EnableSucceeds, IInv, Control, Current
    <3>2. \A i \in 1..Len(Batch) : i < cursor + 1 => enabled'[Batch[i]]
      <4> SUFFICES ASSUME NEW i \in 1..Len(Batch), i < cursor + 1 PROVE enabled'[Batch[i]]
        OBVIOUS
      <4>1. i < cursor \/ i = cursor
        BY <3>1, BatchType
      <4>2. Batch[i] \in Hooks /\ enabled \in [Hooks -> BOOLEAN]
        BY <3>1, BatchType DEF IInv, TypeOK
      <4>3. enabled[Batch[i]] \/ Batch[i] = h
        BY <2>1, <2>2, <3>1, <4>1 DEF BInv, Batches
      <4>4. QED
        BY <2>1, <4>2, <4>3
    <3>3. QED
      BY <1>0, <1>1, <1>4, <1>5, <3>1, <3>2 DEF BInv, Turns, Batches, Shutdown
  <2>3. CASE client # Null
    <3>1. stage = "running" /\ at > Len(Script) /\ phase' = "idle" /\ client' = Null
      BY <1>7, <2>1, <2>3 DEF EnableSucceeds, BInv, Turns
    <3>2. QED
      BY <1>0, <1>1, <1>4, <3>1 DEF BInv, Turns, Batches, Shutdown
  <2>4. QED
    BY <2>2, <2>3
<1>8. QED
  BY <1>6, <1>7

\* What reset does to the first of the hooks that are pending.
LEMMA ResetKeeps ==
  ASSUME IInv, BInv, ResetDisables \/ ResetDisableRefused \/ ResetFrees
  PROVE  BInv'
<1> DEFINE h == Head(todo)
<1>0. /\ h \in Hooks /\ stage \in {"install", "down"} /\ todo \in Seq(Hooks) /\ todo # <<>>
      /\ phase \in {"reset", "free"} /\ client' = client /\ client = Null /\ at \in Nat
  BY DEF ResetDisables, ResetDisableRefused, ResetFrees, seqVars, IInv, Control, TypeOK, BInv, Turns
<1>1. /\ \A g \in Hooks \ {h} : target'[g] = target[g] /\ tramp'[g] = tramp[g] /\ enabled'[g] = enabled[g]
      /\ UNCHANGED <<stage, at>> /\ phase' \in {"reset", "free"}
  BY DEF ResetDisables, ResetDisableRefused, ResetFrees, jmpVars, seqVars, IInv, TypeOK
<1>2. stage = "install" => at \in 1..Len(Script) /\ h \in HooksOf(at)
  BY <1>0 DEF IInv, Control, BInv, Batches
<1>3. stage = "install" => \A k \in 1..Len(Script) : k # at => h \notin HooksOf(k)
  BY <1>2, BatchMembers
<1>4. stage = "install" => \A k \in 1..Len(Script) : (k < at => Whole(k)') /\ (k > at => Untouched(k)')
  BY <1>0, <1>1, <1>3, OtherBatches DEF BInv, Batches
<1>5. \A g \in Hooks : Valid(g)' => Valid(g) /\ (g # h \/ todo' = todo)
  BY <1>0, <1>1 DEF ResetDisables, ResetDisableRefused, ResetFrees, jmpVars, seqVars, Valid, IInv, TypeOK
<1>6. todo' \in {todo, Tail(todo)}
  BY DEF ResetDisables, ResetDisableRefused, ResetFrees, seqVars
<1>7. \A g \in Hooks : Valid(g)' /\ Pending(g) => Pending(g)'
  BY <1>0, <1>5, <1>6, TailKeepsOthers DEF Pending
<1>8. \A i \in 1..Len(todo') : \E j \in 1..Len(todo) : todo'[i] = todo[j]
  BY <1>0, <1>6
<1>9. \A i \in 1..Len(ShutdownOrder) : ShutdownOrder[i] \in Hooks
  BY ScriptAssumption
<1>10. stage = "install" => HooksOf(at) \subseteq Hooks /\ UNCHANGED HooksOf(at)
  BY <1>1, <1>2, BatchMembers DEF HooksOf
<1>11. Batches'
  BY <1>0, <1>1, <1>2, <1>4, <1>5, <1>7, <1>8, <1>10 DEF BInv, Batches
<1>12. Turns' /\ Shutdown'
  BY <1>0, <1>1, <1>5, <1>7, <1>9 DEF BInv, Turns, Shutdown
<1>13. QED
  BY <1>11, <1>12 DEF BInv

LEMMA NextKeepsBatches == IInv /\ BInv /\ [Next]_vars => BInv'
<1> SUFFICES ASSUME IInv, BInv, [Next]_vars PROVE BInv'
  OBVIOUS
<1>1. CASE UNCHANGED vars
  <2>1. UNCHANGED <<jmpVars, at, stage, phase, client, cursor, todo, Batch>>
    BY <1>1 DEF vars, seqVars, Batch
  <2>2. QED
    BY <2>1, SameHooks DEF BInv, Turns, Batches, Shutdown, Pending, HooksOf
<1>2. CASE FollowGivesUp \/ CreateRefused \/ EnableRefused
  BY <1>2, CreateFailsKeeps DEF FollowGivesUp, CreateRefused, EnableRefused
<1>3. QED
  BY <1>1, <1>2, BeginBatchKeeps, BatchDoneKeeps, RollbackDoneKeeps, CreatingKeeps,
     ResetSkipsKeeps, LifeCycleKeeps, CommitKeeps, ResetKeeps DEF Next, InstallStep

LEMMA BatchesInductive == Spec => []BInv
  BY Inductive, BInvInit, NextKeepsBatches, PTL DEF Spec

\* (BatchesAreAtomic) A batch that has returned is enabled as a whole or does not exist,
\* whatever failed in it or is done to later ones.
THEOREM BatchesAreWhole == Spec => []BatchesAreAtomic
<1>1. IInv /\ BInv => BatchesAreAtomic
  <2> SUFFICES ASSUME IInv, BInv, stage \in {"install", "running", "failed"}, NEW k \in 1..at - 1
               PROVE  Whole(k)
    BY DEF BatchesAreAtomic, Whole
  <2>1. k \in 1..Len(Script) /\ k < at
    BY ScriptAssumption DEF IInv, TypeOK
  <2>2. QED
    BY <2>1 DEF BInv, Batches
<1>2. QED
  BY <1>1, Inductive, BatchesInductive, PTL

\* (UninstallRestores) After the unloading no location leads to a hook of the list the
\* shutdown walked, except where the restore was refused, in whatever order the list is.
THEOREM UninstallAlwaysRestores == Spec => []UninstallRestores
<1>1. IInv /\ BInv => UninstallRestores
  <2> SUFFICES ASSUME IInv, BInv, stage = "unloaded", NEW l \in Locs,
                      code[l] # Thunk[l], <<l, code[l]>> \notin lost,
                      NEW i \in 1..Len(ShutdownOrder)
               PROVE  code[l] # ShutdownOrder[i]
    BY DEF UninstallRestores
  <2>1. PICK h \in Hooks : code[l] = h /\ enabled[h]
    BY DEF IInv, PatchOwnership
  <2>2. Valid(h)
    BY <2>1 DEF IInv, EnabledIsPatched
  <2>3. QED
    BY <2>1, <2>2 DEF BInv, Shutdown
<1>2. QED
  BY <1>1, Inductive, BatchesInductive, PTL

----------------------------------------------------------------------------
(* Where the jumps lead                                                      *)

Standing == stage \in {"install", "running", "failed"}

\* A set of locations no jump leaves, those to the hooks in X set aside; and what lies in
\* every such set that holds x.
Closed(S, X) == \A l \in S : code[l] # Body /\ code[l] \notin X => code[l] \in S
Reaches(x, y, X) == x \in Locs /\ \A S \in SUBSET Locs : x \in S /\ Closed(S, X) => y \in S

\* A hook of the installation whose turn has not come.
Untried(h) ==
  /\ stage = "install"
  /\ \/ \E k \in 1..Len(Script) : k > at /\ h \in HooksOf(k)
     \/ /\ at <= Len(Script) /\ phase \in {"idle", "create", "follow", "enable"}
        /\ \E i \in 1..Len(Batch) : i >= cursor /\ Batch[i] = h
  /\ ~enabled[h]

Patches(h, l) == Valid(h) /\ target[h] = l

\* Nothing leads to the detour of a hook before its turn, and a lazy hook has left nothing behind.
NothingAhead == Standing =>
  /\ \A l \in Locs, h \in Hooks : <<l, h>> \in lost => h \in BatchHooks /\ ~Untried(h) /\ ~Untried(l)
  /\ \A l \in Locs, h \in Hooks : Patches(h, l) => ~Untried(l)
  /\ \A l \in Locs : phase = "follow" /\ resolved = l => ~Untried(l)

\* Neither the jumps nor the targets of the hooks go round in a circle.
NoCircle == \A S \in SUBSET Locs : S # {} => \E l \in S : code[l] \notin S
NoTower == \A S \in SUBSET Hooks : S # {} => \E h \in S : ~Valid(h) \/ target[h] \notin S

\* A hook is enabled where nothing jumps yet, and never on its own detour.
Placed ==
  /\ \A h \in Hooks : target[h] # h
  /\ phase = "follow" => resolved # Current
  /\ phase = "enable" /\ ~enabled[Current] => code[target[Current]] = Body

\* The jumps of a hook's function lead to the location it patches; those to the batch in
\* progress are not needed for the hooks of other batches.
Reached == Standing =>
  /\ phase \in {"idle", "create", "follow", "enable"} =>
       \A h \in Hooks, l \in Locs : Patches(h, l) => Reaches(Request[h], l, {})
  /\ stage = "install" =>
       \A k \in 1..Len(Script), h \in Hooks, l \in Locs :
         k = at /\ h \notin HooksOf(k) /\ Patches(h, l) => Reaches(Request[h], l, HooksOf(k))
  /\ phase = "follow" =>
       \A h \in Hooks, l \in Locs : h = Current /\ l = resolved => Reaches(Request[h], l, {})

RInv == NothingAhead /\ NoCircle /\ NoTower /\ Placed /\ Reached

----------------------------------------------------------------------------
(* The steps                                                                 *)

\* All but five actions leave the hooks and the code alone.
LEMMA Others ==
  ASSUME Next
  PROVE  \/ UNCHANGED <<code, jmpVars, lost>>
         \/ \E t \in Tramps : CreateCommits(t)
         \/ EnableSucceeds \/ ResetDisables \/ ResetDisableRefused \/ ResetFrees
  BY DEF Next, InstallStep, BeginBatch, BatchDone, CreateBegin, FollowJump, FollowGivesUp,
      CreateRefused, EnableRefused, CreateFails, ResetSkips, RollbackDone, SetReady,
      InitializationFails, Unload, BeginLazy, Detach, jmpVars

LEMMA StandingBefore ==
  ASSUME IInv, BInv, Next, Standing'
  PROVE  Standing
<1>1. stage = "down" => phase \in {"reset", "free"}
  BY DEF BInv, Turns
<1>2. stage = "unloaded" => phase = "idle"
  BY DEF BInv, Turns, IInv, TypeOK
<1>3. QED
  BY <1>1, <1>2
  DEF Standing, IInv, TypeOK, Next, InstallStep, BeginBatch, BatchDone, CreateBegin, Creating, FollowJump,
      FollowGivesUp, CreateRefused, CreateCommits, EnableSucceeds, EnableRefused, CreateFails,
      ResetSkips, ResetDisables, ResetDisableRefused, ResetFrees, RollbackDone, SetReady,
      InitializationFails, Unload, BeginLazy, Detach, BatchReturns, seqVars

\* The location a hook targets is a location, and the first bytes of one lead to one.
LEMMA Placement ==
  ASSUME IInv
  PROVE  /\ \A h \in Hooks : Valid(h) => target[h] \in Locs /\ Request[h] \in Funcs \cup {Null}
         /\ \A l \in Locs : code[l] \in Locs \cup {Body}
         /\ Funcs \subseteq Locs /\ Hooks \subseteq Locs /\ Body \notin Locs
  BY LocationAssumption, GroupAssumption DEF IInv, TypeOK, Valid, Locs

LEMMA UntriedIsHook == ASSUME IInv, NEW x, Untried(x) PROVE x \in Hooks /\ x \in BatchHooks
<1>1. at \in Nat /\ Len(Script) \in Nat /\ at >= 1
  BY ScriptAssumption DEF IInv, TypeOK
<1>2. PICK k \in 1..Len(Script) : x \in HooksOf(k)
  BY <1>1 DEF Untried, HooksOf, Batch
<1>3. QED
  BY <1>2, BatchMembers DEF BatchHooks

\* The hook that is created is the one of the batch at the cursor, or a lazy one.
LEMMA CurrentOfBatch ==
  ASSUME IInv, BInv, phase \in {"follow", "enable"}
  PROVE  /\ client = Null => /\ stage = "install" /\ at \in 1..Len(Script)
                             /\ cursor \in 1..Len(Batch) /\ Current = Batch[cursor]
                             /\ Current \in HooksOf(at)
                             /\ ~enabled[Current] => Untried(Current)
         /\ client # Null => Current \in LazyHooks /\ stage = "running"
<1>1. ASSUME client = Null
      PROVE  /\ stage = "install" /\ at \in 1..Len(Script)
             /\ cursor \in 1..Len(Batch) /\ Current = Batch[cursor]
             /\ Current \in HooksOf(at)
             /\ ~enabled[Current] => Untried(Current)
  <2>1. /\ stage = "install" /\ at \in 1..Len(Script)
        /\ cursor \in 1..Len(Batch) /\ Current = Batch[cursor]
    BY <1>1 DEF IInv, Control, Current
  <2>2. at <= Len(Script) /\ cursor >= cursor
    BY <2>1
  <2>3. QED
    BY <2>1, <2>2, CurrentMember DEF Untried
<1>2. ASSUME client # Null PROVE Current \in LazyHooks /\ stage = "running"
  BY <1>2 DEF IInv, TypeOK, Current, BInv, Turns
<1>3. QED
  BY <1>1, <1>2

\* Only hooks of the batch in progress are rolled back.
LEMMA RolledBack ==
  ASSUME IInv, BInv, Standing, phase \in {"reset", "free"}, todo # <<>>
  PROVE  /\ stage = "install" /\ at \in 1..Len(Script) /\ Head(todo) \in HooksOf(at)
         /\ Head(todo) \in Hooks /\ Head(todo) \in BatchHooks
         /\ ~Untried(Head(todo))
<1>1. stage = "install"
  BY DEF BInv, Turns, Standing
<1>2. at \in 1..Len(Script)
  BY <1>1 DEF IInv, Control
<1>3. Head(todo) \in HooksOf(at)
  BY <1>1 DEF BInv, Batches, IInv, TypeOK
<1>4. HooksOf(at) \subseteq BatchHooks
  BY <1>2 DEF BatchHooks
<1>5. \A k \in 1..Len(Script) : k > at => Head(todo) \notin HooksOf(k)
  BY <1>2, <1>3, BatchMembers
<1>6. QED
  BY <1>1, <1>2, <1>3, <1>4, <1>5, BatchMembers DEF Untried

\* A hook whose turn has come is never waiting again.
LEMMA UntriedShrinks ==
  ASSUME IInv, BInv, Next, NEW x, Untried(x)'
  PROVE  Untried(x)
<1> DEFINE Early == {"idle", "create", "follow", "enable"}
<1>1. stage' = "install" /\ Standing /\ at \in Nat /\ cursor \in Nat /\ ~enabled'[x]
  BY StandingBefore DEF Untried, Standing, IInv, TypeOK
<1>2. stage = "install"
  BY <1>1
  DEF Standing, Next, InstallStep, BeginBatch, BatchDone, CreateBegin, FollowJump,
      FollowGivesUp, CreateRefused, CreateCommits, EnableSucceeds, EnableRefused, CreateFails,
      ResetSkips, ResetDisables, ResetDisableRefused, ResetFrees, RollbackDone, SetReady,
      InitializationFails, Unload, BeginLazy, Detach, BatchReturns, seqVars
<1>3. \A k : HooksOf(k)' = HooksOf(k)
  BY DEF HooksOf
<1>4. at' \in Nat /\ Len(Script) \in Nat
  BY <1>1, ScriptAssumption
  DEF Next, InstallStep, BeginBatch, BatchDone, CreateBegin, FollowJump,
      FollowGivesUp, CreateRefused, CreateCommits, EnableSucceeds, EnableRefused, CreateFails,
      ResetSkips, ResetDisables, ResetDisableRefused, ResetFrees, RollbackDone, SetReady,
      InitializationFails, Unload, BeginLazy, Detach, BatchReturns, seqVars
<1>5. CASE /\ at' = at /\ cursor' \in Nat /\ cursor' >= cursor /\ (phase' \in Early => phase \in Early)
           /\ ~enabled[x]
  <2>1. CASE \E k \in 1..Len(Script) : k > at /\ x \in HooksOf(k)
    BY <1>2, <1>5, <2>1 DEF Untried
  <2>2. CASE ~\E k \in 1..Len(Script) : k > at /\ x \in HooksOf(k)
    <3>1. at <= Len(Script) /\ phase \in Early /\ Batch' = Batch
      BY <1>3, <1>5, <2>2 DEF Untried, Batch
    <3>2. PICK i \in 1..Len(Batch) : i >= cursor' /\ Batch[i] = x
      BY <1>3, <1>5, <2>2, <3>1 DEF Untried
    <3>3. Len(Batch) \in Nat
      BY <1>1, <1>2, <3>1, BatchType DEF IInv, TypeOK
    <3>4. i >= cursor
      BY <1>1, <1>5, <3>2, <3>3
    <3>5. QED
      BY <1>2, <1>5, <3>1, <3>2, <3>4 DEF Untried
  <2>3. QED
    BY <2>1, <2>2
<1>6. CASE at' = at + 1 /\ ~enabled[x]
  <2>1. \E k \in 1..Len(Script) : k > at /\ x \in HooksOf(k)
    <3>1. CASE \E k \in 1..Len(Script) : k > at' /\ x \in HooksOf(k)
      BY <1>1, <1>6, <3>1
    <3>2. CASE at' <= Len(Script) /\ \E i \in 1..Len(Batch') : Batch'[i] = x
      <4>1. at' \in 1..Len(Script) /\ at' > at /\ x \in HooksOf(at')
        BY <1>1, <1>4, <1>6, <3>2 DEF HooksOf, Batch
      <4>2. QED
        BY <4>1
    <3>3. QED
      BY <1>3, <3>1, <3>2 DEF Untried
  <2>2. QED
    BY <1>2, <1>6, <2>1 DEF Untried
<1>7. x \in Hooks
  <2>1. at >= 1 /\ at' >= at
    BY <1>1 DEF IInv, TypeOK, Next, InstallStep, BeginBatch, BatchDone, CreateBegin, FollowJump,
      FollowGivesUp, CreateRefused, CreateCommits, EnableSucceeds, EnableRefused, CreateFails,
      ResetSkips, ResetDisables, ResetDisableRefused, ResetFrees, RollbackDone, SetReady,
      InitializationFails, Unload, BeginLazy, Detach, BatchReturns, seqVars
  <2>2. PICK k \in 1..Len(Script) : x \in HooksOf(k)
    <3>1. CASE \E k \in 1..Len(Script) : x \in HooksOf(k)
      BY <3>1
    <3>2. CASE at' <= Len(Script) /\ \E i \in 1..Len(Batch') : Batch'[i] = x
      <4>1. at' \in 1..Len(Script) /\ x \in HooksOf(at')
        BY <1>1, <1>4, <2>1, <3>2 DEF HooksOf, Batch
      <4>2. QED
        BY <4>1
    <3>3. QED
      BY <1>3, <3>1, <3>2 DEF Untried
  <2>3. QED
    BY <2>2, BatchMembers
<1>8. CASE UNCHANGED jmpVars
  <2>1. ~enabled[x]
    BY <1>1, <1>8 DEF jmpVars
  <2>2. \/ at' = at + 1
        \/ at' = at /\ cursor' \in {cursor, cursor + 1} /\ (phase' \in Early => phase \in Early)
    BY <1>1, <1>2, <1>8
    DEF Next, InstallStep, BeginBatch, BatchDone, CreateBegin, Creating, FollowJump,
      FollowGivesUp, CreateRefused, CreateCommits, EnableSucceeds, EnableRefused, CreateFails,
      ResetSkips, ResetDisables, ResetDisableRefused, ResetFrees, RollbackDone, SetReady,
      InitializationFails, Unload, BeginLazy, Detach, BatchReturns, seqVars
  <2>3. QED
    BY <1>1, <1>5, <1>6, <2>1, <2>2
<1>9. CASE (\E t \in Tramps : CreateCommits(t)) \/ EnableSucceeds
  <2>1. /\ at' = at /\ cursor' \in {cursor, cursor + 1} /\ phase \in {"follow", "enable"}
        /\ phase = "follow" => ~enabled[Current]
        /\ \A g \in Hooks \ {Current} : enabled'[g] = enabled[g]
        /\ phase = "enable" => enabled'[Current]
    BY <1>9, CurrentType DEF CreateCommits, EnableSucceeds, IInv, TypeOK, Control, EnabledIsPatched
  <2>2. ~enabled[x]
    BY <1>1, <1>7, <2>1
  <2>3. QED
    BY <1>1, <1>5, <2>1, <2>2
<1>10. CASE ResetDisables \/ ResetDisableRefused \/ ResetFrees
  <2>1. /\ at' = at /\ phase \in {"reset", "free"} /\ phase' \in {"reset", "free"} /\ todo # <<>>
        /\ \A g \in Hooks \ {Head(todo)} : enabled'[g] = enabled[g]
    BY <1>10 DEF ResetDisables, ResetDisableRefused, ResetFrees, jmpVars, seqVars, IInv, TypeOK, Control
  <2>2. PICK k \in 1..Len(Script) : k > at /\ x \in HooksOf(k)
    BY <1>3, <2>1 DEF Untried
  <2>3. x # Head(todo)
    BY <1>1, <2>1, <2>2, RolledBack, BatchMembers
  <2>4. ~enabled[x]
    BY <1>1, <1>7, <2>1, <2>3
  <2>5. QED
    BY <1>2, <2>2, <2>4 DEF Untried
<1>11. QED
  BY <1>8, <1>9, <1>10, Others

LEMMA InitReach == Init => RInv
<1> SUFFICES ASSUME Init PROVE RInv
  OBVIOUS
<1>1. /\ \A h \in Hooks : ~Valid(h) /\ target[h] = Null
      /\ lost = {} /\ phase = "idle" /\ code = Thunk
  BY DEF Init, Valid
<1>2. NothingAhead /\ Reached
  BY <1>1 DEF NothingAhead, Reached, Patches
<1>3. NoCircle
  BY <1>1, ThunkAssumption DEF NoCircle
<1>4. NoTower
  BY <1>1 DEF NoTower
<1>5. Placed
  BY <1>1, LocationAssumption DEF Placed, Locs
<1>6. QED
  BY <1>2, <1>3, <1>4, <1>5 DEF RInv

\* What the hooks target changes only when one is created or cleared.
LEMMA TargetsAfter ==
  ASSUME IInv, BInv, Next, NEW h \in Hooks, NEW l \in Locs, Patches(h, l)'
  PROVE  \/ Patches(h, l)
         \/ phase = "follow" /\ h = Current /\ l = resolved /\ ~Valid(h)
<1>1. CASE UNCHANGED jmpVars
  BY <1>1 DEF jmpVars, Patches, Valid
<1>2. ASSUME NEW t \in Tramps, CreateCommits(t)
      PROVE  Patches(h, l) \/ (phase = "follow" /\ h = Current /\ l = resolved /\ ~Valid(h))
  BY <1>2, CurrentType DEF CreateCommits, Patches, Valid, IInv, TypeOK, Control
<1>3. CASE EnableSucceeds \/ ResetDisables \/ ResetDisableRefused
  BY <1>3 DEF EnableSucceeds, ResetDisables, ResetDisableRefused, Patches, Valid, jmpVars
<1>4. CASE ResetFrees
  BY <1>4 DEF ResetFrees, Patches, Valid, IInv, TypeOK
<1>5. QED
  BY <1>1, <1>2, <1>3, <1>4, Others

\* A jump leads to a function, or to the hook whose patch it is.
LEMMA JumpsAreOwned ==
  ASSUME IInv, NEW l \in Locs, code[l] # Body
  PROVE  \/ code[l] \in Funcs /\ l \in Funcs
         \/ \E h \in Hooks : code[l] = h /\ (<<l, h>> \in lost \/ (enabled[h] /\ Patches(h, l)))
<1>1. CASE code[l] = Thunk[l]
  BY <1>1, GroupAssumption DEF Locs
<1>2. CASE code[l] # Thunk[l]
  <2>1. PICK h \in Hooks : code[l] = h /\ (<<l, h>> \in lost \/ (enabled[h] /\ target[h] = l))
    BY <1>2 DEF IInv, PatchOwnership
  <2>2. enabled[h] => Valid(h)
    BY DEF IInv, EnabledIsPatched
  <2>3. QED
    BY <2>1, <2>2 DEF Patches
<1>3. QED
  BY <1>1, <1>2

LEMMA AheadStep == ASSUME IInv, BInv, NothingAhead, Next PROVE NothingAhead'
<1> SUFFICES ASSUME Standing' PROVE NothingAhead'
  BY DEF NothingAhead
<1>0. /\ Standing
      /\ \A x : Untried(x)' => Untried(x)
  BY StandingBefore, UntriedShrinks
<1>1. ASSUME NEW l \in Locs, NEW h \in Hooks, <<l, h>> \in lost'
      PROVE  h \in BatchHooks /\ ~Untried(h) /\ ~Untried(l)
  <2>1. CASE <<l, h>> \in lost
    BY <1>0, <2>1 DEF NothingAhead
  <2>2. CASE ResetDisableRefused /\ <<l, h>> = <<target[Head(todo)], Head(todo)>>
    <3>1. phase = "reset" /\ todo # <<>> /\ Valid(Head(todo)) /\ h = Head(todo) /\ l = target[h]
      BY <2>2 DEF ResetDisableRefused
    <3>2. ~Untried(l)
      BY <1>0, <3>1 DEF NothingAhead, Patches
    <3>3. QED
      BY <1>0, <3>1, <3>2, RolledBack
  <2>3. lost' = lost \/ (ResetDisableRefused /\ lost' = lost \cup {<<target[Head(todo)], Head(todo)>>})
    BY Others DEF CreateCommits, EnableSucceeds, ResetDisables, ResetDisableRefused, ResetFrees
  <2>4. QED
    BY <1>1, <2>1, <2>2, <2>3
<1>2. ASSUME NEW l \in Locs, NEW h \in Hooks, Patches(h, l)' PROVE ~Untried(l)
  BY <1>0, <1>2, TargetsAfter DEF NothingAhead
<1>3. ASSUME NEW l \in Locs, phase' = "follow", resolved' = l PROVE ~Untried(l)
  <2>1. CASE CreateBegin
    <3>1. l = Request[Current] /\ Current \in Hooks
      BY <1>3, <2>1, CurrentType DEF CreateBegin, IInv
    <3>2. l \notin Hooks
      BY <2>1, <3>1, CurrentType, LocationAssumption DEF CreateBegin, IInv
    <3>3. QED
      BY <3>2, UntriedIsHook
  <2>2. CASE FollowJump
    <3>1. l = code[resolved] /\ resolved \in Locs /\ code[resolved] # Body
      BY <1>3, <2>2 DEF FollowJump, IInv, Control
    <3>2. CASE code[resolved] \in Funcs
      BY <3>1, <3>2, UntriedIsHook, LocationAssumption
    <3>3. CASE \E h \in Hooks : code[resolved] = h /\ (<<resolved, h>> \in lost \/ enabled[h])
      BY <1>0, <3>1, <3>3 DEF NothingAhead, Untried
    <3>4. QED
      BY <3>1, <3>2, <3>3, JumpsAreOwned
  <2>3. CreateBegin \/ FollowJump
    BY <1>3
    DEF Next, InstallStep, BeginBatch, BatchDone, FollowGivesUp,
      CreateRefused, CreateCommits, EnableSucceeds, EnableRefused, CreateFails,
      ResetSkips, ResetDisables, ResetDisableRefused, ResetFrees, RollbackDone, SetReady,
      InitializationFails, Unload, BeginLazy, Detach, BatchReturns, seqVars
  <2>4. QED
    BY <2>1, <2>2, <2>3
<1>4. QED
  BY <1>0, <1>1, <1>2, <1>3 DEF NothingAhead

\* The hook being created is in nobody's way.
LEMMA NobodyOnCurrent ==
  ASSUME IInv, BInv, NothingAhead, phase = "follow"
  PROVE  \A g \in Hooks : Valid(g) => target[g] # Current
<1> SUFFICES ASSUME NEW g \in Hooks, Valid(g), target[g] = Current PROVE FALSE
  OBVIOUS
<1>1. Current \in Hooks /\ ~Valid(Current) /\ ~enabled[Current] /\ Current \in Locs
  BY CurrentType DEF IInv, Control, EnabledIsPatched, Locs
<1>2. CASE client = Null
  <2>1. Untried(Current) /\ Standing
    BY <1>1, <1>2, CurrentOfBatch DEF Standing
  <2>2. QED
    BY <1>1, <2>1 DEF NothingAhead, Patches
<1>3. CASE client # Null
  <2>1. Current \in LazyHooks
    BY <1>3, CurrentOfBatch
  <2>2. Group[g] = Group[Current]
    BY DEF IInv, HookRecords
  <2>3. g = Current
    BY <1>1, <2>1, <2>2, GroupAssumption
  <2>4. QED
    BY <1>1, <2>3
<1>4. QED
  BY <1>2, <1>3

LEMMA TowerStep == ASSUME IInv, BInv, RInv, Next PROVE NoTower'
<1> SUFFICES ASSUME NEW S \in SUBSET Hooks, S # {}, \A h \in S : Valid(h)' /\ target'[h] \in S
             PROVE  FALSE
  BY DEF NoTower
<1>1. \A h, l \in S : target'[h] = l =>
        Patches(h, l) \/ (phase = "follow" /\ h = Current /\ l = resolved /\ ~Valid(h))
  BY TargetsAfter DEF Patches, Locs
<1>2. CASE phase = "follow" /\ Current \in S /\ ~Valid(Current)
  <2>1. resolved \in S /\ resolved # Current
    BY <1>1, <1>2 DEF Patches, RInv, Placed
  <2>2. \A h \in S \ {Current} : Valid(h) /\ target[h] \in S \ {Current}
    BY <1>1, <1>2, NobodyOnCurrent DEF Patches, RInv
  <2>3. QED
    BY <2>1, <2>2 DEF RInv, NoTower
<1>3. CASE ~(phase = "follow" /\ Current \in S /\ ~Valid(Current))
  <2>1. \A h \in S : Valid(h) /\ target[h] \in S
    BY <1>1, <1>3 DEF Patches
  <2>2. QED
    BY <2>1 DEF RInv, NoTower
<1>4. QED
  BY <1>2, <1>3

\* Nothing jumps to the hook being created, and only its own patch is in its place.
LEMMA NothingToCurrent ==
  ASSUME IInv, BInv, NothingAhead, phase = "follow", NEW l \in Locs
  PROVE  code[l] # Current
<1> SUFFICES ASSUME code[l] = Current PROVE FALSE
  OBVIOUS
<1>1. Current \in Hooks /\ ~Valid(Current) /\ ~enabled[Current] /\ Current \notin Funcs /\ Current # Body
  BY CurrentType, LocationAssumption DEF IInv, Control, EnabledIsPatched, Locs
<1>2. <<l, Current>> \in lost
  BY <1>1, JumpsAreOwned
<1>3. CASE client = Null
  <2>1. Untried(Current) /\ Standing
    BY <1>1, <1>3, CurrentOfBatch DEF Standing
  <2>2. QED
    BY <1>1, <1>2, <2>1 DEF NothingAhead
<1>4. CASE client # Null
  <2>1. Current \in LazyHooks /\ Standing
    BY <1>4, CurrentOfBatch DEF Standing
  <2>2. QED
    BY <1>1, <1>2, <2>1, ScriptAssumption DEF NothingAhead
<1>5. QED
  BY <1>3, <1>4

\* The jumps of a location that has the group of a lazy hook lead to that hook.
LEMMA LazyAlone ==
  ASSUME IInv, NothingAhead, Standing, NEW w \in LazyHooks, NEW l \in Locs, Group[l] = Group[w],
         code[l] \in Hooks
  PROVE  code[l] = w /\ enabled[w] /\ target[w] = l
<1>1. code[l] # Body
  BY LocationAssumption DEF Locs
<1>2. Group[code[l]] = Group[w] /\ w \in Hooks
  BY <1>1, LocationAssumption DEF IInv, JumpsStayInGroup
<1>3. code[l] = w
  BY <1>2, GroupAssumption
<1>4. w \notin BatchHooks
  BY ScriptAssumption
<1>5. <<l, w>> \notin lost
  BY <1>2, <1>4 DEF NothingAhead
<1>6. w \notin Funcs
  BY <1>2, LocationAssumption
<1>7. QED
  BY <1>1, <1>3, <1>5, <1>6, JumpsAreOwned DEF Patches

LEMMA PlacedStep == ASSUME IInv, BInv, RInv, Next, IInv' PROVE Placed'
<1>1. ASSUME NEW h \in Hooks, target'[h] = h PROVE FALSE
  <2>1. Patches(h, h)' /\ h \in Locs
    BY <1>1, LocationAssumption DEF Patches, Valid, IInv, HookRecords, Locs
  <2>2. Patches(h, h) \/ (phase = "follow" /\ h = Current /\ h = resolved)
    BY <2>1, TargetsAfter
  <2>3. QED
    BY <2>2 DEF RInv, Placed, Patches
<1>2. ASSUME phase' = "follow" PROVE resolved' # Current'
  <2>1. CreateBegin \/ FollowJump
    BY <1>2
    DEF Next, InstallStep, BeginBatch, BatchDone, FollowGivesUp,
      CreateRefused, CreateCommits, EnableSucceeds, EnableRefused, CreateFails,
      ResetSkips, ResetDisables, ResetDisableRefused, ResetFrees, RollbackDone, SetReady,
      InitializationFails, Unload, BeginLazy, Detach, BatchReturns, seqVars
  <2>2. Current' = Current
    BY <2>1 DEF CreateBegin, FollowJump, Current, Batch
  <2>3. CASE CreateBegin
    <3>1. resolved' = Request[Current] /\ Current \in Hooks /\ Request[Current] \in Funcs
      BY <1>2, <2>3, CurrentType DEF CreateBegin, IInv
    <3>2. QED
      BY <2>2, <3>1, LocationAssumption
  <2>4. CASE FollowJump
    <3>1. resolved' = code[resolved] /\ resolved \in Locs
      BY <2>4 DEF FollowJump, IInv, Control
    <3>2. QED
      BY <2>2, <2>4, <3>1, NothingToCurrent DEF FollowJump, RInv
  <2>5. QED
    BY <2>1, <2>3, <2>4
<1>3. ASSUME phase' = "enable", ~enabled'[Current'] PROVE code'[target'[Current']] = Body
  <2>1. CASE CreateBegin
    <3>1. /\ Valid(Current) /\ Current' = Current /\ UNCHANGED <<code, target, enabled>>
          /\ Current \in Hooks /\ phase = "create"
      BY <1>3, <2>1, CurrentType DEF CreateBegin, Creating, Current, Batch, IInv, jmpVars
    <3>2. Current \in LazyHooks
      BY <1>3, <3>1 DEF IInv, Dormant
    <3>3. target[Current] \in Locs /\ Group[target[Current]] = Group[Current] /\ Thunk[target[Current]] = Body
      BY <3>1, Placement DEF IInv, HookRecords
    <3>4. Standing
      BY <3>1 DEF BInv, Turns, Standing
    <3>5. code[target[Current]] \notin Hooks
      BY <1>3, <3>1, <3>2, <3>3, <3>4, LazyAlone DEF RInv
    <3>6. QED
      BY <3>1, <3>3, <3>5 DEF IInv, PatchOwnership
  <2>2. ASSUME NEW t \in Tramps, CreateCommits(t) PROVE code'[target'[Current']] = Body
    <3>1. Current' = Current /\ code' = code /\ code[resolved] = Body /\ Current \in Hooks
      BY <2>2, CurrentType DEF CreateCommits, Current, Batch, IInv
    <3>2. target'[Current] = resolved
      BY <2>2, <3>1 DEF CreateCommits, IInv, TypeOK
    <3>3. QED
      BY <3>1, <3>2
  <2>3. CreateBegin \/ \E t \in Tramps : CreateCommits(t)
    BY <1>3
    DEF Next, InstallStep, BeginBatch, BatchDone, FollowJump, FollowGivesUp,
      CreateRefused, EnableSucceeds, EnableRefused, CreateFails,
      ResetSkips, ResetDisables, ResetDisableRefused, ResetFrees, RollbackDone, SetReady,
      InitializationFails, Unload, BeginLazy, Detach, BatchReturns, seqVars
  <2>4. QED
    BY <2>1, <2>2, <2>3
<1>4. QED
  BY <1>1, <1>2, <1>3 DEF Placed

\* A hook about to be enabled is itself not patched.
LEMMA CurrentIsBare ==
  ASSUME IInv, BInv, RInv, phase = "enable", ~enabled[Current]
  PROVE  code[Current] = Body
<1> SUFFICES ASSUME code[Current] # Body PROVE FALSE
  OBVIOUS
<1>1. Current \in Hooks /\ Current \in Locs /\ Current \notin Funcs
  BY CurrentType, LocationAssumption DEF IInv, Locs
<1>2. PICK g \in Hooks : code[Current] = g /\ (<<Current, g>> \in lost \/ Patches(g, Current))
  BY <1>1, JumpsAreOwned
<1>3. CASE client = Null
  <2>1. Untried(Current) /\ Standing
    BY <1>1, <1>3, CurrentOfBatch DEF Standing
  <2>2. QED
    BY <1>1, <1>2, <2>1 DEF RInv, NothingAhead
<1>4. CASE client # Null
  <2>1. Current \in LazyHooks /\ Standing
    BY <1>4, CurrentOfBatch DEF Standing
  <2>2. QED
    BY <1>1, <1>2, <2>1, LazyAlone DEF RInv
<1>5. QED
  BY <1>3, <1>4

\* What enable and the disabling of reset write.
LEMMA CodeAfter ==
  ASSUME IInv, BInv, RInv, Next
  PROVE  \/ UNCHANGED code
         \/ /\ EnableSucceeds /\ ~enabled[Current] /\ Current \in Hooks
            /\ target[Current] \in Locs /\ Valid(Current)
            /\ code[target[Current]] = Body /\ code[Current] = Body
            /\ code' = [code EXCEPT ![target[Current]] = Current]
         \/ /\ ResetDisables /\ enabled[Head(todo)] /\ target[Head(todo)] \in Locs
            /\ code[target[Head(todo)]] = Head(todo)
            /\ code' = [code EXCEPT ![target[Head(todo)]] = Body]
<1>1. CASE UNCHANGED <<code, jmpVars, lost>>
  BY <1>1
<1>2. CASE EnableSucceeds /\ ~enabled[Current]
  BY <1>2, CurrentType, CurrentIsBare DEF EnableSucceeds, IInv, Control, TypeOK, Valid, RInv, Placed
<1>3. CASE ResetDisables /\ enabled[Head(todo)]
  <2>1. Head(todo) \in Hooks /\ Valid(Head(todo))
    BY <1>3 DEF ResetDisables, IInv, TypeOK
  <2>2. target[Head(todo)] \in Locs /\ saved[Head(todo)] = Body /\ code[target[Head(todo)]] = Head(todo)
    BY <1>3, <2>1 DEF IInv, TypeOK, Valid, HookRecords, EnabledIsPatched
  <2>3. QED
    BY <1>3, <2>2 DEF ResetDisables
<1>4. QED
  BY <1>1, <1>2, <1>3, Others
  DEF CreateCommits, EnableSucceeds, ResetDisables, ResetDisableRefused, ResetFrees

LEMMA CircleStep == ASSUME IInv, BInv, RInv, Next PROVE NoCircle'
<1> SUFFICES ASSUME NEW S \in SUBSET Locs, S # {}, \A l \in S : code'[l] \in S PROVE FALSE
  BY DEF NoCircle
<1>1. ASSUME \A l \in S : code'[l] = code[l] PROVE FALSE
  BY <1>1 DEF RInv, NoCircle
<1>2. code \in [Locs -> Locs \cup {Body}] /\ Body \notin Locs
  BY LocationAssumption DEF IInv, TypeOK
<1>3. CASE /\ target[Current] \in Locs /\ code[Current] = Body /\ Current \in Hooks /\ Valid(Current)
           /\ code' = [code EXCEPT ![target[Current]] = Current]
  <2>1. target[Current] \in S
    BY <1>1, <1>2, <1>3
  <2>2. Current \in S /\ Current # target[Current]
    BY <1>2, <1>3, <2>1 DEF RInv, Placed
  <2>3. code'[Current] = Body
    BY <1>2, <1>3, <2>2
  <2>4. QED
    BY <1>2, <2>2, <2>3
<1>4. CASE /\ target[Head(todo)] \in Locs
           /\ code' = [code EXCEPT ![target[Head(todo)]] = Body]
  <2>1. target[Head(todo)] \in S
    BY <1>1, <1>2, <1>4
  <2>2. QED
    BY <1>2, <1>4, <2>1
<1>5. QED
  BY <1>1, <1>3, <1>4, CodeAfter

\* What could be reached still can, unless a patch on the way is taken back.
LEMMA ReachesKeeps ==
  ASSUME IInv, BInv, RInv, Next, NEW X, ResetDisables => Head(todo) \in X,
         NEW x, NEW y, Reaches(x, y, X)
  PROVE  Reaches(x, y, X)'
<1>1. code \in [Locs -> Locs \cup {Body}]
  BY DEF IInv, TypeOK
<1>2. ASSUME NEW S \in SUBSET Locs, Closed(S, X)' PROVE Closed(S, X)
  <2> SUFFICES ASSUME NEW l \in S, code[l] # Body, code[l] \notin X PROVE code[l] \in S
    BY DEF Closed
  <2>1. code'[l] = code[l]
    <3>1. CASE UNCHANGED code
      BY <3>1
    <3>2. CASE code[target[Current]] = Body /\ code' = [code EXCEPT ![target[Current]] = Current]
      BY <1>1, <3>2
    <3>3. CASE /\ ResetDisables /\ code[target[Head(todo)]] = Head(todo)
               /\ code' = [code EXCEPT ![target[Head(todo)]] = Body]
      BY <1>1, <3>3
    <3>4. QED
      BY <3>1, <3>2, <3>3, CodeAfter
  <2>2. QED
    BY <1>2, <2>1 DEF Closed
<1>3. QED
  BY <1>2 DEF Reaches

\* A batch that ends leaves its hooks reached, or none of them.
LEMMA ReachedAfterBatch ==
  ASSUME IInv, BInv, RInv, Standing,
         phase \in {"idle", "create", "follow", "enable"} \/ RollbackDone,
         NEW h \in Hooks, NEW l \in Locs, Patches(h, l)
  PROVE  Reaches(Request[h], l, {})
<1>1. CASE phase \in {"idle", "create", "follow", "enable"}
  BY <1>1 DEF RInv, Reached
<1>2. CASE RollbackDone
  <2>1. stage = "install" /\ phase = "reset" /\ todo = <<>> /\ at \in 1..Len(Script)
    BY <1>2 DEF RollbackDone, IInv, Control
  <2>2. h \notin HooksOf(at)
    BY <2>1 DEF BInv, Batches, Standing, Pending, Patches
  <2>3. Reaches(Request[h], l, HooksOf(at))
    BY <2>1, <2>2 DEF RInv, Reached
  <2>4. QED
    BY <2>3 DEF Reaches, Closed
<1>3. QED
  BY <1>1, <1>2

\* Nothing jumps to a hook of a later batch.
LEMMA NothingToLater ==
  ASSUME IInv, BInv, RInv, stage = "install", NEW k \in 1..Len(Script), k > at, NEW l \in Locs
  PROVE  code[l] \notin HooksOf(k)
<1> SUFFICES ASSUME code[l] \in HooksOf(k) PROVE FALSE
  OBVIOUS
<1>1. code[l] \in Hooks /\ code[l] # Body /\ code[l] \notin Funcs
  BY BatchMembers, LocationAssumption DEF Locs
<1>2. ~enabled[code[l]]
  BY <1>1 DEF BInv, Batches, Untouched, IInv, EnabledIsPatched
<1>3. Untried(code[l])
  BY <1>2 DEF Untried
<1>4. <<l, code[l]>> \in lost
  BY <1>1, <1>2, JumpsAreOwned
<1>5. QED
  BY <1>1, <1>3, <1>4 DEF RInv, NothingAhead, Standing

LEMMA ReachedStep == ASSUME IInv, BInv, RInv, Next PROVE Reached'
<1> SUFFICES ASSUME Standing' PROVE Reached'
  BY DEF Reached
<1> DEFINE Early == {"idle", "create", "follow", "enable"}
<1>0. Standing
  BY StandingBefore
<1>1. ASSUME phase' \in Early, NEW h \in Hooks, NEW l \in Locs, Patches(h, l)'
      PROVE  Reaches(Request[h], l, {})'
  <2>1. phase \in Early \/ RollbackDone
    BY <1>1
    DEF Standing, Next, InstallStep, BeginBatch, BatchDone, CreateBegin, Creating, FollowJump,
      FollowGivesUp, CreateRefused, CreateCommits, EnableSucceeds, EnableRefused, CreateFails,
      ResetSkips, ResetDisables, ResetDisableRefused, ResetFrees, SetReady,
      InitializationFails, Unload, BeginLazy, Detach
  <2>2. Reaches(Request[h], l, {})
    BY <1>0, <1>1, <2>1, ReachedAfterBatch, TargetsAfter DEF RInv, Reached
  <2>3. ~ResetDisables
    BY <1>1 DEF ResetDisables
  <2>4. QED
    BY <2>2, <2>3, ReachesKeeps
<1>2. ASSUME stage' = "install", NEW k \in 1..Len(Script), NEW h \in Hooks, NEW l \in Locs,
             k = at', h \notin HooksOf(k), Patches(h, l)'
      PROVE  Reaches(Request[h], l, HooksOf(k))'
  <2>1. stage = "install"
    BY <1>0, <1>2
    DEF Standing, Next, InstallStep, BeginBatch, BatchDone, CreateBegin, FollowJump,
      FollowGivesUp, CreateRefused, CreateCommits, EnableSucceeds, EnableRefused, CreateFails,
      ResetSkips, ResetDisables, ResetDisableRefused, ResetFrees, RollbackDone, SetReady,
      InitializationFails, Unload, BeginLazy, Detach, BatchReturns, seqVars
  <2>2. ResetDisables => Head(todo) \in HooksOf(at) /\ at' = at
    BY <1>0, RolledBack DEF ResetDisables, seqVars
  <2>3. CASE at' = at
    <3>1. ~(phase = "follow" /\ h = Current)
      BY <1>2, <2>1, <2>3, CurrentOfBatch
    <3>2. Patches(h, l)
      BY <1>2, <3>1, TargetsAfter
    <3>3. Reaches(Request[h], l, HooksOf(k))
      BY <1>0, <1>2, <2>1, <2>3, <3>2 DEF RInv, Reached
    <3>4. QED
      BY <1>2, <2>2, <2>3, <3>3, ReachesKeeps
  <2>4. CASE at' # at
    <3>1. /\ at' = at + 1 /\ UNCHANGED <<target, tramp>> /\ ~ResetDisables
          /\ phase \in Early \/ RollbackDone
      BY <2>4
      DEF Next, InstallStep, BeginBatch, BatchDone, CreateBegin, FollowJump,
        FollowGivesUp, CreateRefused, CreateCommits, EnableSucceeds, EnableRefused, CreateFails,
        ResetSkips, ResetDisables, ResetDisableRefused, ResetFrees, RollbackDone, SetReady,
        InitializationFails, Unload, BeginLazy, Detach, BatchReturns, seqVars, jmpVars
    <3>2. Patches(h, l) /\ k > at
      BY <1>2, <3>1 DEF Patches, Valid, IInv, TypeOK
    <3>3. Reaches(Request[h], l, {})
      BY <1>0, <3>1, <3>2, ReachedAfterBatch
    <3>4. \A S \in SUBSET Locs : Closed(S, HooksOf(k)) => Closed(S, {})
      BY <2>1, <3>2, NothingToLater DEF Closed
    <3>5. Reaches(Request[h], l, HooksOf(k))
      BY <3>3, <3>4 DEF Reaches
    <3>6. QED
      BY <3>1, <3>5, ReachesKeeps
  <2>5. QED
    BY <2>3, <2>4
<1>3. ASSUME phase' = "follow", NEW h \in Hooks, NEW l \in Locs, h = Current', l = resolved'
      PROVE  Reaches(Request[h], l, {})'
  <2>1. CreateBegin \/ FollowJump
    BY <1>3
    DEF Next, InstallStep, BeginBatch, BatchDone, FollowGivesUp,
      CreateRefused, CreateCommits, EnableSucceeds, EnableRefused, CreateFails,
      ResetSkips, ResetDisables, ResetDisableRefused, ResetFrees, RollbackDone, SetReady,
      InitializationFails, Unload, BeginLazy, Detach, BatchReturns, seqVars
  <2>2. h = Current
    BY <1>3, <2>1 DEF CreateBegin, FollowJump, Current, Batch
  <2>3. CASE CreateBegin
    <3>1. l = Request[h] /\ l \in Locs
      BY <1>3, <2>2, <2>3, CurrentType, Placement DEF CreateBegin, IInv
    <3>2. QED
      BY <3>1 DEF Reaches
  <2>4. CASE FollowJump
    <3>1. /\ phase = "follow" /\ resolved \in Locs /\ l = code[resolved] /\ code[resolved] # Body
          /\ ~ResetDisables
      BY <1>3, <2>4 DEF FollowJump, ResetDisables, IInv, Control
    <3>2. Reaches(Request[h], resolved, {})
      BY <1>0, <2>2, <3>1 DEF RInv, Reached
    <3>3. Reaches(Request[h], l, {})
      BY <3>1, <3>2 DEF Reaches, Closed
    <3>4. QED
      BY <3>1, <3>3, ReachesKeeps
  <2>5. QED
    BY <2>1, <2>3, <2>4
<1>4. QED
  BY <1>1, <1>2, <1>3 DEF Reached

LEMMA NextKeepsReach == IInv /\ BInv /\ RInv /\ [Next]_vars => RInv'
<1> SUFFICES ASSUME IInv, BInv, RInv, [Next]_vars PROVE RInv'
  OBVIOUS
<1>1. CASE UNCHANGED vars
  <2>1. UNCHANGED <<code, target, tramp, enabled, stage, at, phase, client, cursor, resolved, lost, Batch, Current>>
    BY <1>1 DEF vars, jmpVars, seqVars, Batch, Current
  <2>2. \A x : Untried(x)' <=> Untried(x)
    BY <2>1 DEF Untried
  <2>3. \A x, y, X : Reaches(x, y, X)' <=> Reaches(x, y, X)
    BY <2>1 DEF Reaches, Closed
  <2>4. NothingAhead' /\ Reached'
    BY <2>1, <2>2, <2>3 DEF RInv, NothingAhead, Reached, Patches, Valid, Standing
  <2>5. NoCircle' /\ NoTower' /\ Placed'
    BY <2>1 DEF RInv, NoCircle, NoTower, Placed, Valid
  <2>6. QED
    BY <2>4, <2>5 DEF RInv
<1>2. CASE Next
  <2>1. IInv'
    BY <1>2, NextPreserves
  <2>2. QED
    BY <1>2, <2>1, AheadStep, CircleStep, TowerStep, PlacedStep, ReachedStep DEF RInv
<1>3. QED
  BY <1>1, <1>2

LEMMA ReachInductive == Spec => []RInv
  BY Inductive, BatchesInductive, InitReach, NextKeepsReach, PTL DEF Spec

----------------------------------------------------------------------------
(* Paths.  A path is a recursive function; what it computes is shown by      *)
(* induction on its length, stated with a set of numbers (Induct).           *)

\* A set of numbers that is not empty has a smallest one.
LEMMA Least ==
  ASSUME NEW T, T \subseteq Nat, T # {}
  PROVE  \E x \in T : \A y \in T : x <= y
<1> DEFINE R == {p \in Nat \X Nat : p[1] < p[2]}
<1>1. IsWellFoundedOn(R, Nat)
  BY NatLessThanWellFounded DEF OpToRel
<1> HIDE DEF R
<1>2. PICK x \in T : \A y \in T : ~ (<<y, x>> \in R)
  BY <1>1, WFMin
<1>3. ASSUME NEW y \in T, y < x PROVE FALSE
  <2>1. <<y, x>> \in R
    BY <1>3 DEF R
  <2>2. QED
    BY <1>2, <2>1
<1>4. QED
  BY <1>3

\* A set with 0 and the successors of its members has every number.
LEMMA Induct ==
  ASSUME NEW T, 0 \in T, \A n \in Nat : n \in T => n + 1 \in T
  PROVE  Nat \subseteq T
<1> SUFFICES ASSUME Nat \ T # {} PROVE FALSE
  OBVIOUS
<1>1. PICK x \in Nat \ T : \A y \in Nat \ T : x <= y
  BY Least
<1>2. x - 1 \in Nat /\ ~(x <= x - 1)
  BY <1>1
<1>3. x - 1 \in T
  BY <1>1, <1>2
<1>4. QED
  BY <1>1, <1>2, <1>3

IsPath(f, l, n) == f = [i \in 0..n |->
  IF i = 0 THEN l ELSE LET m == f[i-1] IN IF code[m] = Body THEN m ELSE code[m]]

\* One jump.
After(m) == IF code[m] = Body THEN m ELSE code[m]

LEMMA PathIs == \A l : Path(l) = CHOOSE f : IsPath(f, l, Cardinality(Locs))
  BY DEF Path, IsPath

LEMMA PathExists == ASSUME NEW l PROVE \A n \in Nat : \E f : IsPath(f, l, n)
<1> DEFINE T == {n \in Nat : \E f : IsPath(f, l, n)}
<1>1. 0 \in T
  <2>1. IsPath([i \in 0..0 |-> l], l, 0)
    BY DEF IsPath
  <2>2. QED
    BY <2>1
<1>2. ASSUME NEW n \in Nat, n \in T PROVE n + 1 \in T
  <2>1. PICK f : IsPath(f, l, n)
    BY <1>2
  <2> DEFINE g == [i \in 0..n + 1 |-> IF i = n + 1 THEN After(f[n]) ELSE f[i]]
             h == [i \in 0..n + 1 |-> IF i = 0 THEN l ELSE After(g[i - 1])]
  <2>2. ASSUME NEW i \in 0..n + 1
        PROVE  g[i] = IF i = 0 THEN l ELSE After(g[i - 1])
    <3>1. CASE i = n + 1
      <4>1. g[i] = After(f[n]) /\ g[i - 1] = f[n] /\ i # 0
        BY <3>1
      <4> HIDE DEF g
      <4>2. QED
        BY <4>1
    <3>2. CASE i # n + 1
      <4>1. i \in 0..n /\ g[i] = f[i] /\ (i # 0 => g[i - 1] = f[i - 1])
        BY <3>2
      <4>2. f[i] = IF i = 0 THEN l ELSE After(f[i - 1])
        BY <2>1, <4>1 DEF IsPath, After
      <4> HIDE DEF g
      <4>3. QED
        BY <4>1, <4>2
    <3>3. QED
      BY <3>1, <3>2
  <2>3. g = [i \in 0..n + 1 |-> g[i]] /\ h = [i \in 0..n + 1 |-> h[i]]
    OBVIOUS
  <2>4. \A i \in 0..n + 1 : g[i] = h[i]
    BY <2>2
  <2>5. g = h
    <3> HIDE DEF g, h
    <3>1. QED
      BY <2>3, <2>4
  <2>6. IsPath(g, l, n + 1)
    <3> HIDE DEF g
    <3>1. QED
      BY <2>5 DEF IsPath, After
  <2>7. QED
    BY <2>6
<1> HIDE DEF T
<1>3. Nat \subseteq T
  BY <1>1, <1>2, Induct
<1>4. QED
  BY <1>3 DEF T

LEMMA LocsAreFinite == IsFiniteSet(Locs) /\ Cardinality(Locs) \in Nat
  BY ThunkAssumption, FS_Union, FS_CardinalityType DEF Locs

\* A path starts where it is asked to and goes on jump by jump.
LEMMA PathSteps ==
  ASSUME NEW l
  PROVE  /\ Path(l)[0] = l
         /\ \A i \in 0..Cardinality(Locs) : i # 0 => Path(l)[i] = After(Path(l)[i - 1])
<1> DEFINE n == Cardinality(Locs)
           f == Path(l)
<1>1. n \in Nat
  BY LocsAreFinite
<1>2. IsPath(f, l, n)
  BY <1>1, PathExists, PathIs
<1>3. QED
  <2> HIDE DEF f, n
  <2>1. f[0] = l /\ \A i \in 0..n : i # 0 => f[i] = After(f[i - 1])
    BY <1>1, <1>2 DEF IsPath, After
  <2>2. QED
    BY <2>1 DEF f, n

\* A set that holds the start and is not left by any jump holds the path.
LEMMA PathStays ==
  ASSUME NEW l, NEW S, l \in S, \A m \in S : After(m) \in S
  PROVE  \A i \in 0..Cardinality(Locs) : Path(l)[i] \in S
<1> DEFINE n == Cardinality(Locs)
           T == {i \in Nat : i <= n => Path(l)[i] \in S}
<1>0. n \in Nat
  BY LocsAreFinite
<1>1. 0 \in T
  BY PathSteps
<1>2. ASSUME NEW i \in Nat, i \in T PROVE i + 1 \in T
  <2> SUFFICES ASSUME i + 1 <= n PROVE Path(l)[i + 1] \in S
    OBVIOUS
  <2>1. i <= n /\ i + 1 \in 0..n /\ i + 1 # 0 /\ (i + 1) - 1 = i
    BY <1>0
  <2>2. Path(l)[i + 1] = After(Path(l)[i])
    BY <2>1, PathSteps
  <2>3. QED
    BY <1>2, <2>1, <2>2
<1> HIDE DEF T
<1>3. Nat \subseteq T
  BY <1>1, <1>2, Induct
<1>4. QED
  BY <1>0, <1>3 DEF T

LEMMA PathIn == ASSUME IInv, NEW l \in Locs PROVE \A i \in 0..Cardinality(Locs) : Path(l)[i] \in Locs
<1>1. \A m \in Locs : After(m) \in Locs
  BY Placement DEF After
<1>2. QED
  BY <1>1, PathStays

\* A path that has come to a body stays there.
LEMMA PathRests ==
  ASSUME IInv, NEW l, NEW j \in 0..Cardinality(Locs), code[Path(l)[j]] = Body
  PROVE  \A i \in 0..Cardinality(Locs) : i >= j => Path(l)[i] = Path(l)[j]
<1> DEFINE n == Cardinality(Locs)
           T == {i \in Nat : i >= j /\ i <= n => Path(l)[i] = Path(l)[j]}
<1>0. n \in Nat
  BY LocsAreFinite
<1>1. 0 \in T
  BY <1>0
<1>2. ASSUME NEW i \in Nat, i \in T PROVE i + 1 \in T
  <2> SUFFICES ASSUME i + 1 > j, i + 1 <= n PROVE Path(l)[i + 1] = Path(l)[j]
    BY <1>0
  <2>1. i >= j /\ i <= n /\ i + 1 \in 0..n /\ i + 1 # 0 /\ (i + 1) - 1 = i
    BY <1>0
  <2>2. Path(l)[i + 1] = After(Path(l)[i])
    BY <2>1, PathSteps
  <2>3. QED
    BY <1>2, <2>1, <2>2 DEF After
<1> HIDE DEF T
<1>3. Nat \subseteq T
  BY <1>1, <1>2, Induct
<1>4. QED
  BY <1>0, <1>3 DEF T

\* (EnabledIsReached) Without circles a path as long as there are locations ends at a body.
LEMMA PathEnds ==
  ASSUME IInv, NoCircle, NEW l \in Locs
  PROVE  code[Path(l)[Cardinality(Locs)]] = Body
<1> DEFINE n == Cardinality(Locs)
           p == [i \in 0..n |-> Path(l)[i]]
<1> SUFFICES ASSUME code[Path(l)[n]] # Body PROVE FALSE
  OBVIOUS
<1>0. n \in Nat /\ n \in 0..n
  BY LocsAreFinite
<1>1. \A i \in 0..n : p[i] \in Locs /\ code[p[i]] # Body
  BY <1>0, PathIn, PathRests
<1>2. \A i \in 0..n : i + 1 \in 0..n => p[i + 1] = code[p[i]]
  <2> SUFFICES ASSUME NEW i \in 0..n, i + 1 \in 0..n PROVE p[i + 1] = code[p[i]]
    OBVIOUS
  <2>1. i + 1 # 0 /\ (i + 1) - 1 = i
    OBVIOUS
  <2>2. Path(l)[i + 1] = After(Path(l)[i])
    BY <2>1, PathSteps
  <2>3. QED
    BY <1>1, <2>2 DEF After
<1>3. p \in [0..n -> Locs]
  BY <1>1
<1> HIDE DEF p
<1>4. PICK x, y \in 0..n : x # y /\ p[x] = p[y]
  <2>1. IsFiniteSet(0..n) /\ Cardinality(0..n) = n + 1
    BY <1>0, FS_Interval
  <2>2. Cardinality(Locs) < Cardinality(0..n)
    BY <1>0, <2>1
  <2>3. QED
    BY <1>3, <2>1, <2>2, LocsAreFinite, FS_PigeonHole
<1>5. PICK i, j \in 0..n : i < j /\ p[i] = p[j]
  BY <1>0, <1>4
<1> DEFINE S == {p[k] : k \in i..j - 1}
<1>6. S \in SUBSET Locs /\ p[i] \in S
  BY <1>0, <1>1, <1>5
<1>7. \A m \in S : code[m] \in S
  <2> SUFFICES ASSUME NEW k \in i..j - 1 PROVE code[p[k]] \in S
    OBVIOUS
  <2>1. k \in 0..n /\ k + 1 \in 0..n
    BY <1>0, <1>5
  <2>2. code[p[k]] = p[k + 1]
    BY <1>2, <2>1
  <2>3. CASE k + 1 = j
    BY <1>5, <1>6, <2>2, <2>3
  <2>4. CASE k + 1 # j
    BY <1>0, <1>5, <2>2, <2>4
  <2>5. QED
    BY <2>3, <2>4
<1> HIDE DEF S
<1>8. QED
  BY <1>6, <1>7 DEF NoCircle

\* What can be reached is on the path, and the other way round.
THEOREM PathReaches ==
  ASSUME IInv, NoCircle, NEW l \in Locs, NEW h
  PROVE  Reaches(l, h, {}) <=> \E i \in 0..Cardinality(Locs) : Path(l)[i] = h
<1> DEFINE n == Cardinality(Locs)
           R == {Path(l)[i] : i \in 0..n}
<1>0. n \in Nat /\ n \in 0..n
  BY LocsAreFinite
<1>1. l \in R
  BY <1>0, PathSteps
<1>2. R \in SUBSET Locs
  BY PathIn
<1>3. Closed(R, {})
  <2> SUFFICES ASSUME NEW i \in 0..n, code[Path(l)[i]] # Body PROVE code[Path(l)[i]] \in R
    BY DEF Closed
  <2>1. i # n
    BY <1>0, PathEnds
  <2>2. i + 1 \in 0..n /\ i + 1 # 0 /\ (i + 1) - 1 = i
    BY <1>0, <2>1
  <2>3. Path(l)[i + 1] = code[Path(l)[i]]
    BY <2>2, PathSteps DEF After
  <2>4. QED
    BY <2>2, <2>3
<1>4. ASSUME Reaches(l, h, {}) PROVE h \in R
  <2> HIDE DEF R
  <2>1. QED
    BY <1>1, <1>2, <1>3, <1>4 DEF Reaches
<1>5. ASSUME h \in R PROVE Reaches(l, h, {})
  <2> SUFFICES ASSUME NEW S \in SUBSET Locs, l \in S, Closed(S, {}) PROVE h \in S
    BY DEF Reaches
  <2>1. \A m \in S : After(m) \in S
    BY DEF Closed, After
  <2>2. QED
    BY <1>5, <2>1, PathStays
<1>6. QED
  BY <1>4, <1>5

\* (EnabledIsReached) A call of the function an enabled hook asked for reaches its detour,
\* however many hooks share the function, and no chain of jumps goes round in a circle.
THEOREM HooksAreReached == Spec => []EnabledIsReached
<1>1. ASSUME IInv, BInv, RInv PROVE EnabledIsReached
  <2>1. \A l \in Locs : code[Path(l)[Cardinality(Locs)]] = Body
    BY <1>1, PathEnds DEF RInv
  <2>2. ASSUME Standing, phase = "idle", NEW h \in Hooks, enabled[h]
        PROVE  \E i \in 0..Cardinality(Locs) : Path(Request[h])[i] = h
    <3>1. Valid(h) /\ code[target[h]] = h /\ target[h] \in Locs
      BY <1>1, <2>2, Placement DEF IInv, EnabledIsPatched
    <3>2. Reaches(Request[h], target[h], {})
      BY <1>1, <2>2, <3>1 DEF RInv, Reached, Patches
    <3>3. Reaches(Request[h], h, {})
      BY <3>1, <3>2, LocationAssumption DEF Reaches, Closed, Locs
    <3>4. Request[h] \in Locs
      BY <3>3 DEF Reaches
    <3>5. QED
      BY <1>1, <3>3, <3>4, PathReaches DEF RInv
  <2>3. QED
    BY <2>1, <2>2 DEF EnabledIsReached, Standing
<1>2. QED
  BY <1>1, Inductive, BatchesInductive, ReachInductive, PTL

----------------------------------------------------------------------------
(* The callers                                                               *)

\* The callers do not touch the hooks.
LEMMA CallsDoNotHook == CallInit => Init
  BY DEF CallInit

LEMMA StepsDoNotHook == [CallNext]_allVars => [Next]_vars
  BY DEF CallNext, allVars, HookStep, CallerStep, Enter, Jump, Body_, ReadTrampoline,
         RunTrampoline, Return

\* With callers the installing thread still behaves as it does in Hooking, so that all
\* that is proved of it there holds.
THEOREM CallsKeepHooks == CallSpec => Spec
  BY CallsDoNotHook, StepsDoNotHook, PTL DEF CallSpec, Spec

----------------------------------------------------------------------------

Inside == {"at", "body", "detour", "trampoline"}
Positions == Inside \cup {"out", "return", "fault"}

CallTypes ==
  /\ pos \in [Callers -> Positions] /\ loc \in [Callers -> Locs \cup {Null}]
  /\ via \in [Callers -> Tramps \cup {Null}] /\ torn \in [Callers -> SUBSET Hooks]
  /\ skipped \in [Callers -> BOOLEAN]

\* The hooks a call has come through and may still come to on its way back are all there:
\* each was reached by the jump in the location it patches.
Way(l) == \E S \in SUBSET Hooks :
  /\ l \in S \cup Funcs
  /\ \A h \in S : Valid(h) /\ target[h] \in S \cup Funcs

\* A call no reset overlaps.
Guarded(c) == torn[c] = {} =>
  /\ pos[c] \in Inside /\ lost = {} => Way(loc[c])
  /\ pos[c] = "trampoline" => via[c] = tramp[loc[c]] /\ via[c] # Null
  /\ pos[c] = "fault" => ~Mapped
  /\ skipped[c] => lost # {}

CInv ==
  /\ CallTypes
  /\ \A c \in Callers :
       /\ pos[c] \in Inside => loc[c] \in Locs
       /\ pos[c] \in {"detour", "trampoline"} => loc[c] \in Hooks
       /\ Guarded(c)

LEMMA InitCInv == CallInit => CInv
  BY DEF CallInit, CInv, CallTypes, Positions, Inside, Guarded

\* What a step of the installing thread that resets nothing leaves as it is.
LEMMA Gentle ==
  ASSUME IInv, Next, ~Resetting
  PROVE  /\ \A h \in Hooks : Valid(h) => tramp'[h] = tramp[h] /\ target'[h] = target[h]
         /\ lost' = lost
<1>1. CASE \E t \in Tramps : CreateCommits(t)
  <2>1. ~Valid(Current) /\ lost' = lost
    BY <1>1 DEF CreateCommits, IInv, Control
  <2>2. QED
    BY <1>1, <2>1 DEF CreateCommits, IInv, TypeOK
<1>2. CASE UNCHANGED <<target, tramp, lost>>
  BY <1>2
<1>3. QED
  BY <1>1, <1>2
  DEF Next, InstallStep, Resetting, BeginBatch, BatchDone, CreateBegin, FollowJump, FollowGivesUp,
      CreateRefused, EnableSucceeds, EnableRefused, CreateFails, ResetSkips, ResetDisables,
      ResetDisableRefused, ResetFrees, RollbackDone, SetReady, InitializationFails, Unload,
      BeginLazy, Detach, jmpVars

\* No step loses the record of a patch left behind, and the module does not come back.
LEMMA Lasting ==
  ASSUME IInv, BInv, Next
  PROVE  lost \subseteq lost' /\ (~Mapped => ~Mapped')
<1>1. lost \subseteq lost'
  BY DEF Next, InstallStep, BeginBatch, BatchDone, CreateBegin, FollowJump, FollowGivesUp,
      CreateRefused, CreateCommits, EnableSucceeds, EnableRefused, CreateFails, ResetSkips,
      ResetDisables, ResetDisableRefused, ResetFrees, RollbackDone, SetReady,
      InitializationFails, Unload, BeginLazy, Detach
<1>2. ASSUME stage = "unloaded" PROVE stage' = "unloaded"
  <2>1. phase = "idle"
    BY <1>2 DEF IInv, TypeOK, BInv, Turns
  <2>2. QED
    BY <1>2, <2>1
    DEF Next, InstallStep, BeginBatch, BatchDone, CreateBegin, Creating, FollowJump, FollowGivesUp,
      CreateRefused, CreateCommits, EnableSucceeds, EnableRefused, CreateFails, ResetSkips,
      ResetDisables, ResetDisableRefused, ResetFrees, RollbackDone, SetReady,
      InitializationFails, Unload, BeginLazy, Detach
<1>3. QED
  BY <1>1, <1>2 DEF Mapped

LEMMA HookStepKeeps == ASSUME IInv, BInv, CInv, HookStep PROVE CInv'
<1>1. Next /\ UNCHANGED <<pos, loc, via, skipped>>
  BY DEF HookStep
<1>2. \A c \in Callers : torn'[c] = IF pos[c] # "out" /\ Resetting THEN torn[c] \cup {Head(todo)} ELSE torn[c]
  BY DEF HookStep
<1>3. Resetting => Head(todo) \in Hooks
  BY DEF Resetting, IInv, TypeOK, Control, Next, InstallStep, BeginBatch, BatchDone, CreateBegin,
      FollowJump, FollowGivesUp, CreateRefused, CreateCommits, EnableSucceeds, EnableRefused,
      CreateFails, ResetSkips, ResetDisables, ResetDisableRefused, ResetFrees, RollbackDone,
      SetReady, InitializationFails, Unload, BeginLazy, Detach, BatchReturns, HookStep
<1>4. torn' \in [Callers -> SUBSET Hooks]
  BY <1>3 DEF HookStep, CInv, CallTypes
<1>5. ASSUME NEW c \in Callers PROVE Guarded(c)'
  <2> SUFFICES ASSUME torn'[c] = {} PROVE Guarded(c)'
    BY DEF Guarded
  <2>1. torn[c] = {} /\ (pos[c] = "out" \/ ~Resetting)
    BY <1>2
  <2>2. /\ pos[c] \in Inside /\ lost = {} => Way(loc[c])
        /\ pos[c] = "trampoline" => via[c] = tramp[loc[c]] /\ via[c] # Null /\ loc[c] \in Hooks
        /\ pos[c] = "fault" => ~Mapped
        /\ skipped[c] => lost # {}
    BY <2>1 DEF CInv, Guarded
  <2>3. lost \subseteq lost' /\ (~Mapped => ~Mapped')
    BY <1>1, Lasting
  <2>4. CASE pos[c] = "out"
    BY <1>1, <2>2, <2>3, <2>4 DEF Guarded, Inside
  <2>5. CASE ~Resetting
    <3>1. /\ \A h \in Hooks : Valid(h) => tramp'[h] = tramp[h] /\ target'[h] = target[h]
          /\ lost' = lost
      BY <1>1, <2>5, Gentle
    <3>2. Way(loc[c]) => Way(loc[c])'
      <4> SUFFICES ASSUME Way(loc[c]) PROVE Way(loc[c])'
        OBVIOUS
      <4>1. PICK S \in SUBSET Hooks : /\ loc[c] \in S \cup Funcs
                                      /\ \A h \in S : Valid(h) /\ target[h] \in S \cup Funcs
        BY DEF Way
      <4>2. \A h \in S : Valid(h)' /\ target'[h] \in S \cup Funcs
        BY <3>1, <4>1 DEF Valid
      <4>3. QED
        BY <1>1, <4>1, <4>2 DEF Way
    <3>3. pos[c] = "trampoline" => Valid(loc[c])
      BY <2>2 DEF IInv, HookRecords, Valid
    <3>4. QED
      BY <1>1, <2>2, <2>3, <3>1, <3>2, <3>3 DEF Guarded
  <2>6. QED
    BY <2>1, <2>4, <2>5
<1>6. QED
  BY <1>1, <1>4, <1>5 DEF CInv, CallTypes

\* A step of a caller, seen from the others.
LEMMA OtherCallers ==
  ASSUME CInv, NEW c \in Callers, NEW d \in Callers, d # c, UNCHANGED vars,
         pos'[d] = pos[d], loc'[d] = loc[d], via'[d] = via[d], skipped'[d] = skipped[d],
         torn'[d] = torn[d]
  PROVE  Guarded(d)'
<1>1. UNCHANGED <<target, tramp, lost, stage>>
  BY DEF vars, jmpVars
<1>2. Way(loc[d])' <=> Way(loc[d])
  BY <1>1 DEF Way, Valid
<1>3. Mapped' <=> Mapped
  BY <1>1 DEF Mapped
<1>4. Guarded(d)
  BY DEF CInv
<1>5. QED
  BY <1>1, <1>2, <1>3, <1>4 DEF Guarded

LEMMA CallerStepKeeps ==
  ASSUME IInv, CInv, NEW c \in Callers, CallerStep(c)
  PROVE  CInv'
<1> USE LocationAssumption
<1>1. UNCHANGED vars
  BY DEF CallerStep, Enter, Jump, Body_, ReadTrampoline, RunTrampoline, Return
<1>2. UNCHANGED <<code, target, tramp, live, lost, stage>>
  BY <1>1 DEF vars, jmpVars
<1>3. \A l : Way(l)' <=> Way(l)
  BY <1>2 DEF Way, Valid
<1>4. Mapped' <=> Mapped
  BY <1>2 DEF Mapped
<1>5. /\ pos[c] \in Inside => loc[c] \in Locs
      /\ pos[c] \in {"detour", "trampoline"} => loc[c] \in Hooks
      /\ Guarded(c) /\ CallTypes
  BY DEF CInv
<1>6. \A l \in Locs : code[l] \in Locs \cup {Body}
  BY DEF IInv, TypeOK
<1> DEFINE Mine == /\ CallTypes'
                   /\ pos'[c] \in Inside => loc'[c] \in Locs
                   /\ pos'[c] \in {"detour", "trampoline"} => loc'[c] \in Hooks
                   /\ Guarded(c)'
           Rest == \A d \in Callers : d # c =>
                     pos'[d] = pos[d] /\ loc'[d] = loc[d] /\ via'[d] = via[d]
                     /\ skipped'[d] = skipped[d] /\ torn'[d] = torn[d]
<1>7. ASSUME Mine, Rest PROVE CInv'
  <2>1. ASSUME NEW d \in Callers, d # c
        PROVE  /\ pos'[d] \in Inside => loc'[d] \in Locs
               /\ pos'[d] \in {"detour", "trampoline"} => loc'[d] \in Hooks
               /\ Guarded(d)'
    BY <1>1, <1>7, <2>1, OtherCallers DEF CInv
  <2>2. QED
    BY <1>7, <2>1 DEF CInv
<1>8. ASSUME NEW f \in Funcs, Enter(c, f) PROVE Mine /\ Rest
  <2>1. /\ pos'[c] = "at" /\ loc'[c] = f /\ ~skipped'[c] /\ f \in Locs
        /\ CallTypes' /\ Rest
    BY <1>5, <1>8 DEF Enter, NewCall, CallTypes, Positions, Inside, Locs
  <2>2. Way(f)
    BY DEF Way
  <2>3. Guarded(c)'
    BY <1>3, <2>1, <2>2 DEF Guarded
  <2>4. QED
    BY <2>1, <2>3
<1>9. CASE Jump(c)
  <2>1. /\ pos[c] = "at" /\ code[loc[c]] # Body /\ loc[c] \in Locs
        /\ UNCHANGED <<pos, via, skipped, torn>> /\ loc' = [loc EXCEPT ![c] = code[loc[c]]]
    BY <1>5, <1>9 DEF Jump, Inside
  <2>2. loc'[c] = code[loc[c]] /\ code[loc[c]] \in Locs /\ CallTypes' /\ Rest
    BY <1>5, <1>6, <2>1 DEF CallTypes
  <2>3. ASSUME lost = {}, Way(loc[c]) PROVE Way(code[loc[c]])
    <3>1. PICK S \in SUBSET Hooks : /\ loc[c] \in S \cup Funcs
                                    /\ \A h \in S : Valid(h) /\ target[h] \in S \cup Funcs
      BY <2>3 DEF Way
    <3>2. CASE code[loc[c]] = Thunk[loc[c]]
      <4>1. code[loc[c]] \in Funcs
        BY <2>1, <3>2, GroupAssumption
      <4>2. QED
        BY <3>1, <4>1 DEF Way
    <3>3. CASE code[loc[c]] # Thunk[loc[c]]
      <4>1. PICK h \in Hooks : code[loc[c]] = h /\ enabled[h] /\ target[h] = loc[c]
        BY <2>1, <2>3, <3>3 DEF IInv, PatchOwnership
      <4>2. Valid(h)
        BY <4>1 DEF IInv, EnabledIsPatched
      <4> DEFINE R == S \cup {h}
      <4>3. R \in SUBSET Hooks /\ code[loc[c]] \in R \cup Funcs
        BY <4>1
      <4>4. \A g \in R : Valid(g) /\ target[g] \in R \cup Funcs
        BY <3>1, <4>1, <4>2
      <4> HIDE DEF R
      <4>5. QED
        BY <4>3, <4>4 DEF Way
    <3>4. QED
      BY <3>2, <3>3
  <2>4. Guarded(c)'
    BY <1>2, <1>3, <1>4, <1>5, <2>1, <2>2, <2>3 DEF Guarded, Inside
  <2>5. QED
    BY <1>7, <2>1, <2>2, <2>4
<1>10. CASE Body_(c)
  <2>1. /\ pos[c] \in {"at", "body"} /\ UNCHANGED <<loc, via, skipped, torn>>
        /\ pos' = [pos EXCEPT ![c] = IF loc[c] \in Funcs THEN "return"
                                     ELSE IF Mapped THEN "detour" ELSE "fault"]
    BY <1>10 DEF Body_, Move
  <2>2. /\ pos'[c] = IF loc[c] \in Funcs THEN "return" ELSE IF Mapped THEN "detour" ELSE "fault"
        /\ CallTypes' /\ Rest /\ loc[c] \in Locs
    BY <1>5, <2>1 DEF CallTypes, Positions, Inside
  <2>3. loc[c] \in Funcs \/ loc[c] \in Hooks
    BY <2>2 DEF Locs
  <2>4. Guarded(c)'
    BY <1>2, <1>3, <1>4, <1>5, <2>1, <2>2 DEF Guarded, Inside
  <2>5. QED
    BY <1>7, <2>1, <2>2, <2>3, <2>4
<1>11. CASE ReadTrampoline(c)
  <2>1. pos[c] = "detour" /\ loc[c] \in Hooks /\ UNCHANGED <<loc, torn>> /\ tramp[loc[c]] \in Tramps \cup {Null}
    BY <1>5, <1>11 DEF ReadTrampoline, IInv, TypeOK
  <2>2. lost = {} /\ torn[c] = {} => Valid(loc[c])
    BY <1>5, <2>1 DEF Guarded, Inside, Way, Locs
  <2>3. CASE ~Mapped
    <3>1. Move(c, "fault") /\ UNCHANGED <<via, skipped>>
      BY <1>11, <2>3 DEF ReadTrampoline
    <3>2. pos'[c] = "fault" /\ CallTypes' /\ Rest
      BY <1>5, <2>1, <3>1 DEF Move, CallTypes, Positions
    <3>3. Guarded(c)'
      BY <1>2, <1>4, <1>5, <2>1, <2>3, <3>1, <3>2 DEF Guarded, Inside
    <3>4. QED
      BY <1>7, <3>2, <3>3 DEF Inside
  <2>4. CASE Mapped /\ tramp[loc[c]] = Null
    <3>1. Move(c, "return") /\ skipped' = [skipped EXCEPT ![c] = TRUE] /\ UNCHANGED via
      BY <1>11, <2>4 DEF ReadTrampoline
    <3>2. pos'[c] = "return" /\ CallTypes' /\ Rest
      BY <1>5, <2>1, <3>1 DEF Move, CallTypes, Positions
    <3>3. torn[c] = {} => lost # {}
      BY <2>2, <2>4 DEF Valid
    <3>4. Guarded(c)'
      BY <1>2, <2>1, <3>2, <3>3 DEF Guarded, Inside
    <3>5. QED
      BY <1>7, <3>2, <3>4 DEF Inside
  <2>5. CASE Mapped /\ tramp[loc[c]] # Null
    <3>1. Move(c, "trampoline") /\ via' = [via EXCEPT ![c] = tramp[loc[c]]] /\ UNCHANGED skipped
      BY <1>11, <2>5 DEF ReadTrampoline
    <3>2. pos'[c] = "trampoline" /\ via'[c] = tramp[loc[c]] /\ CallTypes' /\ Rest
      BY <1>5, <2>1, <3>1 DEF Move, CallTypes, Positions, Inside
    <3>3. Guarded(c)'
      BY <1>2, <1>3, <1>5, <2>1, <2>5, <3>1, <3>2 DEF Guarded, Inside
    <3>4. QED
      BY <1>7, <1>5, <2>1, <3>2, <3>3 DEF Inside
  <2>6. QED
    BY <2>3, <2>4, <2>5
<1>12. CASE RunTrampoline(c)
  <2>1. pos[c] = "trampoline" /\ loc[c] \in Hooks /\ UNCHANGED <<via, torn, skipped>>
    BY <1>5, <1>12 DEF RunTrampoline
  <2>2. CASE via[c] \in live
    <3>1. Move(c, "body")
      BY <1>12, <2>2 DEF RunTrampoline
    <3>2. PICK h \in Hooks : tramp[h] = via[c] /\ loc' = [loc EXCEPT ![c] = target[h]]
      BY <1>12, <2>2 DEF RunTrampoline
    <3>3. Valid(h) /\ target[h] \in Locs
      BY <2>2, <3>2 DEF IInv, TypeOK, HookRecords, Valid
    <3>4. pos'[c] = "body" /\ loc'[c] = target[h] /\ CallTypes' /\ Rest
      BY <1>5, <2>1, <3>1, <3>2, <3>3 DEF Move, CallTypes, Positions, Inside
    <3>5. ASSUME torn[c] = {}, lost = {} PROVE Way(target[h])
      <4>1. via[c] = tramp[loc[c]] /\ via[c] # Null /\ Way(loc[c])
        BY <1>5, <2>1, <3>5 DEF Guarded, Inside
      <4>2. Valid(loc[c])
        BY <2>1, <4>1 DEF IInv, HookRecords, Valid
      <4>3. loc[c] = h
        BY <2>1, <3>2, <3>3, <4>1, <4>2 DEF IInv, TrampolinesAccounted
      <4>4. QED
        BY <2>1, <4>1, <4>3 DEF Way, Locs
    <3>6. Guarded(c)'
      BY <1>2, <1>3, <1>5, <2>1, <3>4, <3>5 DEF Guarded, Inside
    <3>7. QED
      BY <1>7, <3>3, <3>4, <3>6
  <2>3. CASE via[c] \notin live
    <3>1. Move(c, "fault") /\ UNCHANGED loc
      BY <1>12, <2>3 DEF RunTrampoline
    <3>2. pos'[c] = "fault" /\ CallTypes' /\ Rest
      BY <1>5, <2>1, <3>1 DEF Move, CallTypes, Positions
    <3>3. torn[c] # {}
      <4> SUFFICES ASSUME torn[c] = {} PROVE FALSE
        OBVIOUS
      <4>1. via[c] = tramp[loc[c]] /\ via[c] # Null
        BY <1>5, <2>1 DEF Guarded
      <4>2. Valid(loc[c])
        BY <2>1, <4>1 DEF IInv, HookRecords, Valid
      <4>3. QED
        BY <2>1, <2>3, <4>1, <4>2 DEF IInv, TrampolinesAccounted
    <3>4. Guarded(c)'
      BY <2>1, <3>3 DEF Guarded
    <3>5. QED
      BY <1>7, <3>2, <3>4 DEF Inside
  <2>4. QED
    BY <2>2, <2>3
<1>13. CASE Return(c)
  <2>1. CASE NewCall(c, Null, "out")
    <3>1. pos'[c] = "out" /\ ~skipped'[c] /\ CallTypes' /\ Rest
      BY <1>5, <2>1 DEF NewCall, CallTypes, Positions
    <3>2. QED
      BY <1>7, <3>1 DEF Guarded, Inside
  <2>2. CASE /\ Move(c, IF Mapped THEN "return" ELSE "fault")
             /\ UNCHANGED <<loc, via, skipped, torn>>
    <3>1. pos'[c] = (IF Mapped THEN "return" ELSE "fault") /\ CallTypes' /\ Rest
      BY <1>5, <2>2 DEF Move, CallTypes, Positions
    <3>2. Guarded(c)'
      BY <1>2, <1>4, <1>5, <2>2, <3>1 DEF Guarded, Inside
    <3>3. QED
      BY <1>7, <3>1, <3>2 DEF Inside
  <2>3. QED
    BY <1>13, <2>1, <2>2 DEF Return
<1>14. QED
  BY <1>7, <1>8, <1>9, <1>10, <1>11, <1>12, <1>13 DEF CallerStep

LEMMA NextCInv == IInv /\ BInv /\ CInv /\ [CallNext]_allVars => CInv'
<1> SUFFICES ASSUME IInv, BInv, CInv, [CallNext]_allVars PROVE CInv'
  OBVIOUS
<1>1. CASE UNCHANGED allVars
  <2>1. UNCHANGED <<pos, loc, via, skipped, torn, target, tramp, lost, stage>>
    BY <1>1 DEF allVars, callVars, vars, jmpVars
  <2>2. QED
    BY <2>1 DEF CInv, CallTypes, Guarded, Way, Valid, Mapped
<1>2. QED
  BY <1>1, HookStepKeeps, CallerStepKeeps DEF CallNext

----------------------------------------------------------------------------
(* What a call that no reset overlaps runs                                   *)

NoneTwice(q) == \A i, j \in 1..Len(q) : q[i] = q[j] => i = j

\* What a call at x comes to on its way back through the trampolines.
Follows(x, y) ==
  \A S \in SUBSET Locs : x \in S /\ (\A h \in S \cap Hooks : Valid(h) => target[h] \in S) => y \in S

\* A way back from l through hooks that are not in B.
NewWay(l, B) == \E A \in SUBSET Hooks :
  /\ l \in A \cup Funcs
  /\ \A h \in A : Valid(h) /\ target[h] \in A \cup Funcs /\ h \notin B

\* The function is still to be run until it was, the hooks ahead are new to the call, and
\* those it owes are behind it, on the way back, or up the jumps it is following.
Exact(c) == torn[c] = {} /\ lost = {} =>
  /\ pos[c] \in Inside \cup {"return"} => NoneTwice(visited[c])
  /\ pos[c] \in Inside => ran[c] = 0
  /\ pos[c] = "at" => visited[c] = <<>>
  /\ pos[c] \in {"at", "body"} => NewWay(loc[c], Seen(c))
  /\ pos[c] \in {"detour", "trampoline"} =>
       loc[c] \in Seen(c) /\ \A l \in Locs : Patches(loc[c], l) => NewWay(l, Seen(c))
  /\ pos[c] \in Inside => \A h \in due[c] :
       h \in Seen(c) \/ Follows(loc[c], h) \/ (pos[c] = "at" /\ Reaches(loc[c], h, {}))
  /\ pos[c] = "return" => ran[c] = 1 /\ due[c] \subseteq Seen(c)

HistoryTypes ==
  /\ visited \in [Callers -> Seq(Hooks)] /\ due \in [Callers -> SUBSET Hooks]
  /\ ran \in [Callers -> Nat]

XInv == HistoryTypes /\ \A c \in Callers : Exact(c)

LEMMA FollowsNext ==
  ASSUME IInv, NEW x \in Hooks, Valid(x), NEW y, Follows(x, y), y # x
  PROVE  Follows(target[x], y)
<1> SUFFICES ASSUME NEW S \in SUBSET Locs, target[x] \in S,
                    \A h \in S \cap Hooks : Valid(h) => target[h] \in S
             PROVE  y \in S
  BY DEF Follows
<1> DEFINE R == S \cup {x}
<1>1. R \in SUBSET Locs /\ x \in R /\ \A h \in R \cap Hooks : Valid(h) => target[h] \in R
  BY Placement
<1> HIDE DEF R
<1>2. y \in R
  BY <1>1 DEF Follows
<1>3. QED
  BY <1>2 DEF R

LEMMA FollowsFrom ==
  ASSUME NEW g \in Hooks, NEW x, Patches(g, x), NEW y, Follows(x, y)
  PROVE  Follows(g, y)
  BY DEF Follows, Patches

\* A function of the host is the end of the way back.
LEMMA FollowsEnds ==
  ASSUME NEW x \in Funcs, NEW y, Follows(x, y)
  PROVE  y = x
<1>1. {x} \in SUBSET Locs /\ \A h \in {x} \cap Hooks : Valid(h) => target[h] \in {x}
  BY LocationAssumption DEF Locs
<1>2. QED
  BY <1>1 DEF Follows

\* Up the jumps one is at the end, or what is ahead is ahead of the next location.
LEMMA ReachesNext ==
  ASSUME IInv, NEW x \in Locs, NEW y, Reaches(x, y, {}), y # x
  PROVE  code[x] # Body /\ Reaches(code[x], y, {})
<1>1. code[x] # Body
  <2> SUFFICES ASSUME code[x] = Body PROVE FALSE
    OBVIOUS
  <2>1. Closed({x}, {})
    BY DEF Closed
  <2>2. QED
    BY <2>1 DEF Reaches
<1>2. code[x] \in Locs
  BY <1>1, Placement
<1>3. ASSUME NEW S \in SUBSET Locs, code[x] \in S, Closed(S, {}) PROVE y \in S
  <2> DEFINE R == S \cup {x}
  <2>1. R \in SUBSET Locs /\ x \in R /\ Closed(R, {})
    BY <1>3 DEF Closed
  <2> HIDE DEF R
  <2>2. y \in R
    BY <2>1 DEF Reaches
  <2>3. QED
    BY <2>2 DEF R
<1>4. QED
  BY <1>1, <1>2, <1>3 DEF Reaches

\* The way back from a hook leaves it behind: the targets do not go in a circle.
LEMMA WayOn ==
  ASSUME IInv, NoTower, NEW h \in Hooks, NEW B, NewWay(h, B)
  PROVE  Valid(h) /\ h \notin B /\ NewWay(target[h], B \cup {h})
<1>1. PICK A \in SUBSET Hooks :
        /\ h \in A \cup Funcs
        /\ \A g \in A : Valid(g) /\ target[g] \in A \cup Funcs /\ g \notin B
  BY DEF NewWay
<1>2. h \in A /\ Valid(h) /\ h \notin B /\ target[h] \in A \cup Funcs
  BY <1>1, LocationAssumption
<1>3. CASE target[h] \in Funcs
  <2>1. {} \in SUBSET Hooks /\ target[h] \in {} \cup Funcs
    BY <1>3
  <2>2. QED
    BY <1>2, <2>1 DEF NewWay
<1>4. CASE target[h] \in A
  <2> DEFINE Through(T) == \A g \in T : target[g] \in T \cup Funcs
             R == {x \in A : \A T \in SUBSET A : target[h] \in T /\ Through(T) => x \in T}
  <2>1. target[h] \in R /\ R \in SUBSET Hooks
    BY <1>1, <1>4
  <2>2. ASSUME NEW x \in R PROVE target[x] \in R \cup Funcs
    <3> SUFFICES ASSUME target[x] \notin Funcs PROVE target[x] \in R
      OBVIOUS
    <3>1. target[x] \in A
      BY <1>1
    <3>2. ASSUME NEW T \in SUBSET A, target[h] \in T, Through(T) PROVE target[x] \in T
      <4>1. x \in T
        BY <3>2
      <4>2. QED
        BY <3>2, <4>1
    <3>3. QED
      BY <3>1, <3>2
  <2>3. h \notin R
    <3> SUFFICES ASSUME h \in R PROVE FALSE
      OBVIOUS
    <3> DEFINE D == {x \in A : \A T \in SUBSET A : x \in T /\ Through(T) => h \in T}
    <3>1. target[h] \in D
      BY <1>4
    <3>2. ASSUME NEW x \in D PROVE target[x] \in D
      <4>1. CASE x = h
        BY <3>1, <4>1
      <4>2. CASE x # h
        <5>1. target[x] \notin Funcs
          <6> SUFFICES ASSUME target[x] \in Funcs PROVE FALSE
            OBVIOUS
          <6>1. {x} \in SUBSET A /\ Through({x})
            OBVIOUS
          <6>2. h \in {x}
            BY <6>1
          <6>3. QED
            BY <4>2, <6>2
        <5>2. target[x] \in A
          BY <1>1, <5>1
        <5>3. ASSUME NEW T \in SUBSET A, target[x] \in T, Through(T) PROVE h \in T
          <6> DEFINE V == T \cup {x}
          <6>1. V \in SUBSET A /\ x \in V /\ Through(V)
            BY <5>3
          <6> HIDE DEF V
          <6>2. h \in V
            BY <6>1
          <6>3. QED
            BY <4>2, <6>2 DEF V
        <5>4. QED
          BY <5>2, <5>3
      <4>3. QED
        BY <4>1, <4>2
    <3>3. D \in SUBSET Hooks /\ D # {} /\ \A x \in D : Valid(x)
      BY <1>1, <3>1
    <3> HIDE DEF D
    <3>4. QED
      BY <3>2, <3>3 DEF NoTower
  <2>4. \A x \in R : Valid(x) /\ x \notin B \cup {h}
    BY <1>1, <2>3
  <2> HIDE DEF R
  <2>5. QED
    BY <1>2, <2>1, <2>2, <2>4 DEF NewWay
<1>5. QED
  BY <1>2, <1>3, <1>4

LEMMA InitXInv == CallInit => XInv
<1> SUFFICES ASSUME CallInit PROVE XInv
  OBVIOUS
<1>1. <<>> \in Seq(Hooks)
  OBVIOUS
<1>2. HistoryTypes
  BY <1>1 DEF CallInit, HistoryTypes
<1>3. \A c \in Callers : Exact(c)
  BY DEF CallInit, Exact, Inside
<1>4. QED
  BY <1>2, <1>3 DEF XInv

\* A step of the installing thread that resets nothing makes no difference to a call.
LEMMA HookStepExact == ASSUME IInv, BInv, RInv, CInv, XInv, HookStep PROVE XInv'
<1>1. Next /\ UNCHANGED <<pos, loc, visited, due, ran>>
  BY DEF HookStep
<1>2. ASSUME NEW c \in Callers PROVE Exact(c)'
  <2> SUFFICES ASSUME torn'[c] = {}, lost' = {} PROVE Exact(c)'
    BY DEF Exact
  <2>1. torn[c] = {} /\ (pos[c] = "out" \/ ~Resetting)
    BY DEF HookStep
  <2>2. lost = {}
    BY <1>1, Lasting
  <2>3. Exact(c)
    BY DEF XInv
  <2>4. CASE pos[c] = "out"
    BY <1>1, <2>4 DEF Exact, Inside
  <2>5. CASE ~Resetting
    <3>1. \A h \in Hooks : Valid(h) => Valid(h)' /\ target'[h] = target[h]
      BY <1>1, <2>5, Gentle DEF Valid
    <3>2. ~ResetDisables
      BY <2>5 DEF Resetting, ResetDisables
    <3>3. \A x, y : Reaches(x, y, {}) => Reaches(x, y, {})'
      BY <1>1, <3>2, ReachesKeeps
    <3>4. \A x, y : Follows(x, y) => Follows(x, y)'
      BY <3>1 DEF Follows
    <3>5. \A l, B : NewWay(l, B) => NewWay(l, B)'
      BY <3>1 DEF NewWay
    <3>6. Seen(c)' = Seen(c)
      BY <1>1 DEF Seen
    <3>7. pos[c] \in {"detour", "trampoline"} => Valid(loc[c])
      <4> SUFFICES ASSUME pos[c] \in {"detour", "trampoline"} PROVE Valid(loc[c])
        OBVIOUS
      <4>1. Way(loc[c]) /\ loc[c] \in Hooks
        BY <2>1, <2>2 DEF CInv, Guarded, Inside
      <4>2. QED
        BY <4>1, LocationAssumption DEF Way
    <3>8. pos[c] \in {"detour", "trampoline"} => \A l \in Locs : Patches(loc[c], l)' => Patches(loc[c], l)
      BY <1>1, <3>1, <3>7 DEF Patches, CInv
    <3>9. QED
      BY <1>1, <2>1, <2>2, <2>3, <3>3, <3>4, <3>5, <3>6, <3>8 DEF Exact
  <2>6. QED
    BY <2>1, <2>4, <2>5
<1>3. QED
  BY <1>1, <1>2 DEF XInv, HistoryTypes

LEMMA CallerStepExact ==
  ASSUME IInv, RInv, CInv, XInv, NEW c \in Callers, CallerStep(c)
  PROVE  XInv'
<1> USE LocationAssumption
<1>1. UNCHANGED vars
  BY DEF CallerStep, Enter, Jump, Body_, ReadTrampoline, RunTrampoline, Return
<1>2. UNCHANGED <<code, target, tramp, live, lost, stage>>
  BY <1>1 DEF vars, jmpVars
<1>3. /\ \A x, y, X : Reaches(x, y, X)' <=> Reaches(x, y, X)
      /\ \A x, y : Follows(x, y)' <=> Follows(x, y)
      /\ \A l, B : NewWay(l, B)' <=> NewWay(l, B)
      /\ \A h, l : Patches(h, l)' <=> Patches(h, l)
  BY <1>2 DEF Reaches, Closed, Follows, NewWay, Patches, Valid
<1>4. /\ pos[c] \in Inside => loc[c] \in Locs
      /\ pos[c] \in {"detour", "trampoline"} => loc[c] \in Hooks
      /\ Guarded(c) /\ CallTypes /\ HistoryTypes /\ Exact(c)
  BY DEF CInv, XInv
<1> DEFINE Rest == \A d \in Callers : d # c =>
                     pos'[d] = pos[d] /\ loc'[d] = loc[d] /\ torn'[d] = torn[d]
                     /\ visited'[d] = visited[d] /\ due'[d] = due[d] /\ ran'[d] = ran[d]
<1>5. ASSUME HistoryTypes', Exact(c)', Rest PROVE XInv'
  <2>1. ASSUME NEW d \in Callers, d # c PROVE Exact(d)'
    <3>1. Seen(d)' = Seen(d) /\ Exact(d)
      BY <1>5, <2>1 DEF Seen, XInv
    <3>2. QED
      BY <1>2, <1>3, <1>5, <2>1, <3>1 DEF Exact
  <2>2. QED
    BY <1>5, <2>1 DEF XInv
<1> DEFINE Bound == torn[c] = {} /\ lost = {}
<1>6. Bound /\ pos[c] \in Inside => Way(loc[c])
  BY <1>4 DEF Guarded
<1>7. ASSUME NEW f \in Funcs, Enter(c, f) PROVE XInv'
  <2>0. f \in Locs
    BY DEF Locs
  <2> DEFINE D == {h \in Hooks : \E n \in 0..Cardinality(Locs) : Path(f)[n] = h}
  <2>1. /\ pos'[c] = "at" /\ loc'[c] = f /\ visited'[c] = <<>> /\ ran'[c] = 0 /\ due'[c] = D
        /\ Rest
    BY <1>4, <1>7 DEF Enter, NewCall, CallTypes, HistoryTypes
  <2>2. HistoryTypes'
    <3>1. <<>> \in Seq(Hooks) /\ D \in SUBSET Hooks
      OBVIOUS
    <3> HIDE DEF D
    <3>2. due' = [due EXCEPT ![c] = D]
      BY <1>7 DEF Enter, D
    <3>3. QED
      BY <1>4, <1>7, <3>1, <3>2 DEF Enter, NewCall, HistoryTypes
  <2>3. \A h \in D : Reaches(f, h, {})
    BY <2>0, PathReaches DEF RInv
  <2>4. \A B : NewWay(f, B)
    <3>1. {} \in SUBSET Hooks /\ f \in {} \cup Funcs
      OBVIOUS
    <3>2. QED
      BY <3>1 DEF NewWay
  <2>5. NoneTwice(<<>>)
    BY DEF NoneTwice
  <2> HIDE DEF D
  <2>6. Exact(c)'
    BY <1>3, <2>1, <2>3, <2>4, <2>5 DEF Exact, Inside
  <2>7. QED
    BY <1>5, <2>1, <2>2, <2>6
<1>8. CASE Jump(c)
  <2>1. /\ pos[c] = "at" /\ code[loc[c]] # Body /\ loc[c] \in Locs
        /\ UNCHANGED <<pos, visited, due, ran, torn>> /\ loc'[c] = code[loc[c]]
        /\ \A d \in Callers : d # c => loc'[d] = loc[d]
    BY <1>4, <1>8 DEF Jump, Inside, CallTypes
  <2>2. HistoryTypes' /\ Rest /\ Seen(c)' = Seen(c)
    BY <1>4, <2>1 DEF HistoryTypes, Seen
  <2>3. ASSUME Bound
        PROVE  \/ code[loc[c]] \in Funcs /\ loc[c] \in Funcs
               \/ \E h \in Hooks : code[loc[c]] = h /\ Patches(h, loc[c])
    BY <2>1, <2>3, JumpsAreOwned
  <2>4. ASSUME Bound PROVE NewWay(code[loc[c]], Seen(c))
    <3>1. visited[c] = <<>> /\ NewWay(loc[c], Seen(c))
      BY <1>4, <2>1, <2>4 DEF Exact
    <3>2. Seen(c) = {}
      BY <3>1 DEF Seen
    <3>3. CASE code[loc[c]] \in Funcs
      <4>1. {} \in SUBSET Hooks /\ code[loc[c]] \in {} \cup Funcs
        BY <3>3
      <4>2. QED
        BY <4>1 DEF NewWay
    <3>4. ASSUME NEW h \in Hooks, code[loc[c]] = h, Patches(h, loc[c])
          PROVE  NewWay(code[loc[c]], Seen(c))
      <4>1. PICK A \in SUBSET Hooks : /\ loc[c] \in A \cup Funcs
                                      /\ \A g \in A : Valid(g) /\ target[g] \in A \cup Funcs
        BY <3>1 DEF NewWay
      <4> DEFINE R == A \cup {h}
      <4>2. R \in SUBSET Hooks /\ h \in R /\ \A g \in R : Valid(g) /\ target[g] \in R \cup Funcs
        BY <3>4, <4>1 DEF Patches
      <4> HIDE DEF R
      <4>3. QED
        BY <3>2, <3>4, <4>2 DEF NewWay
    <3>5. QED
      BY <2>3, <2>4, <3>3, <3>4
  <2>5. ASSUME Bound, NEW h \in due[c]
        PROVE  h \in Seen(c) \/ Follows(code[loc[c]], h) \/ Reaches(code[loc[c]], h, {})
    <3>0. h \in Hooks /\ (h \in Seen(c) \/ Follows(loc[c], h) \/ Reaches(loc[c], h, {}))
      BY <1>4, <2>1, <2>5 DEF Exact, Inside, HistoryTypes
    <3>1. CASE Reaches(loc[c], h, {}) /\ h # loc[c]
      BY <2>1, <3>1, ReachesNext
    <3>2. Follows(h, h)
      BY DEF Follows
    <3>3. CASE Follows(loc[c], h) \/ h = loc[c]
      <4>1. Follows(loc[c], h)
        BY <3>2, <3>3
      <4>2. loc[c] \notin Funcs
        BY <3>0, <4>1, FollowsEnds
      <4>3. QED
        BY <2>3, <2>5, <4>1, <4>2, FollowsFrom
    <3>4. QED
      BY <3>0, <3>1, <3>3
  <2>6. Exact(c)'
    BY <1>2, <1>3, <1>4, <2>1, <2>2, <2>4, <2>5 DEF Exact, Inside
  <2>7. QED
    BY <1>5, <2>1, <2>2, <2>6
<1>9. CASE Body_(c) /\ loc[c] \in Funcs
  <2>1. /\ pos[c] \in {"at", "body"} /\ UNCHANGED <<loc, visited, due, torn>>
        /\ pos' = [pos EXCEPT ![c] = "return"] /\ ran' = [ran EXCEPT ![c] = @ + 1]
        /\ pos[c] = "at" => code[loc[c]] = Body
    BY <1>9 DEF Body_, Move
  <2>2. /\ pos'[c] = "return" /\ ran'[c] = ran[c] + 1 /\ HistoryTypes' /\ Rest
        /\ Seen(c)' = Seen(c) /\ loc[c] \in Locs
    BY <1>4, <2>1 DEF CallTypes, HistoryTypes, Seen, Inside
  <2>3. ASSUME Bound PROVE due[c] \subseteq Seen(c)
    <3> SUFFICES ASSUME NEW h \in due[c], h \notin Seen(c) PROVE FALSE
      OBVIOUS
    <3>1. h \in Hooks /\ (Follows(loc[c], h) \/ (pos[c] = "at" /\ Reaches(loc[c], h, {})))
      BY <1>4, <2>1, <2>3 DEF Exact, Inside, HistoryTypes
    <3>2. h # loc[c]
      BY <1>9, <3>1
    <3>3. QED
      BY <1>9, <2>1, <2>2, <3>1, <3>2, FollowsEnds, ReachesNext
  <2>4. Exact(c)'
    BY <1>2, <1>4, <2>1, <2>2, <2>3 DEF Exact, Inside
  <2>5. QED
    BY <1>5, <2>2, <2>4
<1>10. CASE Body_(c) /\ loc[c] \notin Funcs
  <2>1. /\ pos[c] \in {"at", "body"} /\ UNCHANGED <<loc, due, ran, torn>>
        /\ pos' = [pos EXCEPT ![c] = IF Mapped THEN "detour" ELSE "fault"]
        /\ visited' = [visited EXCEPT ![c] = Append(@, loc[c])]
        /\ pos[c] = "at" => code[loc[c]] = Body
    BY <1>10 DEF Body_, Move
  <2>2. loc[c] \in Hooks /\ loc[c] \in Locs
    BY <1>4, <1>10, <2>1 DEF Inside, Locs
  <2>3. /\ visited[c] \in Seq(Hooks) /\ visited'[c] = Append(visited[c], loc[c])
        /\ pos'[c] = (IF Mapped THEN "detour" ELSE "fault") /\ Rest
    BY <1>4, <2>1 DEF CallTypes, HistoryTypes
  <2> DEFINE q == visited[c]
  <2>4. /\ Append(q, loc[c]) \in Seq(Hooks) /\ Len(Append(q, loc[c])) = Len(q) + 1
        /\ \A i \in 1..Len(q) : Append(q, loc[c])[i] = q[i]
        /\ Append(q, loc[c])[Len(q) + 1] = loc[c]
        /\ Len(q) \in Nat
    BY <2>2, <2>3, AppendProperties, LenProperties
  <2>5. HistoryTypes'
    BY <1>4, <2>1, <2>4 DEF HistoryTypes
  <2> DEFINE r == Append(q, loc[c])
  <2>6. Seen(c)' = Seen(c) \cup {loc[c]}
    <3>1. Seen(c)' = {r[i] : i \in 1..Len(r)} /\ Seen(c) = {q[i] : i \in 1..Len(q)}
      BY <2>3 DEF Seen
    <3>2. /\ Len(r) = Len(q) + 1 /\ \A i \in 1..Len(q) : r[i] = q[i]
          /\ r[Len(q) + 1] = loc[c] /\ Len(q) \in Nat
      BY <2>4
    <3> HIDE DEF q, r
    <3>3. QED
      BY <3>1, <3>2
  <2>7. ASSUME NoneTwice(visited[c]), loc[c] \notin Seen(c) PROVE NoneTwice(visited'[c])
    <3>1. /\ Len(r) = Len(q) + 1 /\ \A i \in 1..Len(q) : r[i] = q[i]
          /\ r[Len(q) + 1] = loc[c] /\ Len(q) \in Nat
      BY <2>4
    <3>2. /\ \A i \in 1..Len(q) : q[i] # loc[c]
          /\ \A i, j \in 1..Len(q) : q[i] = q[j] => i = j
      BY <2>7 DEF Seen, NoneTwice
    <3> HIDE DEF q, r
    <3>3. \A i, j \in 1..Len(r) : r[i] = r[j] => i = j
      BY <3>1, <3>2
    <3>4. visited'[c] = r
      BY <2>3 DEF q, r
    <3>5. QED
      BY <3>3, <3>4 DEF NoneTwice
  <2> HIDE DEF q, r
  <2>8. ASSUME Bound
        PROVE  /\ Valid(loc[c]) /\ loc[c] \notin Seen(c)
               /\ NewWay(target[loc[c]], Seen(c) \cup {loc[c]})
    <3>1. NewWay(loc[c], Seen(c))
      BY <1>4, <2>1, <2>8 DEF Exact
    <3>2. QED
      BY <2>2, <3>1, WayOn DEF RInv
  <2>9. ASSUME Bound, NEW h \in due[c]
        PROVE  h \in Seen(c) \cup {loc[c]} \/ Follows(loc[c], h)
    <3>1. h \in Seen(c) \/ Follows(loc[c], h) \/ (pos[c] = "at" /\ Reaches(loc[c], h, {}))
      BY <1>4, <2>1, <2>9 DEF Exact, Inside
    <3>2. QED
      BY <2>1, <2>2, <3>1, ReachesNext
  <2>10. Exact(c)'
    <3> SUFFICES ASSUME Bound PROVE Exact(c)'
      BY <1>2, <2>1 DEF Exact
    <3>1. NoneTwice(visited'[c])
      BY <1>4, <2>1, <2>7, <2>8 DEF Exact, Inside
    <3>2. \A l \in Locs : Patches(loc[c], l) => NewWay(l, Seen(c) \cup {loc[c]})
      BY <2>8 DEF Patches
    <3>3. ran[c] = 0
      BY <1>4, <2>1 DEF Exact, Inside
    <3>4. \A h \in due[c] : h \in Seen(c)' \/ Follows(loc[c], h)
      BY <2>6, <2>9
    <3>5. loc[c] \in Seen(c)' /\ \A l \in Locs : Patches(loc[c], l) => NewWay(l, Seen(c))'
      BY <1>3, <2>6, <3>2
    <3>6. pos'[c] \in {"detour", "fault"} /\ UNCHANGED <<loc, due, ran>>
      BY <2>1, <2>3
    <3>7. QED
      BY <1>3, <3>1, <3>3, <3>4, <3>5, <3>6 DEF Exact, Inside
  <2>11. QED
    BY <1>5, <2>3, <2>5, <2>10
<1>11. CASE ReadTrampoline(c)
  <2>1. /\ pos[c] = "detour" /\ loc[c] \in Hooks /\ UNCHANGED <<loc, visited, due, ran, torn>>
    BY <1>4, <1>11 DEF ReadTrampoline
  <2>2. Bound => tramp[loc[c]] # Null
    BY <1>6, <2>1 DEF Way, Valid, Inside
  <2>3. \/ pos' = [pos EXCEPT ![c] = "fault"]
        \/ pos' = [pos EXCEPT ![c] = "return"] /\ ~Bound
        \/ pos' = [pos EXCEPT ![c] = "trampoline"]
    BY <1>11, <2>2 DEF ReadTrampoline, Move
  <2>4. /\ HistoryTypes' /\ Rest /\ Seen(c)' = Seen(c)
        /\ pos'[c] = "fault" \/ (pos'[c] = "return" /\ ~Bound) \/ pos'[c] = "trampoline"
    BY <1>4, <2>1, <2>3 DEF CallTypes, HistoryTypes, Seen
  <2>5. Exact(c)'
    BY <1>2, <1>3, <1>4, <2>1, <2>4 DEF Exact, Inside
  <2>6. QED
    BY <1>5, <2>4, <2>5
<1>12. CASE RunTrampoline(c) /\ via[c] \in live
  <2>1. /\ pos[c] = "trampoline" /\ loc[c] \in Hooks /\ UNCHANGED <<via, visited, due, ran, torn>>
        /\ pos' = [pos EXCEPT ![c] = "body"]
    BY <1>4, <1>12 DEF RunTrampoline, Move
  <2>2. PICK h \in Hooks : tramp[h] = via[c] /\ loc' = [loc EXCEPT ![c] = target[h]]
    BY <1>12 DEF RunTrampoline
  <2>3. Valid(h) /\ target[h] \in Locs
    BY <1>12, <2>2 DEF IInv, TypeOK, HookRecords, Valid
  <2>4. pos'[c] = "body" /\ loc'[c] = target[h] /\ HistoryTypes' /\ Rest /\ Seen(c)' = Seen(c)
    BY <1>4, <2>1, <2>2 DEF CallTypes, HistoryTypes, Seen
  <2>5. ASSUME Bound PROVE loc[c] = h
    <3>1. via[c] = tramp[loc[c]] /\ via[c] # Null
      BY <1>4, <2>1, <2>5 DEF Guarded
    <3>2. Valid(loc[c])
      BY <2>1, <3>1 DEF IInv, HookRecords, Valid
    <3>3. QED
      BY <2>1, <2>2, <2>3, <3>1, <3>2 DEF IInv, TrampolinesAccounted
  <2>6. ASSUME Bound
        PROVE  /\ NewWay(target[h], Seen(c)) /\ NoneTwice(visited[c]) /\ ran[c] = 0
               /\ \A g \in due[c] : g \in Seen(c) \/ Follows(target[h], g)
    <3>1. /\ loc[c] \in Seen(c) /\ \A l \in Locs : Patches(loc[c], l) => NewWay(l, Seen(c))
          /\ \A g \in due[c] : g \in Seen(c) \/ Follows(loc[c], g)
          /\ NoneTwice(visited[c]) /\ ran[c] = 0
      BY <1>4, <2>1, <2>6 DEF Exact, Inside
    <3>2. QED
      BY <2>3, <2>5, <2>6, <3>1, FollowsNext DEF Patches
  <2>7. Exact(c)'
    BY <1>2, <1>3, <2>1, <2>4, <2>6 DEF Exact, Inside
  <2>8. QED
    BY <1>5, <2>4, <2>7
<1>13. CASE RunTrampoline(c) /\ via[c] \notin live
  <2>1. pos' = [pos EXCEPT ![c] = "fault"] /\ UNCHANGED <<loc, visited, due, ran, torn>>
    BY <1>13 DEF RunTrampoline, Move
  <2>2. pos'[c] = "fault" /\ HistoryTypes' /\ Rest
    BY <1>4, <2>1 DEF CallTypes, HistoryTypes
  <2>3. Exact(c)'
    BY <2>2 DEF Exact, Inside
  <2>4. QED
    BY <1>5, <2>2, <2>3
<1>14. CASE Return(c)
  <2>1. CASE NewCall(c, Null, "out") /\ due' = [due EXCEPT ![c] = {}]
    <3>1. <<>> \in Seq(Hooks)
      OBVIOUS
    <3>2. pos'[c] = "out" /\ HistoryTypes' /\ Rest
      BY <1>4, <2>1, <3>1 DEF NewCall, CallTypes, HistoryTypes
    <3>3. Exact(c)'
      BY <3>2 DEF Exact, Inside
    <3>4. QED
      BY <1>5, <3>2, <3>3
  <2>2. CASE /\ Move(c, IF Mapped THEN "return" ELSE "fault") /\ pos[c] = "return"
             /\ UNCHANGED <<loc, visited, due, ran, torn>>
    <3>1. /\ pos'[c] = (IF Mapped THEN "return" ELSE "fault") /\ HistoryTypes' /\ Rest
          /\ Seen(c)' = Seen(c)
      BY <1>4, <2>2 DEF Move, CallTypes, HistoryTypes, Seen
    <3>2. Exact(c)'
      BY <1>2, <1>4, <2>2, <3>1 DEF Exact, Inside
    <3>3. QED
      BY <1>5, <3>1, <3>2
  <2>3. QED
    BY <1>14, <2>1, <2>2 DEF Return
<1>15. QED
  BY <1>7, <1>8, <1>9, <1>10, <1>11, <1>12, <1>13, <1>14 DEF CallerStep

LEMMA NextXInv == IInv /\ BInv /\ RInv /\ CInv /\ XInv /\ [CallNext]_allVars => XInv'
<1> SUFFICES ASSUME IInv, BInv, RInv, CInv, XInv, [CallNext]_allVars PROVE XInv'
  OBVIOUS
<1>1. CASE UNCHANGED allVars
  <2>1. UNCHANGED <<pos, loc, torn, visited, due, ran, code, target, tramp, lost>>
    BY <1>1 DEF allVars, callVars, vars, jmpVars
  <2>2. /\ \A x, y, X : Reaches(x, y, X)' <=> Reaches(x, y, X)
        /\ \A x, y : Follows(x, y)' <=> Follows(x, y)
        /\ \A l, B : NewWay(l, B)' <=> NewWay(l, B)
        /\ \A h, l : Patches(h, l)' <=> Patches(h, l)
        /\ \A c : Seen(c)' = Seen(c)
    BY <2>1 DEF Reaches, Closed, Follows, NewWay, Patches, Valid, Seen
  <2>3. \A c \in Callers : Exact(c)'
    BY <2>1, <2>2 DEF XInv, Exact
  <2>4. QED
    BY <2>1, <2>3 DEF XInv, HistoryTypes
<1>2. QED
  BY <1>1, HookStepExact, CallerStepExact DEF CallNext

\* (CallsAreExact) A call that no reset overlaps runs every detour that was in place when it
\* began, none twice, and the host's function once, for any number of callers and of hooks
\* stacked on the function meanwhile.
THEOREM CallsRunExactly == CallSpec => []CallsAreExact
<1>1. ASSUME CInv, XInv PROVE CallsAreExact
  <2> SUFFICES ASSUME NEW c \in Callers, pos[c] = "return", torn[c] = {}, lost = {}
               PROVE  /\ ran[c] = 1 /\ ~skipped[c]
                      /\ \A h \in due[c] : \E i \in 1..Len(visited[c]) : visited[c][i] = h
                      /\ \A i, j \in 1..Len(visited[c]) : visited[c][i] = visited[c][j] => i = j
    BY DEF CallsAreExact
  <2>1. ran[c] = 1 /\ due[c] \subseteq Seen(c) /\ NoneTwice(visited[c])
    BY <1>1 DEF XInv, Exact
  <2>2. ~skipped[c]
    BY <1>1 DEF CInv, Guarded
  <2>3. QED
    BY <2>1, <2>2 DEF Seen, NoneTwice
<1>2. CallSpec => []IInv /\ []BInv /\ []RInv
  BY CallsKeepHooks, Inductive, BatchesInductive, ReachInductive, PTL
<1>3. CallSpec => []CInv
  BY <1>2, InitCInv, NextCInv, PTL DEF CallSpec
<1>4. QED
  BY <1>1, <1>2, <1>3, InitXInv, NextXInv, PTL DEF CallSpec

----------------------------------------------------------------------------
(* Whom a teardown harms                                                     *)

\* The hooks a call has come through and may still come to on its way back: each of them
\* was undone or is there, and then leads on.
WayUnlessUndone(c, l) == \E S \in SUBSET Hooks :
  /\ l \in S \cup Funcs
  /\ \A h \in S : h \in Undone(c) \/ (Valid(h) /\ target[h] \in S \cup Funcs)

\* A call that ran no detour whose hook was undone.
Spared(c) == Seen(c) \cap Undone(c) = {}

Harm(c) ==
  /\ pos[c] = "out" => Seen(c) = {}
  /\ pos[c] \in Inside /\ Spared(c) => WayUnlessUndone(c, loc[c])
  /\ Spared(c) => \A h \in Seen(c) : Valid(h)
  /\ pos[c] \in {"detour", "trampoline"} => loc[c] \in Seen(c)
  /\ pos[c] = "trampoline" /\ loc[c] \notin torn[c] => via[c] = tramp[loc[c]] /\ via[c] # Null
  /\ frames[c] # <<>> \/ pos[c] = "fault" => Seen(c) # {}
  /\ pos[c] = "fault" /\ Mapped => loc[c] \in torn[c]
  /\ skipped[c] => ~Spared(c)

GInv == frames \in [Callers -> Seq(Hooks)] /\ \A c \in Callers : Harm(c)

LEMMA InitGInv == CallInit => GInv
<1> SUFFICES ASSUME CallInit PROVE GInv
  OBVIOUS
<1>1. <<>> \in Seq(Hooks)
  OBVIOUS
<1>2. frames \in [Callers -> Seq(Hooks)]
  BY <1>1 DEF CallInit
<1>3. ASSUME NEW c \in Callers PROVE Harm(c)
  <2>1. Seen(c) = {}
    BY DEF CallInit, Seen
  <2>2. QED
    BY <2>1 DEF CallInit, Harm, Inside
<1>4. QED
  BY <1>2, <1>3 DEF GInv

\* Only a reset takes a hook away, and it is the one being reset.
LEMMA OnlyResetsTakeAway ==
  ASSUME IInv, Next, NEW h \in Hooks, Valid(h), ~(Resetting /\ h = Head(todo))
  PROVE  Valid(h)' /\ tramp'[h] = tramp[h] /\ target'[h] = target[h]
<1>1. CASE ~Resetting
  BY <1>1, Gentle DEF Valid
<1>2. CASE Resetting
  <2>1. ResetFrees \/ UNCHANGED <<target, tramp>>
    BY <1>2
    DEF Next, InstallStep, Resetting, BeginBatch, BatchDone, CreateBegin, FollowJump, FollowGivesUp,
        CreateRefused, CreateCommits, EnableSucceeds, EnableRefused, CreateFails, ResetSkips,
        ResetDisables, ResetDisableRefused, RollbackDone, SetReady, InitializationFails, Unload,
        BeginLazy, Detach, jmpVars
  <2>2. tramp'[h] = tramp[h] /\ target'[h] = target[h]
    BY <1>2, <2>1 DEF ResetFrees, IInv, TypeOK
  <2>3. QED
    BY <2>2 DEF Valid
<1>3. QED
  BY <1>1, <1>2

LEMMA HookStepHarms == ASSUME IInv, BInv, CInv, XInv, GInv, HookStep PROVE GInv'
<1>1. Next /\ UNCHANGED <<pos, loc, via, frames, visited, skipped>>
  BY DEF HookStep
<1>2. lost \subseteq lost' /\ (~Mapped => ~Mapped')
  BY <1>1, Lasting
<1>3. ASSUME NEW c \in Callers PROVE Harm(c)'
  <2>1. Seen(c)' = Seen(c) /\ Harm(c) /\ Seen(c) \subseteq Hooks
    BY <1>1 DEF Seen, GInv, XInv, HistoryTypes
  <2>2. /\ torn[c] \subseteq torn'[c]
        /\ pos[c] # "out" /\ Resetting => Head(todo) \in torn'[c]
    BY DEF HookStep
  <2>3. Undone(c) \subseteq Undone(c)'
    BY <1>2, <2>2 DEF Undone
  <2>4. CASE pos[c] = "out"
    BY <1>1, <2>1, <2>4 DEF Harm, Spared, Inside
  <2>5. CASE pos[c] # "out"
    <3>1. \A h \in Hooks : Valid(h) /\ h \notin torn'[c] =>
            Valid(h)' /\ tramp'[h] = tramp[h] /\ target'[h] = target[h]
      BY <1>1, <2>2, <2>5, OnlyResetsTakeAway
    <3>2. Spared(c)' => Spared(c) /\ \A h \in Seen(c) : h \notin torn'[c]
      BY <2>1, <2>3 DEF Spared, Undone
    <3>3. WayUnlessUndone(c, loc[c]) => WayUnlessUndone(c, loc[c])'
      <4> SUFFICES ASSUME WayUnlessUndone(c, loc[c]) PROVE WayUnlessUndone(c, loc[c])'
        OBVIOUS
      <4>1. PICK S \in SUBSET Hooks :
              /\ loc[c] \in S \cup Funcs
              /\ \A h \in S : h \in Undone(c) \/ (Valid(h) /\ target[h] \in S \cup Funcs)
        BY DEF WayUnlessUndone
      <4>2. torn'[c] \subseteq Undone(c)'
        BY DEF Undone
      <4>3. \A h \in S : h \in Undone(c)' \/ (Valid(h)' /\ target'[h] \in S \cup Funcs)
        BY <2>3, <3>1, <4>1, <4>2
      <4>4. QED
        BY <1>1, <4>1, <4>3 DEF WayUnlessUndone
    <3>4. Spared(c)' => \A h \in Seen(c) : Valid(h)'
      BY <2>1, <3>1, <3>2 DEF Harm
    <3>5. pos[c] = "trampoline" /\ loc[c] \notin torn'[c] => via[c] = tramp'[loc[c]] /\ via[c] # Null
      <4> SUFFICES ASSUME pos[c] = "trampoline", loc[c] \notin torn'[c]
                   PROVE  via[c] = tramp'[loc[c]] /\ via[c] # Null
        OBVIOUS
      <4>1. via[c] = tramp[loc[c]] /\ via[c] # Null /\ loc[c] \in Hooks
        BY <2>1, <2>2 DEF Harm, CInv
      <4>2. Valid(loc[c])
        BY <4>1 DEF IInv, HookRecords, Valid
      <4>3. QED
        BY <3>1, <4>1, <4>2
    <3>6. QED
      BY <1>1, <1>2, <2>1, <2>2, <2>5, <3>2, <3>3, <3>4, <3>5 DEF Harm
  <2>6. QED
    BY <2>4, <2>5
<1>4. QED
  BY <1>1, <1>3 DEF GInv

\* Running a detour adds it to what the call has run.
LEMMA RunsOne ==
  ASSUME XInv, NEW c \in Callers, loc[c] \in Hooks, visited'[c] = Append(visited[c], loc[c])
  PROVE  Seen(c)' = Seen(c) \cup {loc[c]}
<1> DEFINE q == visited[c]
           r == Append(q, loc[c])
<1>1. q \in Seq(Hooks)
  BY DEF XInv, HistoryTypes
<1>2. /\ Len(r) = Len(q) + 1 /\ Len(q) \in Nat /\ r[Len(q) + 1] = loc[c]
      /\ \A i \in 1..Len(q) : r[i] = q[i]
  BY <1>1, AppendProperties, LenProperties
<1>3. Seen(c)' = {r[i] : i \in 1..Len(r)} /\ Seen(c) = {q[i] : i \in 1..Len(q)}
  BY DEF Seen
<1> HIDE DEF q, r
<1>4. QED
  BY <1>2, <1>3

LEMMA CallerStepHarms ==
  ASSUME IInv, CInv, XInv, GInv, NEW c \in Callers, CallerStep(c)
  PROVE  GInv'
<1> USE LocationAssumption
<1>1. UNCHANGED vars
  BY DEF CallerStep, Enter, Jump, Body_, ReadTrampoline, RunTrampoline, Return
<1>2. UNCHANGED <<code, enabled, target, tramp, live, lost, stage>>
  BY <1>1 DEF vars, jmpVars
<1>3. (\A h : Valid(h)' <=> Valid(h)) /\ (Mapped' <=> Mapped)
  BY <1>2 DEF Valid, Mapped
<1>4. /\ pos[c] \in Inside => loc[c] \in Locs
      /\ pos[c] \in {"detour", "trampoline"} => loc[c] \in Hooks
      /\ CallTypes /\ HistoryTypes /\ Harm(c) /\ frames \in [Callers -> Seq(Hooks)]
  BY DEF CInv, XInv, GInv
<1> DEFINE Rest == \A d \in Callers : d # c =>
                     /\ pos'[d] = pos[d] /\ loc'[d] = loc[d] /\ via'[d] = via[d] /\ torn'[d] = torn[d]
                     /\ frames'[d] = frames[d] /\ visited'[d] = visited[d] /\ skipped'[d] = skipped[d]
           Typed == frames' \in [Callers -> Seq(Hooks)]
<1>5. ASSUME NEW d \in Callers, visited'[d] = visited[d], torn'[d] = torn[d]
      PROVE  /\ Seen(d)' = Seen(d) /\ Undone(d)' = Undone(d) /\ (Spared(d)' <=> Spared(d))
             /\ \A l : WayUnlessUndone(d, l)' <=> WayUnlessUndone(d, l)
  <2>1. Seen(d)' = Seen(d) /\ Undone(d)' = Undone(d)
    BY <1>2, <1>5 DEF Seen, Undone
  <2>2. QED
    BY <1>2, <1>3, <2>1 DEF Spared, WayUnlessUndone
<1>6. ASSUME Typed, Rest, Harm(c)' PROVE GInv'
  <2>1. ASSUME NEW d \in Callers, d # c PROVE Harm(d)'
    <3>1. /\ Seen(d)' = Seen(d) /\ (Spared(d)' <=> Spared(d)) /\ Harm(d)
          /\ \A l : WayUnlessUndone(d, l)' <=> WayUnlessUndone(d, l)
      BY <1>5, <1>6, <2>1 DEF GInv
    <3>2. QED
      BY <1>2, <1>3, <1>6, <2>1, <3>1 DEF Harm
  <2>2. QED
    BY <1>6, <2>1 DEF GInv
<1>7. ASSUME NEW f \in Funcs, Enter(c, f) PROVE GInv'
  <2>0. <<>> \in Seq(Hooks)
    OBVIOUS
  <2>1. /\ pos'[c] = "at" /\ loc'[c] = f /\ ~skipped'[c] /\ visited'[c] = <<>> /\ frames'[c] = <<>>
        /\ Typed /\ Rest
    BY <1>4, <1>7, <2>0 DEF Enter, NewCall, CallTypes, HistoryTypes
  <2>2. Seen(c)' = {}
    BY <2>1 DEF Seen
  <2>3. WayUnlessUndone(c, f)'
    <3>1. {} \in SUBSET Hooks /\ f \in {} \cup Funcs
      OBVIOUS
    <3>2. QED
      BY <3>1 DEF WayUnlessUndone
  <2>4. QED
    BY <1>6, <2>1, <2>2, <2>3 DEF Harm
<1>8. CASE Jump(c)
  <2>1. /\ pos[c] = "at" /\ code[loc[c]] # Body /\ loc[c] \in Locs
        /\ UNCHANGED <<pos, via, frames, visited, skipped, torn>>
        /\ loc' = [loc EXCEPT ![c] = code[loc[c]]]
    BY <1>4, <1>8 DEF Jump, Inside
  <2>2. loc'[c] = code[loc[c]] /\ Typed /\ Rest
    BY <1>4, <2>1 DEF CallTypes
  <2>3. ASSUME WayUnlessUndone(c, loc[c]) PROVE WayUnlessUndone(c, code[loc[c]])
    <3>1. PICK S \in SUBSET Hooks :
            /\ loc[c] \in S \cup Funcs
            /\ \A h \in S : h \in Undone(c) \/ (Valid(h) /\ target[h] \in S \cup Funcs)
      BY <2>3 DEF WayUnlessUndone
    <3>2. CASE code[loc[c]] = Thunk[loc[c]]
      <4>1. code[loc[c]] \in Funcs
        BY <2>1, <3>2, GroupAssumption
      <4>2. QED
        BY <3>1, <4>1 DEF WayUnlessUndone
    <3>3. CASE code[loc[c]] # Thunk[loc[c]]
      <4>1. PICK h \in Hooks : /\ code[loc[c]] = h
                               /\ <<loc[c], h>> \in lost \/ (enabled[h] /\ target[h] = loc[c])
        BY <2>1, <3>3 DEF IInv, PatchOwnership
      <4>2. h \in Undone(c) \/ (Valid(h) /\ target[h] \in S \cup Funcs)
        BY <2>1, <3>1, <4>1 DEF Undone, IInv, EnabledIsPatched
      <4> DEFINE R == S \cup {h}
      <4>3. R \in SUBSET Hooks /\ code[loc[c]] \in R \cup Funcs
        BY <4>1
      <4>4. \A g \in R : g \in Undone(c) \/ (Valid(g) /\ target[g] \in R \cup Funcs)
        BY <3>1, <4>2
      <4> HIDE DEF R
      <4>5. QED
        BY <4>3, <4>4 DEF WayUnlessUndone
    <3>4. QED
      BY <3>2, <3>3
  <2>4. /\ Seen(c)' = Seen(c) /\ (Spared(c)' <=> Spared(c))
        /\ \A l : WayUnlessUndone(c, l)' <=> WayUnlessUndone(c, l)
    BY <1>5, <2>1
  <2>5. Harm(c)'
    BY <1>2, <1>3, <1>4, <2>1, <2>2, <2>3, <2>4 DEF Harm, Inside
  <2>6. QED
    BY <1>6, <2>2, <2>5
<1>9. CASE Body_(c) /\ loc[c] \in Funcs
  <2>1. /\ pos[c] \in {"at", "body"} /\ UNCHANGED <<loc, via, frames, visited, skipped, torn>>
        /\ pos' = [pos EXCEPT ![c] = "return"]
    BY <1>9 DEF Body_, Move
  <2>2. pos'[c] = "return" /\ Typed /\ Rest
    BY <1>4, <2>1 DEF CallTypes
  <2>3. Seen(c)' = Seen(c) /\ (Spared(c)' <=> Spared(c))
    BY <1>5, <2>1
  <2>4. Harm(c)'
    BY <1>2, <1>3, <1>4, <2>1, <2>2, <2>3 DEF Harm, Inside
  <2>5. QED
    BY <1>6, <2>2, <2>4
<1>10. CASE Body_(c) /\ loc[c] \notin Funcs
  <2>1. /\ pos[c] \in {"at", "body"} /\ UNCHANGED <<loc, via, frames, skipped, torn>>
        /\ pos' = [pos EXCEPT ![c] = IF Mapped THEN "detour" ELSE "fault"]
        /\ visited' = [visited EXCEPT ![c] = Append(@, loc[c])]
    BY <1>10 DEF Body_, Move
  <2>2. /\ pos'[c] = (IF Mapped THEN "detour" ELSE "fault") /\ Typed /\ Rest
        /\ visited'[c] = Append(visited[c], loc[c]) /\ loc[c] \in Hooks
    BY <1>4, <1>10, <2>1 DEF CallTypes, HistoryTypes, Inside, Locs
  <2>3. Seen(c)' = Seen(c) \cup {loc[c]} /\ Undone(c)' = Undone(c)
    BY <1>2, <2>1, <2>2, RunsOne DEF Undone
  <2>4. Spared(c)' => Spared(c) /\ loc[c] \notin Undone(c)
    BY <2>3 DEF Spared
  <2>5. Spared(c)' => WayUnlessUndone(c, loc[c])' /\ Valid(loc[c])
    <3> SUFFICES ASSUME Spared(c)' PROVE WayUnlessUndone(c, loc[c])' /\ Valid(loc[c])
      OBVIOUS
    <3>1. WayUnlessUndone(c, loc[c])
      BY <1>4, <2>1, <2>4 DEF Harm, Inside
    <3>2. Valid(loc[c])
      BY <1>10, <2>4, <3>1 DEF WayUnlessUndone
    <3>3. WayUnlessUndone(c, loc[c])'
      BY <1>2, <1>3, <2>1, <2>3, <3>1 DEF WayUnlessUndone
    <3>4. QED
      BY <3>2, <3>3
  <2>6. Spared(c)' => \A h \in Seen(c)' : Valid(h)'
    BY <1>3, <1>4, <2>3, <2>4, <2>5 DEF Harm
  <2>7. skipped'[c] => ~Spared(c)'
    BY <1>4, <2>1, <2>4 DEF Harm
  <2>8. Harm(c)'
    <3>1. loc'[c] = loc[c] /\ loc[c] \in Seen(c)' /\ Seen(c)' # {}
      BY <2>1, <2>3
    <3>2. pos'[c] \in {"detour", "fault"} /\ (pos'[c] = "fault" => ~Mapped')
      BY <1>3, <2>2
    <3>3. Spared(c)' => WayUnlessUndone(c, loc[c])'
      BY <2>5
    <3>4. QED
      BY <2>1, <2>6, <2>7, <3>1, <3>2, <3>3 DEF Harm
  <2>9. QED
    BY <1>6, <2>2, <2>8
<1>11. CASE ReadTrampoline(c)
  <2>1. /\ pos[c] = "detour" /\ loc[c] \in Hooks /\ UNCHANGED <<loc, frames, visited, torn>>
        /\ loc[c] \in Seen(c)
    BY <1>4, <1>11 DEF ReadTrampoline, Harm
  <2>2. /\ Seen(c)' = Seen(c) /\ (Spared(c)' <=> Spared(c))
        /\ \A l : WayUnlessUndone(c, l)' <=> WayUnlessUndone(c, l)
    BY <1>5, <2>1
  <2>3. Spared(c) => Valid(loc[c])
    BY <1>4, <2>1 DEF Harm
  <2>4. CASE ~Mapped
    <3>1. Move(c, "fault") /\ UNCHANGED <<via, skipped>>
      BY <1>11, <2>4 DEF ReadTrampoline
    <3>2. pos'[c] = "fault" /\ Typed /\ Rest
      BY <1>4, <2>1, <3>1 DEF Move, CallTypes
    <3>3. Harm(c)'
      BY <1>3, <1>4, <2>1, <2>2, <2>4, <3>1, <3>2 DEF Harm, Inside
    <3>4. QED
      BY <1>6, <3>2, <3>3
  <2>5. CASE Mapped /\ tramp[loc[c]] = Null
    <3>1. Move(c, "return") /\ skipped' = [skipped EXCEPT ![c] = TRUE] /\ UNCHANGED via
      BY <1>11, <2>5 DEF ReadTrampoline
    <3>2. pos'[c] = "return" /\ Typed /\ Rest
      BY <1>4, <2>1, <3>1 DEF Move, CallTypes
    <3>3. ~Spared(c)
      BY <2>3, <2>5 DEF Valid
    <3>4. Harm(c)'
      BY <1>4, <2>1, <2>2, <3>2, <3>3 DEF Harm, Inside
    <3>5. QED
      BY <1>6, <3>2, <3>4
  <2>6. CASE Mapped /\ tramp[loc[c]] # Null
    <3>1. Move(c, "trampoline") /\ via' = [via EXCEPT ![c] = tramp[loc[c]]] /\ UNCHANGED skipped
      BY <1>11, <2>6 DEF ReadTrampoline
    <3>2. pos'[c] = "trampoline" /\ via'[c] = tramp[loc[c]] /\ Typed /\ Rest
      BY <1>4, <2>1, <3>1 DEF Move, CallTypes
    <3>3. Harm(c)'
      BY <1>2, <1>3, <1>4, <2>1, <2>2, <2>6, <3>1, <3>2 DEF Harm, Inside
    <3>4. QED
      BY <1>6, <3>2, <3>3
  <2>7. QED
    BY <2>4, <2>5, <2>6
<1>12. CASE RunTrampoline(c)
  <2>1. /\ pos[c] = "trampoline" /\ loc[c] \in Hooks /\ UNCHANGED <<via, visited, torn, skipped>>
        /\ loc[c] \in Seen(c)
    BY <1>4, <1>12 DEF RunTrampoline, Harm
  <2>2. /\ Seen(c)' = Seen(c) /\ (Spared(c)' <=> Spared(c))
        /\ \A l : WayUnlessUndone(c, l)' <=> WayUnlessUndone(c, l)
    BY <1>5, <2>1
  <2>3. ASSUME loc[c] \notin torn[c] PROVE via[c] = tramp[loc[c]] /\ Valid(loc[c]) /\ via[c] \in live
    <3>1. via[c] = tramp[loc[c]] /\ via[c] # Null
      BY <1>4, <2>1, <2>3 DEF Harm
    <3>2. Valid(loc[c])
      BY <2>1, <3>1 DEF IInv, HookRecords, Valid
    <3>3. QED
      BY <2>1, <3>1, <3>2 DEF IInv, TrampolinesAccounted
  <2>4. CASE via[c] \in live
    <3>1. Move(c, "body") /\ frames' = [frames EXCEPT ![c] = <<loc[c]>> \o @]
      BY <1>12, <2>4 DEF RunTrampoline
    <3>2. PICK h \in Hooks : tramp[h] = via[c] /\ loc' = [loc EXCEPT ![c] = target[h]]
      BY <1>12, <2>4 DEF RunTrampoline
    <3>3. Valid(h)
      BY <2>4, <3>2 DEF IInv, TypeOK, HookRecords, Valid
    <3>4. <<loc[c]>> \o frames[c] \in Seq(Hooks)
      BY <1>4, <2>1
    <3>5. pos'[c] = "body" /\ loc'[c] = target[h] /\ Typed /\ Rest
      BY <1>4, <2>1, <3>1, <3>2, <3>4 DEF Move, CallTypes
    <3>6. ASSUME Spared(c) PROVE WayUnlessUndone(c, target[h])
      <4>1. loc[c] \notin torn[c] /\ loc[c] \notin Undone(c)
        BY <2>1, <3>6 DEF Spared, Undone
      <4>2. loc[c] = h
        BY <2>1, <2>3, <3>2, <3>3, <4>1 DEF IInv, TrampolinesAccounted
      <4>3. WayUnlessUndone(c, loc[c])
        BY <1>4, <2>1, <3>6 DEF Harm, Inside
      <4>4. QED
        BY <2>1, <4>1, <4>2, <4>3 DEF WayUnlessUndone, Locs
    <3>7. Harm(c)'
      BY <1>3, <1>4, <2>1, <2>2, <3>5, <3>6 DEF Harm, Inside
    <3>8. QED
      BY <1>6, <3>5, <3>7
  <2>5. CASE via[c] \notin live
    <3>1. Move(c, "fault") /\ UNCHANGED <<loc, frames>>
      BY <1>12, <2>5 DEF RunTrampoline
    <3>2. pos'[c] = "fault" /\ Typed /\ Rest
      BY <1>4, <2>1, <3>1 DEF Move, CallTypes
    <3>3. loc[c] \in torn[c]
      BY <2>3, <2>5
    <3>4. Harm(c)'
      BY <1>3, <1>4, <2>1, <2>2, <3>1, <3>2, <3>3 DEF Harm, Inside
    <3>5. QED
      BY <1>6, <3>2, <3>4
  <2>6. QED
    BY <2>4, <2>5
<1>13. CASE Return(c)
  <2>1. CASE NewCall(c, Null, "out")
    <3>1. <<>> \in Seq(Hooks)
      OBVIOUS
    <3>2. /\ pos'[c] = "out" /\ ~skipped'[c] /\ visited'[c] = <<>> /\ frames'[c] = <<>>
          /\ Typed /\ Rest
      BY <1>4, <2>1, <3>1 DEF NewCall, CallTypes, HistoryTypes
    <3>3. Seen(c)' = {}
      BY <3>2 DEF Seen
    <3>4. QED
      BY <1>6, <3>2, <3>3 DEF Harm, Inside
  <2>2. CASE /\ frames[c] # <<>> /\ frames' = [frames EXCEPT ![c] = Tail(@)]
             /\ Move(c, IF Mapped THEN "return" ELSE "fault") /\ pos[c] = "return"
             /\ UNCHANGED <<loc, via, visited, skipped, torn>>
    <3>1. Tail(frames[c]) \in Seq(Hooks)
      BY <1>4, <2>2
    <3>2. pos'[c] = (IF Mapped THEN "return" ELSE "fault") /\ Typed /\ Rest
      BY <1>4, <2>2, <3>1 DEF Move, CallTypes
    <3>3. Seen(c)' = Seen(c) /\ (Spared(c)' <=> Spared(c)) /\ Seen(c) # {}
      BY <1>4, <1>5, <2>2 DEF Harm
    <3>4. Harm(c)'
      BY <1>3, <1>4, <2>2, <3>2, <3>3 DEF Harm, Inside
    <3>5. QED
      BY <1>6, <3>2, <3>4
  <2>3. QED
    BY <1>13, <2>1, <2>2 DEF Return
<1>14. QED
  BY <1>7, <1>8, <1>9, <1>10, <1>11, <1>12, <1>13 DEF CallerStep

LEMMA NextGInv == IInv /\ BInv /\ CInv /\ XInv /\ GInv /\ [CallNext]_allVars => GInv'
<1> SUFFICES ASSUME IInv, BInv, CInv, XInv, GInv, [CallNext]_allVars PROVE GInv'
  OBVIOUS
<1>1. CASE UNCHANGED allVars
  <2>1. UNCHANGED <<pos, loc, via, frames, visited, skipped, torn, target, tramp, lost, stage>>
    BY <1>1 DEF allVars, callVars, vars, jmpVars
  <2>2. \A h : (Valid(h)' <=> Valid(h)) /\ (Mapped' <=> Mapped)
    BY <2>1 DEF Valid, Mapped
  <2>3. ASSUME NEW c \in Callers
        PROVE  /\ Seen(c)' = Seen(c) /\ (Spared(c)' <=> Spared(c)) /\ Harm(c)
               /\ WayUnlessUndone(c, loc[c])' <=> WayUnlessUndone(c, loc[c])
    BY <2>1, <2>2 DEF Seen, Undone, Spared, WayUnlessUndone, GInv
  <2>4. \A c \in Callers : Harm(c)'
    BY <2>1, <2>2, <2>3 DEF Harm
  <2>5. QED
    BY <2>1, <2>4 DEF GInv
<1>2. QED
  BY <1>1, HookStepHarms, CallerStepHarms DEF CallNext

\* (HarmOnlyFromTeardown) Whoever is harmed has run the detour of a hook that was reset since
\* the call began, was left in the code by a refused restore, or, once the module is gone, is
\* missing from the list of shutdown: whatever else is installed, rolled back or removed
\* meanwhile does a call no harm.
THEOREM HarmIsFromTeardown == CallSpec => []HarmOnlyFromTeardown
<1>1. ASSUME BInv, XInv, GInv PROVE HarmOnlyFromTeardown
  <2> SUFFICES ASSUME NEW c \in Callers
               PROVE  /\ skipped[c] => Seen(c) \cap Undone(c) # {}
                      /\ pos[c] = "fault" =>
                           IF Mapped THEN loc[c] \in torn[c]
                           ELSE Seen(c) \cap (Undone(c) \cup Unlisted) # {}
    BY DEF HarmOnlyFromTeardown
  <2>1. Harm(c) /\ Seen(c) \subseteq Hooks
    BY <1>1 DEF GInv, XInv, HistoryTypes, Seen
  <2>2. ASSUME pos[c] = "fault", ~Mapped PROVE Seen(c) \cap (Undone(c) \cup Unlisted) # {}
    <3> SUFFICES ASSUME Spared(c) PROVE Seen(c) \cap Unlisted # {}
      BY DEF Spared
    <3>1. PICK h \in Seen(c) : Valid(h)
      BY <2>1, <2>2 DEF Harm
    <3>2. h \in Unlisted
      BY <1>1, <2>1, <2>2, <3>1 DEF Unlisted, BInv, Shutdown, Mapped
    <3>3. QED
      BY <3>1, <3>2
  <2>3. QED
    BY <2>1, <2>2 DEF Harm, Spared
<1>2. CallSpec => []IInv /\ []BInv /\ []RInv
  BY CallsKeepHooks, Inductive, BatchesInductive, ReachInductive, PTL
<1>3. CallSpec => []CInv
  BY <1>2, InitCInv, NextCInv, PTL DEF CallSpec
<1>4. CallSpec => []XInv
  BY <1>2, <1>3, InitXInv, NextXInv, PTL DEF CallSpec
<1>5. QED
  BY <1>1, <1>2, <1>3, <1>4, InitGInv, NextGInv, PTL DEF CallSpec
============================================================================
