------------------------------ MODULE Hooking ------------------------------
(***************************************************************************)
(* Inline hooks (utilities/hooking) and the thread that installs and       *)
(* removes them (entry.cpp, core/hooks/impl/cheat.cpp).                    *)
(*                                                                         *)
(* A location is a function of the host (Funcs) or the detour of a hook,   *)
(* which is named by the hook itself.  The first bytes of a location are   *)
(* Body (its own prologue) or the location a jmp written there leads to.   *)
(* A jmp object remembers its target, its trampoline and the bytes it      *)
(* displaced.  manager::create walks one batch: create and enable every    *)
(* entry, and reset all of them when one fails.                            *)
(*                                                                         *)
(* Only one thread installs at a time: the initialization thread until     *)
(* set_ready(true), the render thread (lazy hooks) after it, the thread    *)
(* that unloads the module last.  So one program counter, phase, suffices. *)
(***************************************************************************)
EXTENDS Naturals, Sequences, FiniteSets

CONSTANTS
  Funcs,         \* functions of the host that are hooked, and thunks to them
  Hooks,         \* the jmp objects; a hook also names its detour
  LazyHooks,     \* hooks created by present() and not by a batch
  Tramps,        \* addresses the allocator can return
  Body,          \* the unpatched prologue of a location
  Null,          \* nullptr
  Request,       \* the address each hook is asked to patch, Null if not found
  Thunk,         \* the first bytes of every location before anything is hooked
  Script,        \* the batches of the initialization, in order
  ShutdownOrder, \* the hooks the module resets when it is unloaded, in order
  FollowLimit,   \* jumps looked at by jmp::create (8 in the code)
  Group          \* names the locations that can lead to one another

Locs == Funcs \cup Hooks

HooksOf(k) == {Script[k].hooks[i] : i \in 1..Len(Script[k].hooks)}
BatchHooks == UNION {HooksOf(k) : k \in 1..Len(Script)}

ASSUME LocationAssumption ==
  /\ Funcs \cap Hooks = {}
  /\ LazyHooks \subseteq Hooks
  /\ Body \notin Locs /\ Null \notin Locs /\ Null # Body
  /\ Null \notin Tramps
  /\ FollowLimit \in Nat \ {0}

ASSUME ScriptAssumption ==
  /\ Script \in Seq([hooks : Seq(Hooks), required : BOOLEAN])
  /\ BatchHooks \cap LazyHooks = {}
  /\ ShutdownOrder \in Seq(Hooks)

\* manager::create is given each hook once.
ASSUME BatchAssumption ==
  \A j, k \in 1..Len(Script) : j # k => HooksOf(j) \cap HooksOf(k) = {}

\* A detour starts unpatched.  A thunk stays in its group, a hook is in the
\* group of the function it patches, and a lazy hook has a group of its own:
\* the window procedure and OMSetRenderTargets are patched by nothing else.
ASSUME GroupAssumption ==
  /\ Request \in [Hooks -> Funcs \cup {Null}]
  /\ Thunk \in [Locs -> Funcs \cup {Body}]
  /\ \A h \in Hooks : Thunk[h] = Body
  /\ \A l \in Locs : Thunk[l] # Body => Group[Thunk[l]] = Group[l]
  /\ \A h \in Hooks : Request[h] # Null => Group[h] = Group[Request[h]]
  /\ \A h \in LazyHooks, g \in Hooks : h # g => Group[h] # Group[g]

\* The host's own jumps lead to a body, and there are finitely many of all.
ASSUME ThunkAssumption ==
  /\ IsFiniteSet(Funcs) /\ IsFiniteSet(Hooks)
  /\ \A S \in SUBSET Locs : S # {} => \E l \in S : Thunk[l] \notin S

VARIABLES
  code,       \* first bytes of each location
  target,     \* jmp::m_target
  tramp,      \* jmp::m_trampoline
  saved,      \* jmp::m_original_bytes
  enabled,    \* jmp::m_enabled
  live,       \* trampolines allocated and not freed
  prologues,  \* hooks recorded by security::prologues::add
  stage,      \* where the module is in its life
  at,         \* index of the batch being or about to be created
  phase,      \* where the installing thread is
  client,     \* whose hook is being created: a batch (Null) or a lazy hook
  cursor,     \* index in the batch
  resolved,   \* location jmp::create has followed the jumps to
  depth,      \* jumps followed so far
  todo,       \* hooks still to be reset
  lost        \* patches left behind when a restore was refused (history)

jmpVars == <<target, tramp, saved, enabled>>
seqVars == <<at, client, cursor, resolved, depth, todo>>
vars == <<code, jmpVars, live, prologues, stage, phase, seqVars, lost>>

Valid(h) == target[h] # Null /\ tramp[h] # Null

Init ==
  /\ code = Thunk
  /\ target = [h \in Hooks |-> Null]
  /\ tramp = [h \in Hooks |-> Null]
  /\ saved = [h \in Hooks |-> Null]
  /\ enabled = [h \in Hooks |-> FALSE]
  /\ live = {}
  /\ prologues = {}
  /\ stage = "install" /\ phase = "idle"
  /\ at = 1 /\ client = Null /\ cursor = 1
  /\ resolved = Null /\ depth = 0
  /\ todo = <<>>
  /\ lost = {}

Batch == Script[at].hooks

Current == IF client = Null THEN Batch[cursor] ELSE client

----------------------------------------------------------------------------
(* Ends of a create: manager::create returns to initialize(), which goes on  *)
(* after a failed feature hook and gives up after a failed required batch;   *)
(* a lazy hook simply returns to present().                                  *)

BatchReturns(ok) ==
  /\ phase' = "idle"
  /\ at' = at + 1
  /\ cursor' = 1
  /\ stage' = IF ok \/ ~Script[at].required THEN stage ELSE "failed"

\* Wrong variant: a failed batch returns without its rollback.
CreateFailsNoRollback ==
  /\ resolved' = Null /\ depth' = 0
  /\ IF client = Null
     THEN phase' = "reset" /\ todo' = <<>> /\ UNCHANGED client
     ELSE phase' = "idle" /\ client' = Null /\ UNCHANGED todo
  /\ UNCHANGED <<code, jmpVars, live, prologues, stage, at, cursor, lost>>

CreateFails ==
  /\ resolved' = Null /\ depth' = 0
  /\ IF client = Null
     THEN phase' = "reset" /\ todo' = Batch /\ UNCHANGED client
     ELSE phase' = "idle" /\ client' = Null /\ UNCHANGED todo
  /\ UNCHANGED <<code, jmpVars, live, prologues, stage, at, cursor, lost>>

\* The first loop of manager::create: a missing address refuses the batch
\* before anything is touched, so there is nothing to roll back.
BeginBatch ==
  /\ stage = "install" /\ phase = "idle" /\ at <= Len(Script)
  /\ IF \E i \in 1..Len(Batch) : Request[Batch[i]] = Null
     THEN BatchReturns(FALSE)
     ELSE phase' = "create" /\ UNCHANGED <<stage, at, cursor>>
  /\ UNCHANGED <<code, jmpVars, live, prologues, client, resolved, depth, todo, lost>>

\* present() tries a lazy hook on every frame until it is enabled.
BeginLazy(h) ==
  /\ stage = "running" /\ phase = "idle"
  /\ ~enabled[h] /\ Request[h] # Null
  /\ phase' = "create" /\ client' = h
  /\ UNCHANGED <<code, jmpVars, live, prologues, stage, at, cursor, resolved, depth, todo, lost>>

BatchDone ==
  /\ phase = "create" /\ client = Null /\ cursor > Len(Batch)
  /\ BatchReturns(TRUE)
  /\ UNCHANGED <<code, jmpVars, live, prologues, client, resolved, depth, todo, lost>>

Creating == phase = "create" /\ (client = Null => cursor <= Len(Batch))

----------------------------------------------------------------------------
(* jmp::create                                                               *)

\* Wrong variant: no early return for a hook that is already valid.
CreateBeginAgain ==
  /\ Creating
  /\ phase' = "follow" /\ resolved' = Request[Current] /\ depth' = 0
  /\ UNCHANGED <<code, jmpVars, live, prologues, stage, at, client, cursor, todo, lost>>

CreateBegin ==
  /\ Creating
  /\ IF Valid(Current)
     THEN phase' = "enable" /\ UNCHANGED <<resolved, depth>>
     ELSE phase' = "follow" /\ resolved' = Request[Current] /\ depth' = 0
  /\ UNCHANGED <<code, jmpVars, live, prologues, stage, at, client, cursor, todo, lost>>

\* Wrong variant: the loop has no bound.
FollowJumpUnbounded ==
  /\ phase = "follow" /\ code[resolved] # Body
  /\ resolved' = code[resolved]
  /\ depth' = depth + 1
  /\ UNCHANGED <<code, jmpVars, live, prologues, stage, phase, at, client, cursor, todo, lost>>

\* One round of the loop that follows thunks and earlier patches; the last
\* round may not jump any more.
FollowJump ==
  /\ phase = "follow" /\ code[resolved] # Body
  /\ depth < FollowLimit - 1
  /\ resolved' = code[resolved]
  /\ depth' = depth + 1
  /\ UNCHANGED <<code, jmpVars, live, prologues, stage, phase, at, client, cursor, todo, lost>>

FollowGivesUp ==
  /\ phase = "follow" /\ code[resolved] # Body
  /\ depth = FollowLimit - 1
  /\ CreateFails

\* The region is not committed or not executable, no trampoline can be
\* allocated, the prologue cannot be relocated, or reading it faults; a
\* trampoline that was allocated is freed again.
CreateRefused == phase = "follow" /\ CreateFails

\* Wrong variant: the requested address is patched without following its jumps.
CreateCommitsUnresolved(t) ==
  /\ phase = "follow"
  /\ t \in Tramps \ live
  /\ live' = live \cup {t}
  /\ target' = [target EXCEPT ![Current] = resolved]
  /\ tramp' = [tramp EXCEPT ![Current] = t]
  /\ saved' = [saved EXCEPT ![Current] = code[resolved]]
  /\ enabled' = [enabled EXCEPT ![Current] = FALSE]
  /\ phase' = "enable"
  /\ resolved' = Null /\ depth' = 0
  /\ UNCHANGED <<code, prologues, stage, at, client, cursor, todo, lost>>

CreateCommits(t) ==
  /\ phase = "follow" /\ code[resolved] = Body
  /\ t \in Tramps \ live
  /\ live' = live \cup {t}
  /\ target' = [target EXCEPT ![Current] = resolved]
  /\ tramp' = [tramp EXCEPT ![Current] = t]
  /\ saved' = [saved EXCEPT ![Current] = code[resolved]]
  /\ enabled' = [enabled EXCEPT ![Current] = FALSE]
  /\ phase' = "enable"
  /\ resolved' = Null /\ depth' = 0
  /\ UNCHANGED <<code, prologues, stage, at, client, cursor, todo, lost>>

----------------------------------------------------------------------------
(* jmp::enable, and what its caller does next                                *)

EnableSucceeds ==
  /\ phase = "enable"
  /\ code' = IF enabled[Current] THEN code ELSE [code EXCEPT ![target[Current]] = Current]
  /\ enabled' = [enabled EXCEPT ![Current] = TRUE]
  /\ IF client = Null
     THEN /\ prologues' = prologues \cup {Current}
          /\ phase' = "create" /\ cursor' = cursor + 1
          /\ UNCHANGED client
     ELSE /\ phase' = "idle" /\ client' = Null
          /\ UNCHANGED <<prologues, cursor>>
  /\ UNCHANGED <<target, tramp, saved, live, stage, at, resolved, depth, todo, lost>>

\* NtProtectVirtualMemory refuses.  A lazy hook stays created, not enabled.
EnableRefused == phase = "enable" /\ ~enabled[Current] /\ CreateFails

----------------------------------------------------------------------------
(* jmp::reset, for a rollback or for the shutdown: first disable(), whose    *)
(* result is ignored, then the trampoline is freed and the object cleared.   *)

\* Wrong variant: the walk stops at the first hook that was never created.
ResetStopsAtInvalid ==
  /\ phase = "reset" /\ todo # <<>> /\ ~Valid(Head(todo))
  /\ todo' = <<>>
  /\ UNCHANGED <<code, jmpVars, live, prologues, stage, phase, at, client, cursor, resolved, depth, lost>>

ResetSkips ==
  /\ phase = "reset" /\ todo # <<>> /\ ~Valid(Head(todo))
  /\ todo' = Tail(todo)
  /\ UNCHANGED <<code, jmpVars, live, prologues, stage, phase, at, client, cursor, resolved, depth, lost>>

ResetDisables ==
  /\ phase = "reset" /\ todo # <<>> /\ Valid(Head(todo))
  /\ phase' = "free"
  /\ LET h == Head(todo) IN
     IF enabled[h]
     THEN /\ code' = [code EXCEPT ![target[h]] = saved[h]]
          /\ enabled' = [enabled EXCEPT ![h] = FALSE]
     ELSE UNCHANGED <<code, enabled>>
  /\ UNCHANGED <<target, tramp, saved, live, prologues, stage, seqVars, lost>>

ResetDisableRefused ==
  /\ phase = "reset" /\ todo # <<>> /\ Valid(Head(todo)) /\ enabled[Head(todo)]
  /\ phase' = "free"
  /\ lost' = lost \cup {<<target[Head(todo)], Head(todo)>>}
  /\ UNCHANGED <<code, jmpVars, live, prologues, stage, seqVars>>

ResetFrees ==
  /\ phase = "free"
  /\ LET h == Head(todo) IN
     /\ live' = live \ {tramp[h]}
     /\ target' = [target EXCEPT ![h] = Null]
     /\ tramp' = [tramp EXCEPT ![h] = Null]
     /\ saved' = [saved EXCEPT ![h] = Null]
     /\ enabled' = [enabled EXCEPT ![h] = FALSE]
  /\ todo' = Tail(todo)
  /\ phase' = "reset"
  /\ UNCHANGED <<code, prologues, stage, at, client, cursor, resolved, depth, lost>>

RollbackDone ==
  /\ phase = "reset" /\ todo = <<>> /\ stage = "install"
  /\ BatchReturns(FALSE)
  /\ UNCHANGED <<code, jmpVars, live, prologues, client, resolved, depth, todo, lost>>

----------------------------------------------------------------------------
(* The life of the module: the rest of the initialization succeeds or fails, *)
(* a failed initialization unloads the module, and so does the host's exit.  *)

SetReady ==
  /\ stage = "install" /\ phase = "idle" /\ at > Len(Script)
  /\ stage' = "running"
  /\ UNCHANGED <<code, jmpVars, live, prologues, phase, seqVars, lost>>

InitializationFails ==
  /\ stage = "install" /\ phase = "idle" /\ at > Len(Script)
  /\ stage' = "failed"
  /\ UNCHANGED <<code, jmpVars, live, prologues, phase, seqVars, lost>>

Detach ==
  /\ stage \in {"running", "failed"} /\ phase = "idle"
  /\ stage' = "down"
  /\ phase' = "reset" /\ todo' = ShutdownOrder
  /\ UNCHANGED <<code, jmpVars, live, prologues, at, client, cursor, resolved, depth, lost>>

Unload ==
  /\ stage = "down" /\ phase = "reset" /\ todo = <<>>
  /\ stage' = "unloaded" /\ phase' = "idle"
  /\ UNCHANGED <<code, jmpVars, live, prologues, seqVars, lost>>

----------------------------------------------------------------------------

InstallStep ==
  \/ BeginBatch \/ BatchDone
  \/ CreateBegin \/ FollowJump \/ FollowGivesUp \/ CreateRefused
  \/ \E t \in Tramps : CreateCommits(t)
  \/ EnableSucceeds \/ EnableRefused
  \/ ResetSkips \/ ResetDisables \/ ResetDisableRefused \/ ResetFrees \/ RollbackDone
  \/ SetReady \/ InitializationFails
  \/ Unload

Next == InstallStep \/ (\E h \in LazyHooks : BeginLazy(h)) \/ Detach

Spec == Init /\ [][Next]_vars

----------------------------------------------------------------------------
(* Properties                                                                *)

\* The locations a call of l runs through, jump after jump.
Path(l) ==
  LET hop[i \in 0..Cardinality(Locs)] ==
        IF i = 0 THEN l
        ELSE LET m == hop[i-1] IN IF code[m] = Body THEN m ELSE code[m]
  IN  hop

TypeOK ==
  /\ code \in [Locs -> Locs \cup {Body}]
  /\ target \in [Hooks -> Locs \cup {Null}]
  /\ tramp \in [Hooks -> Tramps \cup {Null}]
  /\ saved \in [Hooks -> Locs \cup {Body, Null}]
  /\ enabled \in [Hooks -> BOOLEAN]
  /\ live \subseteq Tramps
  /\ prologues \subseteq Hooks
  /\ stage \in {"install", "running", "failed", "down", "unloaded"}
  /\ at \in 1..Len(Script) + 1
  /\ phase \in {"idle", "create", "follow", "enable", "reset", "free"}
  /\ client \in LazyHooks \cup {Null}
  /\ cursor \in Nat \ {0}
  /\ resolved \in Locs \cup {Null}
  /\ depth \in 0..FollowLimit - 1
  /\ todo \in Seq(Hooks)
  /\ lost \subseteq Locs \X Hooks

\* Whatever failed on the way, the first bytes of every location are either
\* the ones the module found there or a jump to a hook that owns them: it is
\* enabled, targets this location and has a live trampoline.  The one
\* exception is a patch that disable() was refused the right to take back.
\* Conversely a hook that reports itself enabled has its jump in place: no
\* hook created later on the same function overwrote it or restored over it.
PatchOwnership ==
  \A l \in Locs :
    \/ code[l] = Thunk[l]
    \/ \E h \in Hooks :
         /\ code[l] = h
         /\ \/ <<l, h>> \in lost
            \/ enabled[h] /\ target[h] = l /\ tramp[h] \in live

EnabledIsPatched ==
  \A h \in Hooks : enabled[h] => Valid(h) /\ code[target[h]] = h

PatchIntegrity == PatchOwnership /\ EnabledIsPatched

\* No path through create, enable, rollback and reset leaks a trampoline,
\* frees one that is in use or hands one to two hooks: the allocated ones are
\* exactly those of the valid hooks, one each.
TrampolinesAccounted ==
  /\ live = {tramp[h] : h \in {g \in Hooks : Valid(g)}}
  /\ \A g, h \in Hooks : Valid(g) /\ Valid(h) /\ tramp[g] = tramp[h] => g = h

\* A batch is all or nothing: when manager::create has returned, either all
\* of its hooks are enabled or none of them exists.
BatchesAreAtomic ==
  stage \in {"install", "running", "failed"} =>
    \A k \in 1..at - 1 :
      (\A h \in HooksOf(k) : enabled[h]) \/ (\A h \in HooksOf(k) : ~Valid(h))

\* A call of the function a hook asked for does reach its detour, also when
\* several hooks share the function or it is entered through a thunk, and
\* following the jumps from any location ends: stacked hooks never send a
\* caller round in a circle.
EnabledIsReached ==
  /\ stage \in {"install", "running", "failed"} /\ phase = "idle" =>
       \A h \in Hooks : enabled[h] => \E i \in 0..Cardinality(Locs) : Path(Request[h])[i] = h
  /\ \A l \in Locs : code[Path(l)[Cardinality(Locs)]] = Body

\* When the module is gone, a location still leads into it only through a
\* refused restore or a hook that is not in the list shutdown walks, although
\* the hooks are not removed in the reverse order of their installation.
UninstallRestores ==
  stage = "unloaded" =>
    \A l \in Locs :
      \/ code[l] = Thunk[l]
      \/ <<l, code[l]>> \in lost
      \/ \A i \in 1..Len(ShutdownOrder) : code[l] # ShutdownOrder[i]
============================================================================
