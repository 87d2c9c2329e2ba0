---------------------------- MODULE HookedCalls ----------------------------
(***************************************************************************)
(* Threads of the host that call hooked functions while the installing     *)
(* thread of Hooking creates, rolls back and removes the hooks: nothing    *)
(* stops the host, so every step of the one interleaves with every step of *)
(* the others.  A call follows the jumps, runs each detour it reaches, and *)
(* a detour calls the original through jmp::call, which reads the          *)
(* trampoline pointer first and jumps to the trampoline after.             *)
(*                                                                         *)
(* The write of a patch is one step here; that a thread may execute a half *)
(* written jump is outside this model.                                     *)
(***************************************************************************)
EXTENDS Hooking

CONSTANTS Callers

VARIABLES
  pos,      \* where each caller is
  loc,      \* the location it is executing or about to execute
  via,      \* the trampoline pointer it has read
  frames,   \* detours it must still return through, innermost first
  visited,  \* detours run by this call (history)
  due,      \* detours in place when the call began (history)
  ran,      \* how often the call executed a function of the host
  skipped,  \* jmp::call found no trampoline and returned T{}
  torn      \* hooks a reset has touched since the call began (history)

callVars == <<pos, loc, via, frames, visited, due, ran, skipped, torn>>
allVars == <<vars, callVars>>

NewCall(c, f, p) ==
  /\ pos' = [pos EXCEPT ![c] = p]
  /\ loc' = [loc EXCEPT ![c] = f]
  /\ via' = [via EXCEPT ![c] = Null]
  /\ frames' = [frames EXCEPT ![c] = <<>>]
  /\ visited' = [visited EXCEPT ![c] = <<>>]
  /\ ran' = [ran EXCEPT ![c] = 0]
  /\ skipped' = [skipped EXCEPT ![c] = FALSE]
  /\ torn' = [torn EXCEPT ![c] = {}]

CallInit ==
  /\ Init
  /\ pos = [c \in Callers |-> "out"]
  /\ loc = [c \in Callers |-> Null]
  /\ via = [c \in Callers |-> Null]
  /\ frames = [c \in Callers |-> <<>>]
  /\ visited = [c \in Callers |-> <<>>]
  /\ due = [c \in Callers |-> {}]
  /\ ran = [c \in Callers |-> 0]
  /\ skipped = [c \in Callers |-> FALSE]
  /\ torn = [c \in Callers |-> {}]

Move(c, p) == pos' = [pos EXCEPT ![c] = p]

\* Code and data of the module are gone once it is unloaded.
Mapped == stage # "unloaded"

Enter(c, f) ==
  /\ pos[c] = "out"
  /\ NewCall(c, f, "at")
  /\ due' = [due EXCEPT ![c] =
               {h \in Hooks : \E n \in 0..Cardinality(Locs) : Path(f)[n] = h}]
  /\ UNCHANGED vars

Jump(c) ==
  /\ pos[c] = "at" /\ code[loc[c]] # Body
  /\ loc' = [loc EXCEPT ![c] = code[loc[c]]]
  /\ UNCHANGED <<vars, pos, via, frames, visited, due, ran, skipped, torn>>

\* The body of a location: a host function runs and returns; a detour runs
\* up to its jmp::call.
Body_(c) ==
  /\ pos[c] = "body" \/ (pos[c] = "at" /\ code[loc[c]] = Body)
  /\ IF loc[c] \in Funcs
     THEN Move(c, "return") /\ ran' = [ran EXCEPT ![c] = @ + 1] /\ UNCHANGED visited
     ELSE /\ Move(c, IF Mapped THEN "detour" ELSE "fault")
          /\ visited' = [visited EXCEPT ![c] = Append(@, loc[c])]
          /\ UNCHANGED ran
  /\ UNCHANGED <<vars, loc, via, frames, due, skipped, torn>>

\* Wrong variant: the pointer is not tested.
ReadTrampolineUnchecked(c) ==
  /\ pos[c] = "detour"
  /\ Move(c, "trampoline") /\ via' = [via EXCEPT ![c] = tramp[loc[c]]]
  /\ UNCHANGED <<vars, loc, frames, visited, due, ran, skipped, torn>>

ReadTrampoline(c) ==
  /\ pos[c] = "detour"
  /\ CASE ~Mapped -> Move(c, "fault") /\ UNCHANGED <<via, skipped>>
       [] Mapped /\ tramp[loc[c]] = Null ->
            Move(c, "return") /\ skipped' = [skipped EXCEPT ![c] = TRUE] /\ UNCHANGED via
       [] OTHER ->
            Move(c, "trampoline") /\ via' = [via EXCEPT ![c] = tramp[loc[c]]] /\ UNCHANGED skipped
  /\ UNCHANGED <<vars, loc, frames, visited, due, ran, torn>>

\* The trampoline runs the displaced prologue and jumps behind the patch of
\* the location it was built from, whichever hook it now belongs to.
RunTrampoline(c) ==
  /\ pos[c] = "trampoline"
  /\ IF via[c] \in live
     THEN /\ Move(c, "body")
          /\ frames' = [frames EXCEPT ![c] = <<loc[c]>> \o @]
          /\ \E h \in Hooks : tramp[h] = via[c] /\ loc' = [loc EXCEPT ![c] = target[h]]
     ELSE Move(c, "fault") /\ UNCHANGED <<loc, frames>>
  /\ UNCHANGED <<vars, via, visited, due, ran, skipped, torn>>

Return(c) ==
  /\ pos[c] = "return"
  /\ IF frames[c] = <<>>
     THEN NewCall(c, Null, "out") /\ due' = [due EXCEPT ![c] = {}]
     ELSE /\ Move(c, IF Mapped THEN "return" ELSE "fault")
          /\ frames' = [frames EXCEPT ![c] = Tail(@)]
          /\ UNCHANGED <<loc, via, visited, due, ran, skipped, torn>>
  /\ UNCHANGED vars

CallerStep(c) ==
  \/ \E f \in Funcs : Enter(c, f)
  \/ Jump(c) \/ Body_(c) \/ ReadTrampoline(c) \/ RunTrampoline(c) \/ Return(c)

Resetting == phase = "free" \/ (phase = "reset" /\ phase' = "free")

HookStep ==
  /\ Next
  /\ torn' = [c \in Callers |->
                IF pos[c] # "out" /\ Resetting THEN torn[c] \cup {Head(todo)} ELSE torn[c]]
  /\ UNCHANGED <<pos, loc, via, frames, visited, due, ran, skipped>>

CallNext == HookStep \/ \E c \in Callers : CallerStep(c)

CallSpec == CallInit /\ [][CallNext]_allVars

----------------------------------------------------------------------------

\* A call that no reset overlaps behaves as if the hooks were installed in
\* one step each: it runs every detour that was in place when it began, none
\* twice, and the host's function exactly once, however many hooks are being
\* stacked on the function meanwhile.
CallsAreExact ==
  \A c \in Callers :
    pos[c] = "return" /\ torn[c] = {} /\ lost = {} =>
      /\ ran[c] = 1 /\ ~skipped[c]
      /\ \A h \in due[c] : \E i \in 1..Len(visited[c]) : visited[c][i] = h
      /\ \A i, j \in 1..Len(visited[c]) : visited[c][i] = visited[c][j] => i = j

\* The detours a call has run, and what became of hooks meanwhile: those reset
\* since it began, those whose jump a refused restore left in the code, and
\* those that shutdown never resets.
Seen(c) == {visited[c][i] : i \in 1..Len(visited[c])}
Undone(c) == torn[c] \cup {h \in Hooks : \E l \in Locs : <<l, h>> \in lost}
Unlisted == {h \in Hooks : \A i \in 1..Len(ShutdownOrder) : ShutdownOrder[i] # h}

\* Whoever is harmed has run the detour of a hook that was taken from under it.
\* A call loses the original function silently only if it ran a detour whose
\* hook was reset since it began or was left in the code by a refused restore.
\* While the module is there a call faults only in a detour whose own hook was
\* reset under it, between the reading of the trampoline and the jump to it;
\* when the module is gone, only if it ran such a detour or one whose hook is
\* missing from the list of shutdown.  Resets of other hooks harm nobody, so a
\* batch that is rolled back is harmless to all who ran none of its detours.
HarmOnlyFromTeardown ==
  \A c \in Callers :
    /\ skipped[c] => Seen(c) \cap Undone(c) # {}
    /\ pos[c] = "fault" =>
         IF Mapped THEN loc[c] \in torn[c] ELSE Seen(c) \cap (Undone(c) \cup Unlisted) # {}
============================================================================
