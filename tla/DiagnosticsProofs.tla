------------------------- MODULE DiagnosticsProofs -------------------------
(***************************************************************************)
(* The two parts of the diagnostics that run on whatever thread meets      *)
(* them.  First the crash capture: its safety properties, for any threads  *)
(* and any filters of the host, chaining in any way.  Then the log, for    *)
(* any number of threads, attempts and lines: who uses the file has the    *)
(* lock, and a write to a file that was closed is one that overlapped the  *)
(* close; and every line is accounted for, which is a sum over two finite  *)
(* sets.                                                                   *)
(***************************************************************************)
EXTENDS CrashFilters, DiagLog, FiniteSetTheorems, TLAPS

----------------------------------------------------------------------------
(* The crash capture                                                         *)

Pcs == {"runs", "vectored", "swapped", "search", "call", "claim", "spawn", "wait", "pass",
        "over", "recorded"}
Thens == {"runs", "search", "over", "pass", "recorded"}
Stages == {"out", "watching", "armed", "up", "leaving", "forgotten", "restored", "down", "gone"}
Records == [pc : Pcs, inside : BOOLEAN, then : Thens, at : Filters, called : SUBSET Filters,
            owed : Theirs]

Recording == {"claim", "spawn", "wait"}

Types ==
  /\ filter \in Filters /\ previous \in Theirs /\ under \in [HostFilters -> Filters]
  /\ stage \in Stages /\ held \in Filters /\ chosen \in Theirs
  /\ thread \in [Threads -> Records]
  /\ \A t \in Threads : thread[t].pc \in Recording => thread[t].then # "runs"
  /\ claimed \in BOOLEAN /\ request \in Threads \cup {None}
  /\ worker \in {"none", "writing", "done"} /\ report \in Threads \cup {None}
  /\ ended \in Threads \cup {None} /\ alone \in BOOLEAN /\ spent \in BOOLEAN

LEMMA RunningType == Running \in Records /\ Running.pc = "runs" /\ Running.called = {}
                     /\ Running.owed = None /\ Running.at = None
  BY DEF Running, Records, Pcs, Thens, Filters, Theirs

LEMMA InitTypes == Init => Types
  BY RunningType DEF Init, Types, Stages, Filters, Theirs, Recording

\* A thread's record after a step of its own.
LEMMA StepTypes ==
  ASSUME Types, NEW t \in Threads, NEW r \in Records, r.pc \in Recording => r.then # "runs",
         thread' = [thread EXCEPT ![t] = r]
  PROVE  /\ thread' \in [Threads -> Records]
         /\ \A u \in Threads : thread'[u].pc \in Recording => thread'[u].then # "runs"
  BY DEF Types

LEMMA NextTypes == Types /\ [Next]_vars => Types'
<1> SUFFICES ASSUME Types, [Next]_vars PROVE Types'
  OBVIOUS
<1> USE FilterAssumption DEF filters, loader, reporting, history
<1>1. CASE UNCHANGED vars
  BY <1>1 DEF vars, Types
<1>2. ASSUME NEW h \in HostFilters, SetHostFilter(h) PROVE Types'
  BY <1>2 DEF SetHostFilter, Types, Filters, Theirs
<1>3. ASSUME NEW t \in Threads, HostStep(t) PROVE Types'
  <2>1. CASE Fault(t)
    <3>1. PICK inside \in BOOLEAN, p \in {"vectored", "search"} :
            thread' = [thread EXCEPT ![t] = [Running EXCEPT !.pc = p, !.inside = inside]]
      BY <2>1 DEF Fault
    <3>2. [Running EXCEPT !.pc = p, !.inside = inside] \in Records
      BY RunningType DEF Records, Pcs
    <3>3. [Running EXCEPT !.pc = p, !.inside = inside].pc = p
      BY RunningType DEF Records
    <3>4. thread' \in [Threads -> Records]
          /\ \A u \in Threads : thread'[u].pc \in Recording => thread'[u].then # "runs"
      BY <3>1, <3>2, <3>3, StepTypes DEF Recording
    <3> QED BY <2>1, <3>4 DEF Fault, Types
  <2>2. CASE Survive(t)
    <3>1. thread' \in [Threads -> Records]
          /\ \A u \in Threads : thread'[u].pc \in Recording => thread'[u].then # "runs"
      BY <2>2, RunningType, StepTypes DEF Survive, Recording
    <3> QED BY <2>2, <3>1 DEF Survive, Types
  <2>3. CASE CatchToDump(t)
    <3>1. thread' = [thread EXCEPT ![t] = [thread[t] EXCEPT !.pc = "claim", !.then = "over"]] /\ thread[t] \in Records
      BY <2>3 DEF CatchToDump, Types
    <3>2. [thread[t] EXCEPT !.pc = "claim", !.then = "over"] \in Records
      BY <3>1 DEF Types, Records, Pcs, Thens, Filters, Theirs
    <3>3. [thread[t] EXCEPT !.pc = "claim", !.then = "over"].pc \notin Recording
          \/ [thread[t] EXCEPT !.pc = "claim", !.then = "over"].then # "runs"
      BY <3>1 DEF Records, Recording
    <3>4. thread' \in [Threads -> Records]
          /\ \A u \in Threads : thread'[u].pc \in Recording => thread'[u].then # "runs"
      BY <3>1, <3>2, <3>3, StepTypes
    <3> QED BY <2>3, <3>4 DEF CatchToDump, Types
  <2>4. CASE LastChance(t)
    <3>1. thread' = [thread EXCEPT ![t] = [thread[t] EXCEPT !.pc = "call", !.at = filter, !.owed = chosen]] /\ thread[t] \in Records
      BY <2>4 DEF LastChance, Types
    <3>2. [thread[t] EXCEPT !.pc = "call", !.at = filter, !.owed = chosen] \in Records
      BY <3>1 DEF Types, Records, Pcs, Thens, Filters, Theirs
    <3>3. [thread[t] EXCEPT !.pc = "call", !.at = filter, !.owed = chosen].pc \notin Recording
          \/ [thread[t] EXCEPT !.pc = "call", !.at = filter, !.owed = chosen].then # "runs"
      BY <3>1 DEF Records, Recording
    <3>4. thread' \in [Threads -> Records]
          /\ \A u \in Threads : thread'[u].pc \in Recording => thread'[u].then # "runs"
      BY <3>1, <3>2, <3>3, StepTypes
    <3> QED BY <2>4, <3>4 DEF LastChance, Types
  <2>5. CASE CallHostFilter(t)
    <3>1. PICK p \in {"call", "over"}, a \in Filters, c \in SUBSET Filters :
            thread' = [thread EXCEPT ![t] = [thread[t] EXCEPT !.called = c, !.pc = p, !.at = a]]
      <4>1. /\ thread[t].called \cup {thread[t].at} \in SUBSET Filters
            /\ under[thread[t].at] \in Filters /\ None \in Filters
        BY <2>5 DEF CallHostFilter, Types, Records, Filters, Theirs
      <4>2. CASE thread[t].at \in Chaining /\ thread[t].at \notin thread[t].called
        BY <2>5, <4>1, <4>2, ZenonT(60) DEF CallHostFilter, Types, Records
      <4>3. CASE ~(thread[t].at \in Chaining /\ thread[t].at \notin thread[t].called)
        BY <2>5, <4>1, <4>3, ZenonT(60) DEF CallHostFilter, Types, Records
      <4> QED BY <4>2, <4>3
    <3>2. [thread[t] EXCEPT !.called = c, !.pc = p, !.at = a] \in Records
          /\ [thread[t] EXCEPT !.called = c, !.pc = p, !.at = a].pc \notin Recording
      BY DEF Types, Records, Pcs, Recording
    <3>3. thread' \in [Threads -> Records]
          /\ \A u \in Threads : thread'[u].pc \in Recording => thread'[u].then # "runs"
      BY <3>1, <3>2, StepTypes
    <3> QED BY <2>5, <3>3 DEF CallHostFilter, Types
  <2>6. CASE End(t)
    BY <2>6 DEF End, Types
  <2> QED BY <1>3, <2>1, <2>2, <2>3, <2>4, <2>5, <2>6 DEF HostStep
<1>4. ASSUME NEW t \in Threads, HandlerStep(t) PROVE Types'
  <2>1. CASE Rearm(t)
    <3>1. thread' = [thread EXCEPT ![t] = [thread[t] EXCEPT !.pc = "swapped", !.at = filter]] /\ thread[t] \in Records
      BY <2>1 DEF Rearm, Types
    <3>2. [thread[t] EXCEPT !.pc = "swapped", !.at = filter] \in Records
      BY <3>1 DEF Types, Records, Pcs, Thens, Filters, Theirs
    <3>3. [thread[t] EXCEPT !.pc = "swapped", !.at = filter].pc \notin Recording
          \/ [thread[t] EXCEPT !.pc = "swapped", !.at = filter].then # "runs"
      BY <3>1 DEF Records, Recording
    <3>4. thread' \in [Threads -> Records]
          /\ \A u \in Threads : thread'[u].pc \in Recording => thread'[u].then # "runs"
      BY <3>1, <3>2, <3>3, StepTypes
    <3> QED BY <2>1, <3>4 DEF Rearm, Types, Filters
  <2>2. CASE Remember(t)
    <3>1. PICK r \in Records : /\ thread' = [thread EXCEPT ![t] = r]
                               /\ r.pc \in Recording => r.then # "runs"
      <4>1. [Running EXCEPT !.pc = "claim", !.then = "search"] \in Records
            /\ [Running EXCEPT !.pc = "claim", !.then = "search"].then = "search"
        BY RunningType DEF Records, Pcs, Thens
      <4>2. [Running EXCEPT !.pc = "search"] \in Records
            /\ [Running EXCEPT !.pc = "search"].pc = "search"
        BY RunningType DEF Records, Pcs, Thens
      <4> QED BY <2>2, <4>1, <4>2 DEF Remember, Recording
    <3>2. previous' \in Theirs
      BY <2>2 DEF Remember, Stored, Types, Records, Filters
    <3>3. thread' \in [Threads -> Records]
          /\ \A u \in Threads : thread'[u].pc \in Recording => thread'[u].then # "runs"
      BY <3>1, StepTypes
    <3> QED BY <2>2, <3>2, <3>3 DEF Remember, Types
  <2>3. CASE CallOurs(t)
    BY <2>3 DEF CallOurs, Types, Records, Pcs, Thens, Recording, Filters, Theirs
  <2>4. CASE PassOn(t)
    <3>1. PICK p \in {"call", "over"} : thread' = [thread EXCEPT ![t].at = previous, ![t].pc = p]
      BY <2>4 DEF PassOn
    <3> QED BY <2>4, <3>1 DEF PassOn, Types, Records, Pcs, Recording, Filters
  <2>5. CASE Snapshot(t)
    <3>1. /\ [Running EXCEPT !.pc = "claim", !.then = "recorded"] \in Records
          /\ [Running EXCEPT !.pc = "claim", !.then = "recorded"].then = "recorded"
      BY RunningType DEF Records, Pcs, Thens
    <3>2. thread' \in [Threads -> Records]
          /\ \A u \in Threads : thread'[u].pc \in Recording => thread'[u].then # "runs"
      BY <2>5, <3>1, StepTypes DEF Snapshot
    <3> QED BY <2>5, <3>2 DEF Snapshot, Types
  <2>6. CASE Claim(t)
    <3>1. CASE claimed
      BY <2>6, <3>1 DEF Claim, Recorded, Types, Records, Pcs, Thens, Recording
    <3>2. CASE ~claimed
      BY <2>6, <3>2 DEF Claim, Goto, Types, Records, Pcs, Thens, Recording
    <3> QED BY <3>1, <3>2
  <2>7. CASE Spawn(t)
    <3>1. CASE worker' = "writing" /\ Goto(t, "wait") /\ UNCHANGED report
      BY <2>7, <3>1 DEF Spawn, Goto, Types, Records, Pcs, Thens, Recording
    <3>2. CASE report' = request /\ Recorded(t) /\ UNCHANGED worker
      BY <2>7, <3>2 DEF Spawn, Recorded, Types, Records, Pcs, Thens, Recording
    <3> QED BY <2>7, <3>1, <3>2 DEF Spawn
  <2>8. CASE Wait(t)
    BY <2>8 DEF Wait, Recorded, Types, Records, Pcs, Thens, Recording
  <2> QED BY <1>4, <2>1, <2>2, <2>3, <2>4, <2>5, <2>6, <2>7, <2>8 DEF HandlerStep
<1>5. CASE LoaderStep
  BY <1>5, ZenonT(60)
  DEF LoaderStep, AddVectored, Arm, RememberFirst, RemoveVectored, Forget, Restore, PutBack,
      Unmap, Step, Stored, Types, Stages, Filters, Theirs
<1>6. CASE Write
  BY <1>6 DEF Write, Types
<1> QED BY <1>1, <1>2, <1>3, <1>4, <1>5, <1>6 DEF Next

\* What a step of the host makes of the thread that takes it.
LEMMA HostMoves ==
  ASSUME Types, NEW t \in Threads, HostStep(t)
  PROVE  /\ \A u \in Threads : u # t => thread'[u] = thread[u]
         /\ thread' = thread \/ thread'[t].pc \notin {"spawn", "wait", "swapped", "pass", "recorded"}
         /\ UNCHANGED <<filters, loader, reporting, chosen>>
<1> USE RunningType DEF Types, Records, filters, loader, reporting, history
<1>1. CASE Fault(t)
  BY <1>1 DEF Fault
<1>2. CASE Survive(t)
  BY <1>2 DEF Survive
<1>3. CASE CatchToDump(t)
  BY <1>3 DEF CatchToDump
<1>4. CASE LastChance(t)
  BY <1>4 DEF LastChance
<1>5. CASE CallHostFilter(t)
  <2>1. PICK p \in {"call", "over"}, a \in Filters, c \in SUBSET Filters :
          thread' = [thread EXCEPT ![t] = [thread[t] EXCEPT !.called = c, !.pc = p, !.at = a]]
    <3>1. /\ thread[t].called \cup {thread[t].at} \in SUBSET Filters
          /\ under[thread[t].at] \in Filters /\ None \in Filters
      BY <1>5 DEF CallHostFilter, Filters, Theirs
    <3>2. CASE thread[t].at \in Chaining /\ thread[t].at \notin thread[t].called
      BY <1>5, <3>1, <3>2, ZenonT(60) DEF CallHostFilter
    <3>3. CASE ~(thread[t].at \in Chaining /\ thread[t].at \notin thread[t].called)
      BY <1>5, <3>1, <3>3 DEF CallHostFilter
    <3> QED BY <3>2, <3>3
  <2> QED BY <1>5, <2>1 DEF CallHostFilter
<1>6. CASE End(t)
  BY <1>6 DEF End
<1> QED BY <1>1, <1>2, <1>3, <1>4, <1>5, <1>6 DEF HostStep

\* A thread whose fault was seen, or that asks for a snapshot, starts with a new record.
LEMMA FreshMoves ==
  ASSUME Types, NEW t \in Threads, Remember(t) \/ Snapshot(t)
  PROVE  /\ \A u \in Threads : u # t => thread'[u] = thread[u]
         /\ thread'[t].pc \in {"claim", "search"}
         /\ thread'[t].owed = None /\ thread'[t].called = {}
         /\ thread'[t].pc = "claim" => thread'[t].then \in {"search", "recorded"}
         /\ Snapshot(t) => thread'[t].pc = "claim"
<1> USE DEF Types
<1>1. CASE Snapshot(t)
  <2>1. [Running EXCEPT !.pc = "claim", !.then = "recorded"].pc = "claim"
        /\ [Running EXCEPT !.pc = "claim", !.then = "recorded"].then = "recorded"
        /\ [Running EXCEPT !.pc = "claim", !.then = "recorded"].owed = None
        /\ [Running EXCEPT !.pc = "claim", !.then = "recorded"].called = {}
    BY DEF Running
  <2> QED BY <1>1, <2>1 DEF Snapshot
<1>2. CASE Remember(t)
  <2>1. [Running EXCEPT !.pc = "claim", !.then = "search"].pc = "claim"
        /\ [Running EXCEPT !.pc = "claim", !.then = "search"].then = "search"
        /\ [Running EXCEPT !.pc = "claim", !.then = "search"].owed = None
        /\ [Running EXCEPT !.pc = "claim", !.then = "search"].called = {}
    BY DEF Running
  <2>2. [Running EXCEPT !.pc = "search"].pc = "search"
        /\ [Running EXCEPT !.pc = "search"].owed = None
        /\ [Running EXCEPT !.pc = "search"].called = {}
    BY DEF Running
  <2>3. ~Snapshot(t)
    BY <1>2 DEF Remember, Snapshot
  <2> QED BY <1>2, <2>1, <2>2, <2>3 DEF Remember
<1> QED BY <1>1, <1>2

----------------------------------------------------------------------------
(* One report                                                                *)

Claims ==
  /\ ~claimed => request = None /\ report = None /\ worker = "none"
  /\ claimed => request \in Threads
  /\ \A t \in Threads : thread[t].pc \in {"spawn", "wait"} => claimed /\ request = t
  /\ report \in {None, request}
  /\ worker = "done" => report = request
  /\ \A t \in Threads : thread[t].pc = "wait" => worker # "none"

LEMMA InitClaims == Init => Claims
  BY RunningType DEF Init, Claims

LEMMA NextClaims == Types /\ Claims /\ [Next]_vars => Claims'
<1> SUFFICES ASSUME Types, Claims, [Next]_vars PROVE Claims'
  OBVIOUS
<1> USE FilterAssumption DEF Types, Claims, Records, filters, loader, reporting, history
<1>1. CASE UNCHANGED <<thread, reporting>>
  BY <1>1
<1>2. ASSUME NEW t \in Threads, UNCHANGED reporting, thread'[t].pc \notin {"spawn", "wait"},
             \A u \in Threads : u # t => thread'[u] = thread[u]
      PROVE  Claims'
  <2>1. \A u \in Threads : thread'[u].pc \in {"spawn", "wait"} => thread'[u] = thread[u]
    BY <1>2
  <2> QED BY <1>2, <2>1
<1>3. ASSUME NEW t \in Threads, HostStep(t) PROVE Claims'
  BY <1>1, <1>2, <1>3, HostMoves
<1>4. ASSUME NEW t \in Threads, HandlerStep(t) PROVE Claims'
  <2>1. CASE Rearm(t) \/ CallOurs(t)
    BY <1>2, <2>1 DEF Rearm, CallOurs
  <2>2. CASE Remember(t) \/ Snapshot(t)
    <3>1. thread'[t].pc \in {"claim", "search"} /\ \A u \in Threads : u # t => thread'[u] = thread[u]
      BY <2>2, FreshMoves
    <3>2. UNCHANGED reporting
      BY <2>2 DEF Remember, Snapshot
    <3> QED BY <1>2, <3>1, <3>2
  <2>3. CASE PassOn(t)
    BY <1>2, <2>3 DEF PassOn
  <2>4. CASE Claim(t)
    <3>1. CASE claimed
      <4>1. thread'[t].pc \notin {"spawn", "wait"} /\ \A u \in Threads : u # t => thread'[u] = thread[u]
        BY <2>4, <3>1 DEF Claim, Recorded, Thens
      <4> QED BY <1>2, <2>4, <3>1, <4>1 DEF Claim
    <3>2. CASE ~claimed
      BY <2>4, <3>2 DEF Claim, Goto
    <3> QED BY <3>1, <3>2
  <2>5. CASE Spawn(t)
    <3>1. CASE worker' = "writing" /\ Goto(t, "wait") /\ UNCHANGED report
      BY <2>5, <3>1 DEF Spawn, Goto
    <3>2. CASE report' = request /\ Recorded(t) /\ UNCHANGED worker
      BY <2>5, <3>2 DEF Spawn, Recorded, Thens
    <3> QED BY <2>5, <3>1, <3>2 DEF Spawn
  <2>6. CASE Wait(t)
    <3>1. thread'[t].pc \notin {"spawn", "wait"} /\ \A u \in Threads : u # t => thread'[u] = thread[u]
      BY <2>6 DEF Wait, Recorded, Thens
    <3> QED BY <1>2, <2>6, <3>1 DEF Wait
  <2> QED BY <1>4, <2>1, <2>2, <2>3, <2>4, <2>5, <2>6 DEF HandlerStep
<1>5. CASE LoaderStep
  BY <1>1, <1>5
  DEF LoaderStep, AddVectored, Arm, RememberFirst, RemoveVectored, Forget, Restore, PutBack, Unmap
<1>6. CASE Write
  BY <1>6 DEF Write
<1>7. ASSUME NEW h \in HostFilters, SetHostFilter(h) PROVE Claims'
  BY <1>1, <1>7 DEF SetHostFilter
<1> QED BY <1>1, <1>3, <1>4, <1>5, <1>6, <1>7 DEF Next, vars

\* (OneCrashIsReported) The request is filled once, by the thread that waits for it.
THEOREM OneCrashAlwaysReported == Spec => []OneCrashIsReported
<1>1. Types /\ Claims /\ [Next]_vars => Types' /\ Claims'
  BY NextTypes, NextClaims
<1>2. Claims => OneCrashIsReported
  BY DEF Claims, OneCrashIsReported
<1> QED BY InitTypes, InitClaims, <1>1, <1>2, PTL DEF Spec
----------------------------------------------------------------------------
(* While no fault overlaps another one, an attach or a detach                *)

\* One thread at most does anything but run ...
Single == \A t, u \in Threads : thread[t].pc # "runs" /\ thread[u].pc # "runs" => t = u

\* ... and none does during an attach or a detach.
Quiet == stage \notin {"out", "up", "gone"} => Calm

Handlers == {"vectored", "swapped", "pass", "recorded"} \cup Recording
Handled == \A t \in Threads : thread[t].pc \in Handlers => stage = "up"

\* The filter in place is the one the host set last; or it is ours, and the host's is
\* remembered, or held by the thread that has displaced it and not yet stored it.
Remembered ==
  /\ (\A t \in Threads : thread[t].pc # "swapped") => previous = chosen
  /\ \A t \in Threads : thread[t].pc = "swapped" => Stored(previous, thread[t].at) = chosen

Placed ==
  /\ stage \in {"out", "watching", "armed"} => previous = None
  /\ stage \in {"out", "watching", "down", "gone"} => filter = chosen
  /\ stage \in {"armed", "forgotten"} => filter = chosen \/ (filter = Ours /\ held = chosen)
  /\ stage \in {"up", "leaving"} => filter = chosen \/ (filter = Ours /\ Remembered)
  /\ stage = "restored" => held = chosen \/ (held = Ours /\ filter = chosen)

\* The crash has reached the host's filter, or that one is next, or it is the one
\* ours will pass the crash on to.
Owes == \A t \in Threads :
  \/ Reached(t)
  \/ thread[t].pc = "call" /\ thread[t].at = thread[t].owed
  \/ /\ stage = "up" /\ previous = thread[t].owed
     /\ \/ thread[t].pc = "call" /\ thread[t].at = Ours
        \/ thread[t].pc = "pass"
        \/ thread[t].pc \in Recording /\ thread[t].then = "pass"

\* The report is that of the thread whose crash is under way.
Kept == ~spent =>
  /\ claimed => /\ thread[request].pc # "runs"
                /\ thread[request].pc \notin {"spawn", "wait"} => report = request
  /\ \A t \in Threads : Ours \in thread[t].called /\ thread[t].pc # "claim" => claimed /\ request = t

Lone == Single /\ Quiet /\ Handled /\ Placed /\ Owes /\ Kept

LEMMA InitLone == Init => Lone
<1> SUFFICES ASSUME Init PROVE Lone
  OBVIOUS
<1> USE RunningType, FilterAssumption DEF Init
<1>1. Single /\ Quiet /\ Handled
  BY DEF Single, Quiet, Handled, Handlers, Recording
<1>2. Placed
  BY DEF Placed
<1>3. Owes /\ Kept
  BY DEF Owes, Reached, Kept
<1> QED BY <1>1, <1>2, <1>3 DEF Lone

\* The thread that does something else goes on, or runs again.
LEMMA GoesOn ==
  ASSUME Types, Single, Quiet, NEW t \in Threads, thread[t].pc # "runs",
         \A u \in Threads : u # t => thread'[u] = thread[u], UNCHANGED stage
  PROVE  /\ Single' /\ Quiet' /\ stage \in {"out", "up", "gone"}
         /\ \A u \in Threads : u # t => thread[u].pc = "runs"
  BY DEF Types, Single, Quiet, Calm

\* A thread that was running starts with something while all others run.
LEMMA Begins ==
  ASSUME Types, Calm, NEW t \in Threads, stage \in {"out", "up", "gone"},
         \A u \in Threads : u # t => thread'[u] = thread[u], UNCHANGED stage
  PROVE  Single' /\ Quiet'
  BY DEF Types, Single, Quiet, Calm

\* The filters stay as they are, and the thread that moves neither was nor gets
\* between the swap and the store.
LEMMA StaysPlaced ==
  ASSUME Types, Placed, NEW t \in Threads,
         thread[t].pc # "swapped", thread'[t].pc # "swapped",
         \A u \in Threads : u # t => thread'[u] = thread[u],
         UNCHANGED <<filter, previous, stage, held, chosen>>
  PROVE  Placed'
<1>1. Remembered => Remembered'
  BY DEF Remembered, Types
<1> QED BY <1>1 DEF Placed

LEMMA LoneSetHostFilter ==
  ASSUME Types, Lone, NEW h \in HostFilters, SetHostFilter(h), alone'
  PROVE  Lone'
<1> USE DEF SetHostFilter, loader, reporting, Lone
<1>1. Single' /\ Quiet' /\ Handled'
  BY DEF Single, Quiet, Calm, Handled
<1>2. Placed'
  <2>1. stage # "restored"
    BY Zenon DEF SetHostFilter
  <2>2. filter' = chosen' /\ previous' = previous /\ stage' = stage
    OBVIOUS
  <2> QED BY <2>1, <2>2 DEF Placed
<1>3. Owes' /\ Kept'
  BY DEF Owes, Reached, Kept
<1> QED BY <1>1, <1>2, <1>3

LEMMA LoneHost ==
  ASSUME Types, Claims, Lone, NEW t \in Threads, HostStep(t), alone'
  PROVE  Lone'
<1> USE FilterAssumption, RunningType DEF Lone, filters, loader, reporting, history
<1>1. CASE Fault(t)
  <2>1. PICK inside \in BOOLEAN, p \in {"vectored", "search"} :
          /\ thread' = [thread EXCEPT ![t] = [Running EXCEPT !.pc = p, !.inside = inside]]
          /\ p = "vectored" => Watching
    BY <1>1 DEF Fault
  <2> DEFINE r == [Running EXCEPT !.pc = p, !.inside = inside]
  <2>2. r.pc = p /\ r.called = {} /\ r.owed = None
    BY DEF Running
  <2>3. thread'[t] = r /\ \A u \in Threads : u # t => thread'[u] = thread[u]
    BY <2>1 DEF Types
  <2> HIDE DEF r
  <2>4. Calm /\ stage \in {"out", "up", "gone"} /\ thread[t].pc = "runs"
    BY <1>1 DEF Fault
  <2>5. Single' /\ Quiet'
    BY <1>1, <2>3, <2>4, Begins DEF Fault
  <2>6. Handled'
    BY <1>1, <2>1, <2>2, <2>3, <2>4 DEF Fault, Handled, Watching, Handlers, Recording
  <2>7. Placed'
    BY <1>1, <2>2, <2>3, <2>4, StaysPlaced DEF Fault
  <2>8. Owes'
    BY <1>1, <2>2, <2>3 DEF Fault, Owes, Reached
  <2>9. Kept'
    BY <1>1, <2>2, <2>3, <2>4 DEF Fault, Kept, Types, Claims
  <2> QED BY <2>5, <2>6, <2>7, <2>8, <2>9
<1>2. CASE Survive(t)
  <2>1. /\ thread'[t] = Running /\ \A u \in Threads : u # t => thread'[u] = thread[u]
        /\ thread[t].pc \in {"search", "recorded"}
    BY <1>2 DEF Survive, Types
  <2>2. Single' /\ Quiet'
    BY <1>2, <2>1, GoesOn DEF Survive
  <2>3. Handled'
    BY <1>2, <2>1 DEF Survive, Handled, Handlers, Recording
  <2>4. Placed'
    BY <1>2, <2>1, StaysPlaced DEF Survive
  <2>5. Owes'
    BY <1>2, <2>1 DEF Survive, Owes, Reached
  <2>6. Kept'
    BY <1>2, <2>1 DEF Survive, Kept, Types, Claims
  <2> QED BY <2>2, <2>3, <2>4, <2>5, <2>6
<1>3. CASE CatchToDump(t)
  <2>1. /\ thread'[t].pc = "claim" /\ thread'[t].then = "over"
        /\ thread'[t].called = thread[t].called /\ thread'[t].owed = thread[t].owed
        /\ \A u \in Threads : u # t => thread'[u] = thread[u]
        /\ thread[t].pc = "search" /\ stage = "up"
    BY <1>3 DEF CatchToDump, Types, Records
  <2>2. Single' /\ Quiet'
    BY <1>3, <2>1, GoesOn DEF CatchToDump
  <2>3. Handled'
    BY <1>3, <2>1 DEF CatchToDump, Handled
  <2>4. Placed'
    BY <1>3, <2>1, StaysPlaced DEF CatchToDump
  <2>5. Owes'
    BY <1>3, <2>1, ZenonT(60) DEF CatchToDump, Owes, Reached, Recording
  <2>6. Kept'
    BY <1>3, <2>1 DEF CatchToDump, Kept, Types, Claims
  <2> QED BY <2>2, <2>3, <2>4, <2>5, <2>6
<1>4. CASE LastChance(t)
  <2>1. /\ thread'[t].pc = "call" /\ thread'[t].at = filter
        /\ thread'[t].called = thread[t].called /\ thread'[t].owed = chosen
        /\ \A u \in Threads : u # t => thread'[u] = thread[u]
        /\ thread[t].pc = "search"
    BY <1>4 DEF LastChance, Types, Records
  <2>2. Single' /\ Quiet' /\ stage \in {"out", "up", "gone"}
        /\ \A u \in Threads : u # t => thread[u].pc = "runs"
    BY <1>4, <2>1, GoesOn DEF LastChance
  <2>3. Handled'
    BY <1>4, <2>1 DEF LastChance, Handled, Handlers, Recording
  <2>4. Placed'
    BY <1>4, <2>1, StaysPlaced DEF LastChance
  <2>5. Owes'
    <3>1. \A u \in Threads : thread[u].pc # "swapped"
      BY <2>1, <2>2
    <3>2. Remembered => previous = chosen
      BY <3>1 DEF Remembered
    <3>3. filter = chosen \/ (stage = "up" /\ filter = Ours /\ previous = chosen)
      <4>1. CASE stage = "up"
        BY <3>2, <4>1 DEF Placed
      <4>2. CASE stage \in {"out", "gone"}
        BY <4>2 DEF Placed
      <4> QED BY <2>2, <4>1, <4>2
    <3> QED BY <1>4, <2>1, <3>3, ZenonT(60) DEF LastChance, Owes, Reached
  <2>6. Kept'
    BY <1>4, <2>1 DEF LastChance, Kept, Types, Claims
  <2> QED BY <2>2, <2>3, <2>4, <2>5, <2>6
<1>5. CASE CallHostFilter(t)
  <2>1. /\ thread[t].pc = "call" /\ thread[t].at \in HostFilters
        /\ \A u \in Threads : u # t => thread'[u] = thread[u]
        /\ thread'[t].called = thread[t].called \cup {thread[t].at}
        /\ thread'[t].owed = thread[t].owed
        /\ thread'[t].pc \in {"call", "over"}
    BY <1>5 DEF CallHostFilter, Types, Records
  <2>2. Single' /\ Quiet'
    BY <1>5, <2>1, GoesOn DEF CallHostFilter
  <2>3. Handled'
    BY <1>5, <2>1 DEF CallHostFilter, Handled, Handlers, Recording
  <2>4. Placed'
    BY <1>5, <2>1, StaysPlaced DEF CallHostFilter
  <2>5. Owes'
    <3>1. Reached(t)'
      BY <2>1 DEF Owes, Reached, Recording
    <3>2. \A u \in Threads : u # t => thread'[u] = thread[u] /\ UNCHANGED <<stage, previous>>
      BY <1>5, <2>1 DEF CallHostFilter
    <3> QED BY <3>1, <3>2 DEF Owes, Reached
  <2>6. Kept'
    BY <1>5, <2>1 DEF CallHostFilter, Kept, Types, Claims
  <2> QED BY <2>2, <2>3, <2>4, <2>5, <2>6
<1>6. CASE End(t)
  <2>1. UNCHANGED <<thread, filter, previous, stage, held, chosen, claimed, request, report, spent>>
    BY <1>6 DEF End
  <2>2. Single' /\ Quiet' /\ Handled'
    BY <2>1 DEF Single, Quiet, Calm, Handled
  <2>3. Placed'
    BY <2>1 DEF Placed, Remembered
  <2>4. Owes' /\ Kept'
    BY <2>1 DEF Owes, Reached, Kept
  <2> QED BY <2>2, <2>3, <2>4
<1> QED BY <1>1, <1>2, <1>3, <1>4, <1>5, <1>6 DEF HostStep
LEMMA LoneRearm ==
  ASSUME Types, Claims, Lone, NEW t \in Threads, Rearm(t), alone'
  PROVE  Lone'
<1> USE FilterAssumption DEF Lone, loader, reporting, history
<1>1. /\ thread'[t].pc = "swapped" /\ thread'[t].at = filter
      /\ thread'[t].called = thread[t].called /\ thread'[t].owed = thread[t].owed
      /\ \A u \in Threads : u # t => thread'[u] = thread[u]
      /\ thread[t].pc = "vectored"
  BY DEF Rearm, Types, Records
<1>2. Single' /\ Quiet' /\ \A u \in Threads : u # t => thread[u].pc = "runs"
  BY <1>1, GoesOn DEF Rearm
<1>3. stage = "up"
  BY <1>1 DEF Handled, Handlers
<1>4. Handled'
  BY <1>3 DEF Rearm, Handled
<1>5. Placed'
  <2>1. \A u \in Threads : thread[u].pc # "swapped"
    BY <1>1, <1>2
  <2>2. Stored(previous, filter) = chosen
    BY <1>3, <2>1 DEF Placed, Remembered, Stored, Types, Theirs
  <2>3. Remembered'
    BY <1>1, <1>2, <2>1, <2>2 DEF Rearm, Remembered, Stored
  <2> QED BY <1>3, <2>3 DEF Rearm, Placed
<1>6. Owes'
  <2>1. Reached(t)' /\ UNCHANGED <<stage, previous>>
    BY <1>1 DEF Rearm, Owes, Reached, Recording
  <2> QED BY <1>1, <2>1 DEF Owes, Reached
<1>7. Kept'
  BY <1>1 DEF Rearm, Kept, Types, Claims
<1> QED BY <1>2, <1>4, <1>5, <1>6, <1>7

LEMMA LoneRemember ==
  ASSUME Types, Claims, Lone, NEW t \in Threads, Remember(t), alone'
  PROVE  Lone'
<1> USE FilterAssumption DEF Lone, loader, reporting, history
<1>1. /\ \A u \in Threads : u # t => thread'[u] = thread[u]
      /\ thread'[t].pc \in {"claim", "search"}
      /\ thread'[t].owed = None /\ thread'[t].called = {}
      /\ thread[t].pc = "swapped"
  BY FreshMoves DEF Remember
<1>2. Single' /\ Quiet' /\ \A u \in Threads : u # t => thread[u].pc = "runs"
  BY <1>1, GoesOn DEF Remember
<1>3. stage = "up"
  BY <1>1 DEF Handled, Handlers
<1>4. Handled'
  BY <1>3 DEF Remember, Handled
<1>5. Placed'
  <2>1. \A u \in Threads : thread'[u].pc # "swapped"
    BY <1>1, <1>2
  <2>2. Remembered => previous' = chosen
    BY <1>1 DEF Remember, Remembered
  <2>3. Remembered => Remembered'
    BY <2>1, <2>2 DEF Remember, Remembered
  <2> QED BY <1>3, <2>3 DEF Remember, Placed
<1>6. Owes'
  <2>1. \A u \in Threads : Reached(u)'
    BY <1>1, <1>2 DEF Reached, Remember, Owes, Recording
  <2> QED BY <2>1 DEF Owes
<1>7. Kept'
  BY <1>1 DEF Remember, Kept, Types, Claims
<1> QED BY <1>2, <1>4, <1>5, <1>6, <1>7

LEMMA LoneCallOurs ==
  ASSUME Types, Claims, Lone, NEW t \in Threads, CallOurs(t), alone'
  PROVE  Lone'
<1> USE FilterAssumption DEF Lone, filters, loader, reporting, history
<1>1. /\ thread'[t].pc = "claim" /\ thread'[t].then = "pass"
      /\ thread'[t].called = thread[t].called \cup {Ours} /\ thread'[t].owed = thread[t].owed
      /\ \A u \in Threads : u # t => thread'[u] = thread[u]
      /\ thread[t].pc = "call" /\ thread[t].at = Ours /\ thread[t].owed # Ours
  BY DEF CallOurs, Types, Records, Theirs
<1>2. Single' /\ Quiet' /\ stage = "up"
  BY <1>1, GoesOn DEF CallOurs, Loaded
<1>3. Handled'
  BY <1>2 DEF CallOurs, Handled
<1>4. Placed'
  BY <1>1, StaysPlaced DEF CallOurs
<1>5. Owes'
  <2>1. UNCHANGED <<stage, previous>>
    BY DEF CallOurs
  <2>2. Reached(t) \/ previous = thread[t].owed
    BY <1>1 DEF Owes, Recording
  <2>3. Reached(t)' \/ previous' = thread'[t].owed
    BY <1>1, <2>1, <2>2 DEF Reached
  <2> QED BY <1>1, <1>2, <2>1, <2>3 DEF Owes, Reached, Recording
<1>6. Kept'
  BY <1>1 DEF CallOurs, Kept, Types, Claims
<1> QED BY <1>2, <1>3, <1>4, <1>5, <1>6

LEMMA LonePassOn ==
  ASSUME Types, Claims, Lone, NEW t \in Threads, PassOn(t), alone'
  PROVE  Lone'
<1> USE FilterAssumption DEF Lone, filters, loader, reporting, history
<1>1. /\ thread'[t].at = previous
      /\ thread'[t].pc = IF previous \in {None, Ours} THEN "over" ELSE "call"
      /\ thread'[t].called = thread[t].called /\ thread'[t].owed = thread[t].owed
      /\ \A u \in Threads : u # t => thread'[u] = thread[u]
      /\ thread[t].pc = "pass" /\ thread[t].owed # Ours
  BY DEF PassOn, Types, Records, Theirs
<1>2. Single' /\ Quiet' /\ UNCHANGED <<stage, previous>>
  BY <1>1, GoesOn DEF PassOn
<1>3. Handled'
  BY <1>1, <1>2 DEF Handled, Handlers, Recording
<1>4. Placed'
  <2>1. thread[t].pc # "swapped" /\ thread'[t].pc # "swapped"
    BY <1>1
  <2> QED BY <1>1, <2>1, StaysPlaced DEF PassOn
<1>5. Owes'
  <2>1. Reached(t)' \/ (thread'[t].pc = "call" /\ thread'[t].at = thread'[t].owed)
    BY <1>1 DEF Owes, Reached, Recording
  <2> QED BY <1>1, <1>2, <2>1 DEF Owes, Reached
<1>6. Kept'
  BY <1>1 DEF PassOn, Kept, Types, Claims
<1> QED BY <1>2, <1>3, <1>4, <1>5, <1>6

LEMMA LoneSnapshot ==
  ASSUME Types, Claims, Lone, NEW t \in Threads, Snapshot(t), alone'
  PROVE  Lone'
<1> USE FilterAssumption DEF Lone, filters, loader, reporting, history
<1>1. /\ \A u \in Threads : u # t => thread'[u] = thread[u]
      /\ thread'[t].pc = "claim"
      /\ thread'[t].owed = None /\ thread'[t].called = {}
      /\ thread[t].pc = "runs" /\ stage = "up"
  BY FreshMoves DEF Snapshot
<1>2. Calm
  BY DEF Snapshot
<1>3. Single' /\ Quiet'
  BY <1>1, <1>2, Begins DEF Snapshot
<1>4. Handled'
  BY <1>1 DEF Snapshot, Handled
<1>5. Placed'
  BY <1>1, StaysPlaced DEF Snapshot
<1>6. Owes'
  BY <1>1 DEF Snapshot, Owes, Reached
<1>7. Kept'
  BY <1>1, <1>2 DEF Snapshot, Kept, Types, Claims, Calm
<1> QED BY <1>3, <1>4, <1>5, <1>6, <1>7

\* What record_crash makes of the thread that is in it.
LEMMA RecordMoves ==
  ASSUME Types, NEW t \in Threads, Recorded(t)
  PROVE  /\ \A u \in Threads : u # t => thread'[u] = thread[u]
         /\ thread'[t].pc = thread[t].then
         /\ thread'[t].called = thread[t].called /\ thread'[t].owed = thread[t].owed
         /\ thread[t].pc \in Recording => thread'[t].pc \in {"search", "over", "pass", "recorded"}
  BY DEF Types, Records, Recorded, Thens

LEMMA GotoMoves ==
  ASSUME Types, NEW t \in Threads, NEW p, Goto(t, p)
  PROVE  /\ \A u \in Threads : u # t => thread'[u] = thread[u]
         /\ thread'[t].pc = p /\ thread'[t].then = thread[t].then
         /\ thread'[t].called = thread[t].called /\ thread'[t].owed = thread[t].owed
  BY DEF Types, Records, Goto

\* record_crash leaves the filters alone, and what the thread owes with it.
LEMMA RecordingStays ==
  ASSUME Types, Single, Quiet, Handled, Placed, Owes, NEW t \in Threads,
         thread[t].pc \in Recording, UNCHANGED <<filters, loader, chosen>>,
         Recorded(t) \/ \E p \in {"spawn", "wait"} : Goto(t, p)
  PROVE  Single' /\ Quiet' /\ Handled' /\ Placed' /\ Owes'
<1> USE DEF filters, loader
<1>1. /\ \A u \in Threads : u # t => thread'[u] = thread[u]
      /\ thread'[t].called = thread[t].called /\ thread'[t].owed = thread[t].owed
      /\ thread'[t].pc \notin {"swapped", "call"}
      /\ \/ thread'[t].pc = thread[t].then
         \/ thread'[t].pc \in Recording /\ thread'[t].then = thread[t].then
  BY RecordMoves, GotoMoves DEF Recording
<1>2. stage = "up" /\ thread[t].pc \notin {"runs", "swapped", "call"}
  BY DEF Handled, Handlers, Recording
<1>3. Single' /\ Quiet'
  BY <1>1, <1>2, GoesOn
<1>4. Handled'
  BY <1>2 DEF Handled
<1>5. Placed'
  BY <1>1, <1>2, StaysPlaced
<1>6. Owes'
  BY <1>1, <1>2 DEF Owes, Reached, Recording
<1> QED BY <1>3, <1>4, <1>5, <1>6

LEMMA LoneRecording ==
  ASSUME Types, Claims, Lone, NEW t \in Threads, Claim(t) \/ Spawn(t) \/ Wait(t), alone'
  PROVE  Lone'
<1> USE DEF Lone
<1>1. Single' /\ Quiet' /\ Handled' /\ Placed' /\ Owes'
  BY RecordingStays DEF Claim, Spawn, Wait, Recording, history
<1>2. thread[t].pc \in Recording /\ (claimed => thread[t].pc # "runs" /\ Kept)
  BY DEF Claim, Spawn, Wait, Recording
<1>3. ~spent /\ claimed => request = t
  BY <1>2 DEF Kept, Single, Claims, Recording
<1>4. Kept'
  <2> USE RecordMoves, GotoMoves DEF Recording, history
  <2>1. CASE Claim(t) /\ claimed
    BY <1>3, <2>1 DEF Claim, Kept, Claims, Types
  <2>2. CASE Claim(t) /\ ~claimed
    BY <2>2 DEF Claim, Kept, Claims, Types
  <2>3. CASE Spawn(t)
    BY <1>3, <2>3 DEF Spawn, Kept, Claims, Types
  <2>4. CASE Wait(t)
    BY <1>3, <2>4 DEF Wait, Kept, Claims, Types, reporting
  <2> QED BY <2>1, <2>2, <2>3, <2>4
<1> QED BY <1>1, <1>4

LEMMA LoneWrite ==
  ASSUME Types, Claims, Lone, Write, alone'
  PROVE  Lone'
<1> USE DEF Write, Lone, filters, loader, history
<1>1. Single' /\ Quiet' /\ Handled'
  BY DEF Single, Quiet, Calm, Handled
<1>2. Placed' /\ Owes'
  BY DEF Placed, Remembered, Owes, Reached
<1>3. Kept'
  BY DEF Kept
<1> QED BY <1>1, <1>2, <1>3

LEMMA LoneLoader ==
  ASSUME Types, Claims, Lone, LoaderStep, alone'
  PROVE  Lone'
<1> USE FilterAssumption DEF Lone, filters, history, Step
<1> DEFINE moves == AddVectored \/ RemoveVectored
<1>1. UNCHANGED <<thread, reporting, spent, chosen>> /\ stage' # stage
  BY DEF LoaderStep, AddVectored, Arm, RememberFirst, RemoveVectored, Forget, Restore, PutBack, Unmap
<1>2. Calm
  <2>1. CASE moves
    BY <2>1 DEF AddVectored, RemoveVectored
  <2>2. CASE ~moves
    BY <2>2 DEF LoaderStep, Arm, RememberFirst, Forget, Restore, PutBack, Unmap, Quiet
  <2> QED BY <2>1, <2>2
<1>3. Single' /\ Quiet' /\ Handled'
  BY <1>1, <1>2 DEF Single, Quiet, Calm, Handled, Handlers, Recording
<1>4. Kept'
  BY <1>1, <1>2 DEF Kept, reporting
<1>5. Owes'
  BY <1>1, <1>2 DEF Owes, Reached, Calm, Recording
<1>6. (Remembered <=> previous = chosen) /\ (Remembered' <=> previous' = chosen')
  BY <1>1, <1>2 DEF Remembered, Calm
<1>7. Placed'
  <2> USE <1>1, <1>6 DEF Placed
  <2>1. CASE AddVectored
    BY <2>1 DEF AddVectored
  <2>2. CASE Arm
    BY <2>2 DEF Arm
  <2>3. CASE RememberFirst
    BY <2>3 DEF RememberFirst, Stored, Types, Theirs
  <2>4. CASE RemoveVectored
    BY <2>4 DEF RemoveVectored
  <2>5. CASE Forget
    BY <2>5 DEF Forget
  <2>6. CASE Restore
    BY <2>6 DEF Restore
  <2>7. CASE PutBack
    BY <2>7 DEF PutBack, Types, Theirs
  <2>8. CASE Unmap
    BY <2>8 DEF Unmap
  <2> QED BY <2>1, <2>2, <2>3, <2>4, <2>5, <2>6, <2>7, <2>8 DEF LoaderStep
<1> QED BY <1>3, <1>4, <1>5, <1>7

----------------------------------------------------------------------------
(* The three properties                                                      *)

\* What holds of the thread whose crash has ended the process.
Concluded == ended # None =>
  /\ Reached(ended)
  /\ ~spent /\ Ours \in thread[ended].called => report = ended

IInv == Types /\ Claims /\ (alone => Lone /\ Concluded)

LEMMA InitIInv == Init => IInv
  BY InitTypes, InitClaims, InitLone DEF IInv, Concluded, Init

\* Nothing happens after the end, and a step before it keeps Lone.
LEMMA NextLone ==
  ASSUME Types, Claims, Lone, Next, alone'
  PROVE  Lone'
<1>1. ASSUME NEW t \in Threads, HandlerStep(t) PROVE Lone'
  BY <1>1, LoneRearm, LoneRemember, LoneCallOurs, LonePassOn, LoneSnapshot, LoneRecording
     DEF HandlerStep
<1> QED BY <1>1, LoneHost, LoneSetHostFilter, LoneLoader, LoneWrite DEF Next

\* The end comes when the host's filter has had its turn, and our own report is written.
LEMMA EndConcludes ==
  ASSUME Types, Claims, Lone, NEW t \in Threads, End(t)
  PROVE  Concluded'
<1> USE FilterAssumption DEF Lone
<1>1. thread[t].pc \in {"over", "call"}
  BY DEF End, Handled, Handlers, Recording, Loaded
<1>2. thread[t].pc = "call" => thread[t].at = None \/ (thread[t].at = Ours /\ ~Loaded)
  BY DEF End
<1>3. Reached(t)
  BY <1>1, <1>2 DEF Owes, Reached, Recording, Loaded, Types, Records, Theirs
<1>4. ~spent /\ Ours \in thread[t].called => report = t
  BY <1>1 DEF Kept
<1> QED BY <1>3, <1>4 DEF End, Concluded, Reached, reporting, history

LEMMA NextConcluded ==
  ASSUME Types, Claims, Lone, Next
  PROVE  Concluded'
<1>1. ASSUME NEW t \in Threads, End(t) PROVE Concluded'
  BY <1>1, EndConcludes
<1>2. CASE ended' = None
  BY <1>2 DEF Concluded
<1>3. ended' = ended \/ \E t \in Threads : End(t)
  BY DEF Next, HostStep, HandlerStep, LoaderStep, SetHostFilter, Fault, Survive, CatchToDump,
         LastChance, CallHostFilter, Rearm, Remember, CallOurs, PassOn, Snapshot, Claim, Spawn,
         Wait, Write, AddVectored, Arm, RememberFirst, RemoveVectored, Forget, Restore, PutBack,
         Unmap
<1> QED BY <1>1, <1>2, <1>3 DEF Next

\* What was disturbed once stays so.
LEMMA AloneBefore == Next /\ alone' => alone
<1> SUFFICES ASSUME Next, alone' PROVE alone
  OBVIOUS
<1> USE DEF history
<1>1. ASSUME NEW t \in Threads, HostStep(t) PROVE alone
  BY <1>1 DEF HostStep, Fault, Survive, CatchToDump, LastChance, CallHostFilter, End
<1>2. ASSUME NEW t \in Threads, HandlerStep(t) PROVE alone
  BY <1>2 DEF HandlerStep, Rearm, Remember, CallOurs, PassOn, Snapshot, Claim, Spawn, Wait
<1>3. CASE LoaderStep
  BY <1>3 DEF LoaderStep, AddVectored, Arm, RememberFirst, RemoveVectored, Forget, Restore,
              PutBack, Unmap
<1>4. CASE Write \/ \E h \in HostFilters : SetHostFilter(h)
  BY <1>4 DEF Write, SetHostFilter
<1> QED BY <1>1, <1>2, <1>3, <1>4 DEF Next

LEMMA NextIInv == IInv /\ [Next]_vars => IInv'
<1> SUFFICES ASSUME IInv, [Next]_vars PROVE IInv'
  OBVIOUS
<1>1. Types' /\ Claims'
  BY NextTypes, NextClaims DEF IInv
<1>2. ASSUME Next, alone' PROVE Lone' /\ Concluded'
  BY <1>2, AloneBefore, NextLone, NextConcluded DEF IInv
<1>3. ASSUME UNCHANGED vars, alone' PROVE Lone' /\ Concluded'
  <2>1. Lone /\ Concluded
    BY <1>3 DEF IInv, vars
  <2>2. Single' /\ Quiet' /\ Handled' /\ Placed'
    BY <1>3, <2>1 DEF vars, Lone, Single, Quiet, Calm, Handled, Placed, Remembered
  <2>3. Owes' /\ Kept' /\ Concluded'
    BY <1>3, <2>1 DEF vars, Lone, Owes, Reached, Kept, Concluded
  <2> QED BY <2>2, <2>3 DEF Lone
<1> QED BY <1>1, <1>2, <1>3 DEF IInv

LEMMA AlwaysIInv == Spec => []IInv
  BY InitIInv, NextIInv, PTL DEF Spec

\* (LoneCrashReachesHost) A crash that ends the process has reached the filter the host
\* set last, however the host's filters chain.
THEOREM LoneCrashAlwaysReachesHost == Spec => []LoneCrashReachesHost
<1>1. IInv => LoneCrashReachesHost
  BY DEF IInv, Concluded, LoneCrashReachesHost
<1> QED BY <1>1, AlwaysIInv, PTL

\* (DetachGivesFilterBack) A detach no fault overlaps ends with the host's last filter.
THEOREM DetachAlwaysGivesFilterBack == Spec => []DetachGivesFilterBack
<1>1. IInv => DetachGivesFilterBack
  BY DEF IInv, Lone, Placed, DetachGivesFilterBack
<1> QED BY <1>1, AlwaysIInv, PTL

\* (LastCrashIsReported) A crash our filter was called for ends with its own report.
THEOREM LastCrashAlwaysReported == Spec => []LastCrashIsReported
<1>1. IInv => LastCrashIsReported
  BY DEF IInv, Concluded, LastCrashIsReported
<1> QED BY <1>1, AlwaysIInv, PTL

----------------------------------------------------------------------------
(* The log                                                                   *)

\* Who is past the lock has it.
Exclusive == \A t \in Writers : Holds(t) => lock = t

\* A tested handle is closed only under a line that is known to have met the close.
TestsAreKnown == \A t \in Writers : pc[t] = "write" /\ ~open => met

FInv ==
  /\ pc = [t \in Writers |-> pc[t]]
  /\ Exclusive
  /\ TestsAreKnown
  /\ strayed => met

\* Initially nobody writes.
LEMMA InitFInv == LogInit => FInv
  BY DEF LogInit, FInv, Exclusive, TestsAreKnown, Holds

\* No step of write, of the handler or of shutdown lets a second thread in, or leaves a
\* write to a closed file unknown.
LEMMA NextFInv == FInv /\ [LogNext]_logVars => FInv'
<1> SUFFICES ASSUME FInv, [LogNext]_logVars PROVE FInv'
  OBVIOUS
<1> USE DEF FInv, Exclusive, TestsAreKnown, Holds
<1>1. ASSUME NEW t \in Writers, Begin(t) PROVE FInv'
  BY <1>1 DEF Begin, Number, Goes
<1>2. ASSUME NEW t \in Writers, Lock(t) PROVE FInv'
  BY <1>2, DiagLogAssumption DEF Lock, Goes
<1>3. ASSUME NEW t \in Writers, Try(t) PROVE FInv'
  BY <1>3 DEF Try, shared
<1>4. ASSUME NEW t \in Writers, Drop(t) PROVE FInv'
  BY <1>4 DEF Drop, Goes
<1>5. ASSUME NEW t \in Writers, TestFile(t) PROVE FInv'
  <2>1. /\ pc' = [pc EXCEPT ![t] = pc'[t]] /\ pc[t] = "test" /\ UNCHANGED <<lock, open, strayed>>
        /\ (pc'[t] = "write" /\ handle) \/ pc'[t] = "release"
        /\ met' = (met \/ (handle /\ ~open))
    BY <1>5 DEF TestFile, Goes
  <2> QED BY <2>1
<1>6. ASSUME NEW t \in Writers, WriteLine(t) PROVE FInv'
  <2>1. /\ pc' = [pc EXCEPT ![t] = "release"] /\ pc[t] = "write"
        /\ UNCHANGED <<lock, open, met>>
        /\ strayed' => strayed \/ ~open
    BY <1>6 DEF WriteLine, Goes
  <2> QED BY <2>1
<1>7. ASSUME NEW t \in Writers, Release(t) PROVE FInv'
  BY <1>7 DEF Release, Goes
<1>8. ASSUME NEW t \in Writers, WriteInHandler(t) PROVE FInv'
  BY <1>8 DEF WriteInHandler
<1>9. ASSUME NEW t \in Writers, Stop(t) PROVE FInv'
  BY <1>9 DEF Stop, shared
<1>10. ASSUME Shutdown PROVE FInv'
  <2>1. ASSUME NEW from, NEW to, LastLine(from, to) PROVE FInv'
    BY <2>1, DiagLogAssumption DEF LastLine, Number, Goes
  <2>2. CASE CloseFile
    BY <2>2 DEF CloseFile
  <2>3. CASE ForgetFile
    BY <2>3 DEF ForgetFile
  <2> QED BY <1>10, <2>1, <2>2, <2>3 DEF Shutdown
<1>11. CASE UNCHANGED logVars
  BY <1>11 DEF logVars
<1> QED
  BY <1>1, <1>2, <1>3, <1>4, <1>5, <1>6, <1>7, <1>8, <1>9, <1>10, <1>11 DEF LogNext, WriteStep

\* One thread at a time uses the file, and only a write that met the close goes astray:
\* for any threads, however many stop with the lock or fault in write.
THEOREM FileIsAlwaysSafe == LogSpec => []FileIsSafe
<1>1. FInv => FileIsSafe
  BY DEF FInv, Exclusive, FileIsSafe
<1> QED
  BY <1>1, InitFInv, NextFInv, PTL DEF LogSpec

----------------------------------------------------------------------------
(* Every line is accounted for                                               *)

Lines ==
  /\ sequence \in Nat /\ dropped \in Nat /\ refused \in Nat /\ unfiled \in Nat
  /\ line \in [Writers -> Nat] /\ written \subseteq 1..sequence
  /\ \A t \in Writers : line[t] # 0 => line[t] \in Missing
  /\ \A t, u \in Writers : line[t] # 0 /\ line[t] = line[u] => t = u

Sums ==
  /\ IsFiniteSet(Missing) /\ IsFiniteSet(InHand)
  /\ Cardinality(Missing) = dropped + refused + unfiled + Cardinality(InHand)

Places == {"idle", "acquire", "test", "write", "release", "stopped"}

\* A thread has a line in hand from its number to its end.
Hands ==
  /\ pc \in [Writers -> Places]
  /\ \A t \in Writers : /\ pc[t] \in {"acquire", "test", "write"} => line[t] # 0
                        /\ pc[t] \in {"idle", "release"} => line[t] = 0

LInv == Lines /\ Sums /\ Hands

\* The four things that happen to a line: it is numbered, ...
LEMMA LineBegins ==
  ASSUME Lines, Sums, NEW t \in Writers, line[t] = 0,
         sequence' = sequence + 1, line' = [line EXCEPT ![t] = sequence + 1],
         UNCHANGED <<written, dropped, refused, unfiled>>
  PROVE  Lines' /\ Sums'
<1>1. Missing' = Missing \cup {sequence + 1} /\ sequence + 1 \notin Missing
  BY DEF Lines, Missing
<1>2. InHand' = InHand \cup {t} /\ t \notin InHand
  BY DEF Lines, InHand
<1>3. Lines'
  <2>1. \A u \in Writers : line[u] # 0 => line[u] \in 1..sequence
    BY DEF Lines, Missing
  <2>2. \A u \in Writers : line'[u] # 0 => line'[u] \in Missing'
    BY <1>1 DEF Lines
  <2>3. \A u, v \in Writers : line'[u] # 0 /\ line'[u] = line'[v] => u = v
    BY <2>1 DEF Lines
  <2> QED BY <2>2, <2>3 DEF Lines
<1>4. /\ IsFiniteSet(Missing') /\ Cardinality(Missing') = Cardinality(Missing) + 1
      /\ IsFiniteSet(InHand') /\ Cardinality(InHand') = Cardinality(InHand) + 1
  BY <1>1, <1>2, FS_AddElement DEF Sums
<1>5. Cardinality(Missing) \in Nat /\ Cardinality(InHand) \in Nat
  BY FS_CardinalityType DEF Sums
<1> QED BY <1>3, <1>4, <1>5 DEF Sums, Lines

\* ... it ends without being written, and is counted, ...
LEMMA LineEnds ==
  ASSUME Lines, Sums, NEW t \in Writers, line[t] # 0, line' = [line EXCEPT ![t] = 0],
         UNCHANGED <<sequence, written, refused>>, dropped' \in Nat, unfiled' \in Nat,
         dropped' + refused' + unfiled' = dropped + refused + unfiled + 1
  PROVE  Lines' /\ Sums'
<1>1. Missing' = Missing
  BY DEF Missing
<1>2. InHand' = InHand \ {t} /\ t \in InHand
  BY DEF Lines, InHand
<1>3. Lines'
  BY <1>1 DEF Lines
<1>4. IsFiniteSet(InHand') /\ Cardinality(InHand') = Cardinality(InHand) - 1
  BY <1>2, FS_RemoveElement DEF Sums
<1>5. Cardinality(Missing) \in Nat /\ Cardinality(InHand) \in Nat
  BY FS_CardinalityType DEF Sums
<1>6. dropped + refused + unfiled \in Nat
  BY DEF Lines
<1> QED BY <1>1, <1>3, <1>4, <1>5, <1>6 DEF Sums

\* ... it is written, ...
LEMMA LineIsWritten ==
  ASSUME Lines, Sums, NEW t \in Writers, line[t] # 0, line' = [line EXCEPT ![t] = 0],
         written' = written \cup {line[t]}, UNCHANGED <<sequence, dropped, refused, unfiled>>
  PROVE  Lines' /\ Sums'
<1>1. Missing' = Missing \ {line[t]} /\ line[t] \in Missing
  BY DEF Lines, Missing
<1>2. InHand' = InHand \ {t} /\ t \in InHand
  BY DEF Lines, InHand
<1>3. Lines'
  <2>1. written' \subseteq 1..sequence
    BY <1>1 DEF Lines, Missing
  <2>2. \A u \in Writers : line'[u] # 0 => line'[u] \in Missing'
    BY <1>1 DEF Lines
  <2> QED BY <2>1, <2>2 DEF Lines
<1>4. /\ IsFiniteSet(Missing') /\ Cardinality(Missing') = Cardinality(Missing) - 1
      /\ IsFiniteSet(InHand') /\ Cardinality(InHand') = Cardinality(InHand) - 1
  BY <1>1, <1>2, FS_RemoveElement DEF Sums
<1>5. Cardinality(Missing) \in Nat /\ Cardinality(InHand) \in Nat
  BY FS_CardinalityType DEF Sums
<1> QED BY <1>3, <1>4, <1>5 DEF Sums, Lines

\* ... or it is the line of the handler, which has a number only.
LEMMA LineIsRefused ==
  ASSUME Lines, Sums, sequence' = sequence + 1, refused' = refused + 1,
         UNCHANGED <<line, written, dropped, unfiled>>
  PROVE  Lines' /\ Sums'
<1>1. Missing' = Missing \cup {sequence + 1} /\ sequence + 1 \notin Missing
  BY DEF Lines, Missing
<1>2. InHand' = InHand
  BY DEF InHand
<1>3. Lines'
  BY <1>1 DEF Lines
<1>4. IsFiniteSet(Missing') /\ Cardinality(Missing') = Cardinality(Missing) + 1
  BY <1>1, FS_AddElement DEF Sums
<1>5. Cardinality(Missing) \in Nat /\ Cardinality(InHand) \in Nat
  BY FS_CardinalityType DEF Sums
<1> QED BY <1>2, <1>3, <1>4, <1>5 DEF Sums, Lines

LEMMA InitLInv == LogInit => LInv
<1> SUFFICES ASSUME LogInit PROVE LInv
  OBVIOUS
<1>1. Missing = {} /\ InHand = {}
  BY DEF LogInit, Missing, InHand
<1>2. Lines /\ Hands
  BY DEF LogInit, Lines, Hands, Places
<1>3. Sums
  BY <1>1, FS_EmptySet DEF LogInit, Sums
<1> QED BY <1>2, <1>3 DEF LInv

\* A step that leaves the lines alone.
LEMMA LinesStay ==
  ASSUME Lines, Sums, UNCHANGED <<line, sequence, dropped, refused, unfiled, written>>
  PROVE  Lines' /\ Sums'
BY DEF Lines, Sums, Missing, InHand

LEMMA NextLInv == LInv /\ [LogNext]_logVars => LInv'
<1> SUFFICES ASSUME Lines, Sums, Hands, [LogNext]_logVars PROVE Lines' /\ Sums' /\ Hands'
  BY DEF LInv
<1> USE DEF Hands, Places, Goes, Done
<1>0. ASSUME NEW t \in Writers, Number(t), UNCHANGED <<written, dropped, refused, unfiled>>
      PROVE Lines' /\ Sums' /\ Hands'
  <2>1. line[t] = 0 /\ sequence' = sequence + 1 /\ line' = [line EXCEPT ![t] = sequence + 1]
    BY <1>0 DEF Number
  <2>2. Lines' /\ Sums'
    BY <1>0, <2>1, LineBegins
  <2>3. Hands'
    BY <1>0, <2>1 DEF Number, Lines
  <2> QED BY <2>2, <2>3
<1>1. ASSUME NEW t \in Writers, Begin(t) PROVE Lines' /\ Sums' /\ Hands'
  BY <1>0, <1>1 DEF Begin
<1>2. ASSUME NEW t \in Writers, Lock(t) PROVE Lines' /\ Sums' /\ Hands'
  BY <1>2, LinesStay DEF Lock
<1>3. ASSUME NEW t \in Writers, Try(t) PROVE Lines' /\ Sums' /\ Hands'
  BY <1>3, LinesStay DEF Try, shared
<1>4. ASSUME NEW t \in Writers, Drop(t) PROVE Lines' /\ Sums' /\ Hands'
  <2>1. line[t] # 0 /\ line' = [line EXCEPT ![t] = 0] /\ dropped' = dropped + 1
        /\ UNCHANGED <<sequence, written, refused, unfiled>>
    BY <1>4 DEF Drop
  <2>2. UNCHANGED <<sequence, written, refused>> /\ dropped' \in Nat /\ unfiled' \in Nat
        /\ dropped' + refused' + unfiled' = dropped + refused + unfiled + 1
    BY <2>1 DEF Lines
  <2>3. Lines' /\ Sums'
    BY <2>1, <2>2, LineEnds
  <2>4. Hands'
    BY <1>4, <2>1 DEF Drop, Lines
  <2> QED BY <2>3, <2>4
<1>5. ASSUME NEW t \in Writers, TestFile(t) PROVE Lines' /\ Sums' /\ Hands'
  <2>1. CASE handle
    BY <1>5, <2>1, LinesStay DEF TestFile
  <2>2. CASE ~handle
    <3>1. line[t] # 0 /\ line' = [line EXCEPT ![t] = 0] /\ unfiled' = unfiled + 1
          /\ UNCHANGED <<sequence, written, refused, dropped>>
      BY <1>5, <2>2 DEF TestFile
    <3>2. UNCHANGED <<sequence, written, refused>> /\ dropped' \in Nat /\ unfiled' \in Nat
          /\ dropped' + refused' + unfiled' = dropped + refused + unfiled + 1
      BY <3>1 DEF Lines
    <3>3. Lines' /\ Sums'
      BY <3>1, <3>2, LineEnds
    <3>4. Hands'
      BY <1>5, <2>2, <3>1 DEF TestFile, Lines
    <3> QED BY <3>3, <3>4
  <2> QED BY <2>1, <2>2
<1>6. ASSUME NEW t \in Writers, WriteLine(t) PROVE Lines' /\ Sums' /\ Hands'
  <2>1. line[t] # 0 /\ line' = [line EXCEPT ![t] = 0]
        /\ UNCHANGED <<sequence, refused, dropped>>
    BY <1>6 DEF WriteLine
  <2>2. ASSUME written' = written \cup {line[t]}, UNCHANGED unfiled PROVE Lines' /\ Sums'
    <3>1. UNCHANGED <<sequence, dropped, refused, unfiled>>
      BY <2>1, <2>2
    <3> QED BY <2>1, <2>2, <3>1, LineIsWritten
  <2>3. ASSUME unfiled' = unfiled + 1, UNCHANGED written PROVE Lines' /\ Sums'
    <3>1. UNCHANGED <<sequence, written, refused>> /\ dropped' \in Nat /\ unfiled' \in Nat
          /\ dropped' + refused' + unfiled' = dropped + refused + unfiled + 1
      BY <2>1, <2>3 DEF Lines
    <3> QED BY <2>1, <3>1, LineEnds
  <2>4. Hands'
    BY <1>6, <2>1 DEF WriteLine, Lines
  <2> QED BY <1>6, <2>2, <2>3, <2>4 DEF WriteLine
<1>7. ASSUME NEW t \in Writers, Release(t) PROVE Lines' /\ Sums' /\ Hands'
  BY <1>7, LinesStay DEF Release
<1>8. ASSUME NEW t \in Writers, WriteInHandler(t) PROVE Lines' /\ Sums' /\ Hands'
  BY <1>8, LineIsRefused DEF WriteInHandler
<1>9. ASSUME NEW t \in Writers, Stop(t) PROVE Lines' /\ Sums' /\ Hands'
  BY <1>9, LinesStay DEF Stop, shared
<1>10. ASSUME Shutdown PROVE Lines' /\ Sums' /\ Hands'
  <2>1. ASSUME NEW from, NEW to, LastLine(from, to) PROVE Lines' /\ Sums' /\ Hands'
    BY <1>0, <2>1, DiagLogAssumption DEF LastLine
  <2>2. CASE CloseFile \/ ForgetFile
    BY <2>2, LinesStay DEF CloseFile, ForgetFile
  <2> QED BY <1>10, <2>1, <2>2 DEF Shutdown
<1>11. CASE UNCHANGED logVars
  BY <1>11, LinesStay DEF logVars
<1> QED
  BY <1>1, <1>2, <1>3, <1>4, <1>5, <1>6, <1>7, <1>8, <1>9, <1>10, <1>11 DEF LogNext, WriteStep

\* (LinesAccounted) The gaps in the file are explained, for any threads, attempts and lines.
THEOREM LinesAreAccounted == LogSpec => []LinesAccounted
<1>1. LInv => LinesAccounted
  BY DEF LInv, Lines, Sums, LinesAccounted, InHand
<1> QED
  BY <1>1, InitLInv, NextLInv, PTL DEF LogSpec
============================================================================
