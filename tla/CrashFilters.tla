---------------------------- MODULE CrashFilters ----------------------------
(***************************************************************************)
(* Crash capture: the vectored handler, the last-chance filter and the     *)
(* crash report.  Windows keeps one last-chance filter for the process.    *)
(* The module puts its own in place on attach and again whenever a serious *)
(* exception is raised, remembering the filter it displaced; its filter    *)
(* reports the crash and passes it on to the remembered one.  The host may *)
(* replace the filter at any time, threads fault at any time, and detach   *)
(* gives the filter back.  Only the first crash of a process is reported.  *)
(*                                                                         *)
(* Faults are serious ones outside of a probe: others leave the handlers   *)
(* before anything is changed.  The build is the development one: a        *)
(* release build leaves the handlers where they are on detach.             *)
(***************************************************************************)
CONSTANTS
  Threads,      \* of the host
  HostFilters,  \* last-chance filters of the host
  Chaining,     \* those that pass a crash on to the filter they displaced
  Ours,         \* diag_unhandled_exception_filter
  None

ASSUME FilterAssumption ==
  /\ Chaining \subseteq HostFilters
  /\ Ours \notin HostFilters /\ None \notin HostFilters /\ Ours # None
  /\ None \notin Threads

Theirs == HostFilters \cup {None}
Filters == Theirs \cup {Ours}

VARIABLES
  filter,    \* the process's last-chance filter
  previous,  \* g_previous_exception_filter
  under,     \* the filter each host filter displaced
  stage,     \* how far the loader's thread is with attach and detach
  held,      \* the filter that thread holds in a local variable
  thread,    \* what each thread of the host does
  claimed,   \* g_crash_claimed
  request,   \* g_crash_request: the thread whose crash it describes
  worker,    \* crash_report_thread
  report,    \* the thread whose crash has been written
  ended,     \* the thread whose crash ended the process
  chosen,    \* history: the filter the host set last
  alone,     \* history: no fault overlapped another one, an attach or a detach
  spent      \* history: the report went to a fault the thread survived, or the
             \* wait for it was given up

filters == <<filter, previous, under>>
loader == <<stage, held>>
reporting == <<claimed, request, worker, report>>
history == <<chosen, alone, spent>>
vars == <<filter, previous, under, stage, held, thread, claimed, request, worker, report,
          ended, chosen, alone, spent>>

----------------------------------------------------------------------------

\* inside: the fault is in the module's code; then: where record_crash returns to;
\* at: the filter being called; called: those that were; owed: the host's at that time.
Running == [pc |-> "runs", inside |-> FALSE, then |-> "runs", at |-> None,
            called |-> {}, owed |-> None]

Init ==
  /\ filter \in Theirs /\ chosen = filter /\ previous = None
  /\ under = [h \in HostFilters |-> None]
  /\ stage = "out" /\ held = None
  /\ thread = [t \in Threads |-> Running]
  /\ claimed = FALSE /\ request = None /\ worker = "none" /\ report = None
  /\ ended = None /\ alone = TRUE /\ spent = FALSE

Calm == \A t \in Threads : thread[t].pc = "runs"
Watching == stage \in {"watching", "armed", "up"}
Loaded == stage \notin {"out", "gone"}

Goto(t, pc) == thread' = [thread EXCEPT ![t].pc = pc]

----------------------------------------------------------------------------
(* The host                                                                  *)

\* The host puts another filter in place.
SetHostFilter(h) ==
  /\ h # chosen /\ under[h] = None
  /\ filter' = h /\ chosen' = h
  /\ under' = [under EXCEPT ![h] = filter]
  /\ alone' = (alone /\ stage # "restored")
  /\ UNCHANGED <<previous, loader, thread, reporting, ended, spent>>

\* A serious exception is raised; the vectored handler is called if there is one.
Fault(t) ==
  /\ thread[t].pc = "runs"
  /\ \E inside \in IF stage = "up" THEN BOOLEAN ELSE {FALSE} :
       thread' = [thread EXCEPT ![t] =
         [Running EXCEPT !.pc = IF Watching THEN "vectored" ELSE "search", !.inside = inside]]
  /\ alone' = (alone /\ Calm /\ stage \in {"out", "up", "gone"})
  /\ UNCHANGED <<filters, loader, reporting, ended, chosen, spent>>

\* A frame of the thread handles the exception, or there was none.
Survive(t) ==
  /\ \/ thread[t].pc = "search"
     \/ thread[t].pc = "recorded" /\ Loaded
  /\ thread' = [thread EXCEPT ![t] = Running]
  /\ spent' = (spent \/ request = t)
  /\ UNCHANGED <<filters, loader, reporting, ended, chosen, alone>>

\* The host's frame catches it to write a dump, which is hooked.
CatchToDump(t) ==
  /\ thread[t].pc = "search" /\ stage = "up"
  /\ thread' = [thread EXCEPT ![t].pc = "claim", ![t].then = "over"]
  /\ UNCHANGED <<filters, loader, reporting, ended, history>>

\* No frame handles it: the system calls the last-chance filter.
LastChance(t) ==
  /\ thread[t].pc = "search"
  /\ thread' = [thread EXCEPT ![t].pc = "call", ![t].at = filter, ![t].owed = chosen]
  /\ UNCHANGED <<filters, loader, reporting, ended, history>>

\* A filter of the host runs, and may pass the crash on. One that is called a second
\* time is part of a cycle, which goes on until the stack is used up.
CallHostFilter(t) ==
  LET h == thread[t].at IN
  /\ thread[t].pc = "call" /\ h \in HostFilters
  /\ thread' = [thread EXCEPT
       ![t].called = @ \cup {h},
       ![t].pc = IF h \in Chaining /\ h \notin thread[t].called THEN "call" ELSE "over",
       ![t].at = IF h \in Chaining /\ h \notin thread[t].called THEN under[h] ELSE None]
  /\ UNCHANGED <<filters, loader, reporting, ended, history>>

\* The process ends: the last filter has returned, or there was none, or the code
\* to be run is not there any more.
End(t) ==
  /\ \/ thread[t].pc = "over"
     \/ thread[t].pc = "call" /\ thread[t].at = None
     \/ thread[t].pc = "call" /\ thread[t].at = Ours /\ ~Loaded
     \/ thread[t].pc \in {"vectored", "swapped", "claim", "spawn", "wait", "pass", "recorded"} /\ ~Loaded
  /\ ended' = t
  /\ UNCHANGED <<filters, loader, thread, reporting, history>>

----------------------------------------------------------------------------
(* The handlers                                                              *)

\* Wrong variant: what was displaced is stored even if it is our own filter.
StoredAlways(old, displaced) == displaced

\* What g_previous_exception_filter holds after a filter has been displaced.
Stored(old, displaced) == IF displaced = Ours THEN old ELSE displaced

\* The vectored handler puts our filter in place ...
Rearm(t) ==
  /\ thread[t].pc = "vectored" /\ Loaded
  /\ thread' = [thread EXCEPT ![t].pc = "swapped", ![t].at = filter]
  /\ filter' = Ours
  /\ UNCHANGED <<previous, under, loader, reporting, ended, history>>

\* ... and then remembers the one it displaced. A fault in the module is reported.
Remember(t) ==
  /\ thread[t].pc = "swapped" /\ Loaded
  /\ previous' = Stored(previous, thread[t].at)
  /\ thread' = [thread EXCEPT ![t] =
       IF thread[t].inside THEN [Running EXCEPT !.pc = "claim", !.then = "search"]
                           ELSE [Running EXCEPT !.pc = "search"]]
  /\ UNCHANGED <<filter, under, loader, reporting, ended, history>>

\* The last-chance filter reports the crash ...
CallOurs(t) ==
  /\ thread[t].pc = "call" /\ thread[t].at = Ours /\ Loaded
  /\ thread' = [thread EXCEPT
       ![t].called = @ \cup {Ours}, ![t].at = None, ![t].pc = "claim", ![t].then = "pass"]
  /\ UNCHANGED <<filters, loader, reporting, ended, history>>

\* Wrong variant: the crash is not passed on.
PassOnNothing(t) ==
  /\ thread[t].pc = "pass" /\ Loaded
  /\ Goto(t, "over")
  /\ UNCHANGED <<filters, loader, reporting, ended, history>>

\* ... and calls the one that is remembered.
PassOn(t) ==
  /\ thread[t].pc = "pass" /\ Loaded
  /\ thread' = [thread EXCEPT ![t].at = previous,
                              ![t].pc = IF previous \in {None, Ours} THEN "over" ELSE "call"]
  /\ UNCHANGED <<filters, loader, reporting, ended, history>>

\* capture_snapshot: a report is asked for without a fault.
Snapshot(t) ==
  /\ thread[t].pc = "runs" /\ stage = "up"
  /\ thread' = [thread EXCEPT ![t] = [Running EXCEPT !.pc = "claim", !.then = "recorded"]]
  /\ alone' = (alone /\ Calm)
  /\ UNCHANGED <<filters, loader, reporting, ended, chosen, spent>>

----------------------------------------------------------------------------
(* record_crash                                                              *)

Recorded(t) ==
  thread' = [thread EXCEPT ![t].pc = thread[t].then, ![t].then = "runs"]

\* Wrong variant: whoever comes fills the request.
ClaimAlways(t) ==
  /\ thread[t].pc = "claim" /\ Loaded
  /\ claimed' = TRUE /\ request' = t /\ Goto(t, "spawn")
  /\ UNCHANGED <<filters, loader, worker, report, ended, history>>

\* The first to come fills the request, the others return at once.
Claim(t) ==
  /\ thread[t].pc = "claim" /\ Loaded
  /\ claimed' = TRUE
  /\ IF claimed THEN Recorded(t) /\ UNCHANGED request
                ELSE Goto(t, "spawn") /\ request' = t
  /\ UNCHANGED <<filters, loader, worker, report, ended, history>>

\* Wrong variant: the report is not waited for.
SpawnOnly(t) ==
  /\ thread[t].pc = "spawn" /\ Loaded
  /\ worker' = "writing" /\ Recorded(t)
  /\ UNCHANGED <<filters, loader, claimed, request, report, ended, history>>

\* The report is written by a thread of its own, or here if there is none to be had.
Spawn(t) ==
  /\ thread[t].pc = "spawn" /\ Loaded
  /\ \/ worker' = "writing" /\ Goto(t, "wait") /\ UNCHANGED report
     \/ report' = request /\ Recorded(t) /\ UNCHANGED worker
  /\ UNCHANGED <<filters, loader, claimed, request, ended, history>>

Write ==
  /\ worker = "writing" /\ Loaded
  /\ report' = request /\ worker' = "done"
  /\ UNCHANGED <<filters, loader, thread, claimed, request, ended, history>>

\* The thread is done, or the thirty seconds are over.
Wait(t) ==
  /\ thread[t].pc = "wait" /\ Loaded
  /\ Recorded(t)
  /\ spent' = (spent \/ worker = "writing")
  /\ UNCHANGED <<filters, loader, reporting, ended, chosen, alone>>

----------------------------------------------------------------------------
(* Attach and detach                                                         *)

Step(from, to) == stage = from /\ stage' = to

AddVectored ==
  /\ Step("out", "watching")
  /\ alone' = (alone /\ Calm)
  /\ UNCHANGED <<filters, held, thread, reporting, ended, chosen, spent>>

Arm ==
  /\ Step("watching", "armed")
  /\ held' = filter /\ filter' = Ours
  /\ UNCHANGED <<previous, under, thread, reporting, ended, history>>

\* A filter that is null is not stored here.
RememberFirst ==
  /\ Step("armed", "up")
  /\ previous' = IF held = None THEN previous ELSE Stored(previous, held)
  /\ held' = None
  /\ UNCHANGED <<filter, under, thread, reporting, ended, history>>

RemoveVectored ==
  /\ Step("up", "leaving")
  /\ alone' = (alone /\ Calm)
  /\ UNCHANGED <<filters, held, thread, reporting, ended, chosen, spent>>

Forget ==
  /\ Step("leaving", "forgotten")
  /\ held' = previous /\ previous' = None
  /\ UNCHANGED <<filter, under, thread, reporting, ended, history>>

Restore ==
  /\ Step("forgotten", "restored")
  /\ held' = filter /\ filter' = held
  /\ UNCHANGED <<previous, under, thread, reporting, ended, history>>

\* Wrong variant: a filter found in the place of ours is not put back.
PutBackNothing ==
  /\ Step("restored", "down")
  /\ held' = None
  /\ UNCHANGED <<filters, thread, reporting, ended, history>>

\* A filter found in the place of ours is put back.
PutBack ==
  /\ Step("restored", "down")
  /\ filter' = IF held = Ours THEN filter ELSE held
  /\ held' = None
  /\ UNCHANGED <<previous, under, thread, reporting, ended, history>>

Unmap ==
  /\ Step("down", "gone")
  /\ UNCHANGED <<filters, held, thread, reporting, ended, history>>

----------------------------------------------------------------------------

HostStep(t) ==
  Fault(t) \/ Survive(t) \/ CatchToDump(t) \/ LastChance(t) \/ CallHostFilter(t) \/ End(t)

HandlerStep(t) ==
  \/ Rearm(t) \/ Remember(t) \/ CallOurs(t) \/ PassOn(t) \/ Snapshot(t)
  \/ Claim(t) \/ Spawn(t) \/ Wait(t)

LoaderStep ==
  \/ AddVectored \/ Arm \/ RememberFirst
  \/ RemoveVectored \/ Forget \/ Restore \/ PutBack \/ Unmap

Next ==
  /\ ended = None
  /\ \/ \E t \in Threads : HostStep(t) \/ HandlerStep(t)
     \/ \E h \in HostFilters : SetHostFilter(h)
     \/ LoaderStep \/ Write

Spec == Init /\ [][Next]_vars

\* The same from the state an undisturbed attach leaves.
Attached ==
  /\ filter = Ours /\ chosen \in Theirs /\ previous = chosen
  /\ under = [h \in HostFilters |-> None]
  /\ stage = "up" /\ held = None
  /\ thread = [t \in Threads |-> Running]
  /\ claimed = FALSE /\ request = None /\ worker = "none" /\ report = None
  /\ ended = None /\ alone = TRUE /\ spent = FALSE

SpecAttached == Attached /\ [][Next]_vars

----------------------------------------------------------------------------
(* Properties                                                                *)

Reached(t) == thread[t].owed \in thread[t].called \cup {None}

\* A crash that ends the process reaches the filter the host set last, whenever
\* the host set it, as long as no two faults overlapped each other or an attach or
\* a detach.
LoneCrashReachesHost == ended # None /\ alone => Reached(ended)

\* What the vectored handler is said to ensure: a crash while the module is in
\* place reaches the filter the host set last.
HostStillReceives == ended # None /\ stage = "up" => Reached(ended)

\* After the detach the last-chance filter is the one the host set last: neither
\* ours, whose code is going away, nor one the host had already replaced.
DetachGivesFilterBack ==
  alone /\ stage \in {"down", "gone"} => filter = chosen

\* The request describes the crash of the thread that is having it written: a
\* second crash does not overwrite it, not even after a wait was given up.
OneCrashIsReported ==
  /\ \A t \in Threads : thread[t].pc \in {"spawn", "wait"} => request = t
  /\ report \in {None, request}

\* A process that ends in a crash our filter was called for ends with the report of
\* that crash, unless a fault it survived or a snapshot has used the report up, the
\* wait was given up, or another fault overlapped it.
LastCrashIsReported ==
  ended # None /\ alone /\ ~spent /\ Ours \in thread[ended].called => report = ended
============================================================================
