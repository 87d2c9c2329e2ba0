---------------------------- MODULE ThreadPool -----------------------------
(***************************************************************************)
(* One call of threadpool::parallel_for, run_batch or run_sync.  The range *)
(* is cut into chunks, each chunk becomes a reference-counted job of the   *)
(* host's thread pool, parallel_for runs the last chunk itself, and the    *)
(* call then waits for its jobs in order.  The jobs refer to the body on   *)
(* the caller's stack.  An exception may leave the call at every           *)
(* allocation and while the caller runs its own chunk.                     *)
(*                                                                         *)
(* Sizes are far below the width of an int, so sums do not overflow.       *)
(***************************************************************************)
EXTENDS Integers

CONSTANT Calls  \* the calls to be considered

ASSUME CallsAssumption ==
  Calls \subseteq [op : {"parallel_for", "run_batch", "run_sync"}, begin : Int, end : Int,
                   min : Int, hw : Nat \ {0}, wait : {"event", "counter", "spin"}]

VARIABLES
  call,       \* the arguments, and how jobs of the host report completion
  pc,         \* where the caller is
  next,       \* index of the job to be submitted or waited for
  own,        \* next index of the caller's own chunk
  host,       \* where the host's pool is with each job
  at,         \* next index each job will run the body on
  refs,       \* reference count of each job
  signalled,  \* completion event or counter of each job
  snapshot,   \* value of the counter the caller goes to sleep on
  ran         \* how often the body ran on each index

vars == <<call, pc, next, own, host, at, refs, signalled, snapshot, ran>>

----------------------------------------------------------------------------
(* Cutting the range.                                                        *)

CeilDiv(a, b) == (a + b - 1) \div b

Total == call.end - call.begin

ChunkSize ==
  LET even == CeilDiv(Total, call.hw)
  IN  IF call.op # "parallel_for" THEN 1 ELSE IF even < call.min THEN call.min ELSE even

NumChunks == CeilDiv(Total, ChunkSize)

\* parallel_for keeps its last chunk; the others give every chunk away.
NumJobs ==
  CASE Total <= 0 -> 0
    [] Total > 0 /\ call.op = "parallel_for" -> NumChunks - 1
    [] OTHER -> NumChunks

Jobs == 0..NumJobs - 1

Lo(k) == call.begin + k * ChunkSize

\* Wrong variant: the bounds of a chunk are inclusive.
HiInclusive(k) == IF Lo(k) + ChunkSize + 1 < call.end THEN Lo(k) + ChunkSize + 1 ELSE call.end

Hi(k) == IF Lo(k) + ChunkSize < call.end THEN Lo(k) + ChunkSize ELSE call.end

----------------------------------------------------------------------------

Init ==
  /\ call \in Calls
  /\ pc = "submit" /\ next = 0 /\ own = Lo(NumJobs)
  /\ host = [j \in Jobs |-> "none"]
  /\ at = [j \in Jobs |-> call.begin]
  /\ refs = [j \in Jobs |-> 0]
  /\ signalled = [j \in Jobs |-> FALSE]
  /\ snapshot = FALSE
  /\ ran = [i \in call.begin..call.end - 1 |-> 0]

RunBody(i) == ran' = [ran EXCEPT ![i] = @ + 1]

\* The handles of the jobs submitted so far go out of scope.
DropHandles == refs' = [j \in Jobs |-> IF j < next THEN refs[j] - 1 ELSE refs[j]]

EmptyRange ==
  /\ pc = "submit" /\ Total <= 0
  /\ pc' = "returned"
  /\ UNCHANGED <<call, next, own, host, at, refs, signalled, snapshot, ran>>

\* Wrong variant: the handle adds a reference to the one make_job starts with.
SubmitAddsReference ==
  /\ pc = "submit" /\ next < NumJobs
  /\ refs' = [refs EXCEPT ![next] = 3]
  /\ host' = [host EXCEPT ![next] = "queued"]
  /\ next' = next + 1
  /\ UNCHANGED <<call, pc, own, at, signalled, snapshot, ran>>

\* run(): make_job starts the count at one, which the handle takes over, and
\* the pool adds its own reference when the job is added.
Submit ==
  /\ pc = "submit" /\ next < NumJobs
  /\ refs' = [refs EXCEPT ![next] = 2]
  /\ host' = [host EXCEPT ![next] = "queued"]
  /\ next' = next + 1
  /\ UNCHANGED <<call, pc, own, at, signalled, snapshot, ran>>

\* An exception leaves the call: the handles go, the jobs stay in the pool.
Unwind ==
  /\ pc' = "threw"
  /\ DropHandles
  /\ UNCHANGED <<call, next, own, host, at, signalled, snapshot, ran>>

SubmitThrows == pc = "submit" /\ next < NumJobs /\ Unwind

AllSubmitted ==
  /\ pc = "submit" /\ next = NumJobs /\ Total > 0
  /\ IF call.op = "parallel_for"
     THEN pc' = "own" /\ UNCHANGED next
     ELSE pc' = "wait" /\ next' = 0
  /\ UNCHANGED <<call, own, host, at, refs, signalled, snapshot, ran>>

RunOwn ==
  /\ pc = "own" /\ own < call.end
  /\ RunBody(own)
  /\ own' = own + 1
  /\ UNCHANGED <<call, pc, next, host, at, refs, signalled, snapshot>>

OwnThrows == pc = "own" /\ own < call.end /\ Unwind

OwnDone ==
  /\ pc = "own" /\ own >= call.end
  /\ pc' = "wait" /\ next' = 0
  /\ UNCHANGED <<call, own, host, at, refs, signalled, snapshot, ran>>

----------------------------------------------------------------------------
(* job::wait: on the event if the job has one, on a counter, or by spinning. *)

Idle(j) == host[j] \in {"signal", "release", "done"}

Waited ==
  /\ pc = "wait" /\ next < NumJobs
  /\ IF call.wait = "event" THEN signalled[next] ELSE Idle(next)
  /\ next' = next + 1
  /\ UNCHANGED <<call, pc, own, host, at, refs, signalled, snapshot, ran>>

\* The status is tested before the counter is read: the job can complete, and
\* wake nobody, between the two.
WaitBusy ==
  /\ pc = "wait" /\ next < NumJobs
  /\ call.wait = "counter" /\ ~Idle(next)
  /\ pc' = "snapshot"
  /\ UNCHANGED <<call, next, own, host, at, refs, signalled, snapshot, ran>>

WaitSnapshot ==
  /\ pc = "snapshot"
  /\ snapshot' = signalled[next]
  /\ pc' = "sleep"
  /\ UNCHANGED <<call, next, own, host, at, refs, signalled, ran>>

\* Wrong variant: WaitOnAddress is given no time limit.
WakeWithoutTimeout ==
  /\ pc = "sleep" /\ signalled[next] # snapshot
  /\ pc' = "wait"
  /\ UNCHANGED <<call, next, own, host, at, refs, signalled, snapshot, ran>>

\* WaitOnAddress returns when the counter has changed, and after 1 ms anyway.
Wake ==
  /\ pc = "sleep"
  /\ pc' = "wait"
  /\ UNCHANGED <<call, next, own, host, at, refs, signalled, snapshot, ran>>

\* Wrong variant: the call comes back once its last job has been waited for.
ReturnAfterOne ==
  /\ pc = "wait" /\ (next = NumJobs \/ next = 1)
  /\ pc' = "returned"
  /\ refs' = [j \in Jobs |-> refs[j] - 1]
  /\ UNCHANGED <<call, next, own, host, at, signalled, snapshot, ran>>

Return ==
  /\ pc = "wait" /\ next = NumJobs
  /\ pc' = "returned"
  /\ DropHandles
  /\ UNCHANGED <<call, next, own, host, at, signalled, snapshot, ran>>

----------------------------------------------------------------------------
(* The host's pool.                                                          *)

Start(j) ==
  /\ host[j] = "queued"
  /\ host' = [host EXCEPT ![j] = "running"]
  /\ at' = [at EXCEPT ![j] = Lo(j)]
  /\ UNCHANGED <<call, pc, next, own, refs, signalled, snapshot, ran>>

RunJob(j) ==
  /\ host[j] = "running" /\ at[j] < Hi(j)
  /\ RunBody(at[j])
  /\ at' = [at EXCEPT ![j] = @ + 1]
  /\ UNCHANGED <<call, pc, next, own, host, refs, signalled, snapshot>>

Finish(j) ==
  /\ host[j] = "running" /\ at[j] >= Hi(j)
  /\ host' = [host EXCEPT ![j] = "signal"]
  /\ UNCHANGED <<call, pc, next, own, at, refs, signalled, snapshot, ran>>

Signal(j) ==
  /\ host[j] = "signal"
  /\ host' = [host EXCEPT ![j] = "release"]
  /\ signalled' = [signalled EXCEPT ![j] = TRUE]
  /\ UNCHANGED <<call, pc, next, own, at, refs, snapshot, ran>>

Release(j) ==
  /\ host[j] = "release"
  /\ host' = [host EXCEPT ![j] = "done"]
  /\ refs' = [refs EXCEPT ![j] = @ - 1]
  /\ UNCHANGED <<call, pc, next, own, at, signalled, snapshot, ran>>

\* A pool that shuts down gives up a job it has not started.
Abort(j) ==
  /\ host[j] = "queued"
  /\ host' = [host EXCEPT ![j] = "aborted"]
  /\ refs' = [refs EXCEPT ![j] = @ - 1]
  /\ UNCHANGED <<call, pc, next, own, at, signalled, snapshot, ran>>

----------------------------------------------------------------------------

CallerStep ==
  \/ EmptyRange \/ Submit \/ SubmitThrows \/ AllSubmitted
  \/ RunOwn \/ OwnThrows \/ OwnDone
  \/ Waited \/ WaitBusy \/ WaitSnapshot \/ Wake \/ Return

PoolStep(j) == Start(j) \/ RunJob(j) \/ Finish(j) \/ Signal(j) \/ Release(j)

Next == CallerStep \/ \E j \in Jobs : PoolStep(j) \/ Abort(j)

Spec == Init /\ [][Next]_vars

\* The caller is never descheduled for good, and the pool works off its queue.
FairSpec ==
  /\ Spec
  /\ WF_vars(CallerStep)
  /\ WF_vars(\E j \in Jobs : PoolStep(j))

----------------------------------------------------------------------------
(* Properties                                                                *)

TypeOK ==
  /\ call \in Calls
  /\ pc \in {"submit", "own", "wait", "snapshot", "sleep", "returned", "threw"}
  /\ next \in Nat
  /\ own \in Int
  /\ host \in [Jobs -> {"none", "queued", "running", "signal", "release", "done", "aborted"}]
  /\ at \in [Jobs -> Int]
  /\ refs \in [Jobs -> 0..2]
  /\ signalled \in [Jobs -> BOOLEAN]
  /\ snapshot \in BOOLEAN
  /\ ran \in [call.begin..call.end - 1 -> Nat]

\* A job is alive as long as the pool may touch it or the caller still has to
\* wait for it, it is freed once both are through with it, and no job outlives
\* a call that returned, so none runs a body whose frame is gone.  Only an
\* exception leaves such jobs behind.
JobsAreSafe ==
  /\ \A j \in Jobs :
       /\ host[j] \in {"queued", "running", "signal", "release"} => refs[j] > 0
       /\ pc \in {"wait", "snapshot", "sleep"} => refs[j] > 0
       /\ pc \in {"returned", "threw"} /\ host[j] \in {"done", "aborted"} => refs[j] = 0
       /\ pc = "returned" => host[j] \in {"signal", "release", "done"}

\* The call does what its users expect of it, however the range is cut and
\* whichever thread runs a chunk when: every index exactly once, and no return
\* before the last one.
Abstract == INSTANCE ParallelFor WITH returned <- pc = "returned"

ImplementsParallelFor == Abstract!Spec

\* The call comes back unless the pool gives up one of its jobs: no wake-up
\* can be lost for good, although the status is tested before the counter is
\* read.
CallReturns == <>(pc \in {"returned", "threw"} \/ \E j \in Jobs : host[j] = "aborted")
============================================================================
