------------------------- MODULE ThreadPoolProofs --------------------------
(***************************************************************************)
(* For every range, chunk size, number of processors and kind of job: the  *)
(* chunks partition the range, no job is freed early or leaked, and a call *)
(* implements ParallelFor.                                                 *)
(***************************************************************************)
EXTENDS ThreadPool, TLAPS

----------------------------------------------------------------------------
(* Arithmetic of the cut.                                                    *)

\* Rounding a quotient up.
LEMMA CeilDivBounds ==
  ASSUME NEW a \in Int, NEW c \in Nat \ {0}
  PROVE  /\ CeilDiv(a, c) \in Int
         /\ (CeilDiv(a, c) - 1) * c < a /\ a <= CeilDiv(a, c) * c
         /\ a > 0 => CeilDiv(a, c) > 0
<1> DEFINE q == CeilDiv(a, c)
<1>1. q \in Int /\ c * q <= a + c - 1 /\ a + c - 1 < c * q + c
  BY DEF CeilDiv
<1> HIDE DEF q
<1>2. (q - 1) * c < a /\ a <= q * c
  BY <1>1
<1>3. a > 0 => q > 0
  <2> SUFFICES ASSUME a > 0, q <= 0 PROVE FALSE
    BY <1>1
  <2>1. q * c <= 0 /\ q * c \in Int
    BY <1>1
  <2>2. QED
    BY <1>2, <2>1
<1>4. QED
  BY <1>1, <1>2, <1>3 DEF q

LEMMA CallTypes ==
  ASSUME call \in Calls
  PROVE  /\ call.begin \in Int /\ call.end \in Int /\ call.min \in Int
         /\ call.hw \in Nat \ {0} /\ Total \in Int
BY CallsAssumption DEF Total

\* A chunk has at least one index, and there are as many jobs as it takes to
\* leave the caller the last chunk, or nothing.
LEMMA ChunkCounts ==
  ASSUME call \in Calls
  PROVE  /\ ChunkSize \in Int /\ NumJobs \in Nat
         /\ Total <= 0 => NumJobs = 0
         /\ Total > 0 => ChunkSize > 0 /\ NumJobs * ChunkSize <= Total
                                       /\ Total <= (NumJobs + 1) * ChunkSize
         /\ Total > 0 /\ call.op # "parallel_for" => NumJobs * ChunkSize = Total
<1>1. /\ CeilDiv(Total, call.hw) \in Int
      /\ Total > 0 => CeilDiv(Total, call.hw) > 0
  BY CallTypes, CeilDivBounds
<1>2. ChunkSize \in Int /\ (Total > 0 => ChunkSize > 0)
  BY <1>1, CallTypes DEF ChunkSize
<1>3. CASE Total <= 0
  BY <1>2, <1>3, CallTypes DEF NumJobs
<1>4. CASE Total > 0
  <2>1. /\ NumChunks \in Int /\ NumChunks > 0
        /\ (NumChunks - 1) * ChunkSize < Total /\ Total <= NumChunks * ChunkSize
    BY <1>2, <1>4, CallTypes, CeilDivBounds DEF NumChunks
  <2>2. CASE call.op = "parallel_for"
    <3>1. NumJobs = NumChunks - 1
      BY <1>4, <2>2, CallTypes DEF NumJobs
    <3>2. NumJobs + 1 = NumChunks
      BY <2>1, <3>1
    <3>3. QED
      BY <1>2, <1>4, <2>1, <2>2, <3>1, <3>2, CallTypes
  <2>3. CASE call.op # "parallel_for"
    <3>1. NumJobs = NumChunks /\ ChunkSize = 1
      BY <1>4, <2>3, CallTypes DEF NumJobs, ChunkSize
    <3>2. NumJobs = Total
      BY <2>1, <3>1, CallTypes
    <3>3. QED
      BY <1>2, <1>4, <2>1, <3>1, <3>2, CallTypes
  <2>4. QED
    BY <2>2, <2>3
<1>5. QED
  BY <1>3, <1>4, CallTypes

\* The chunks of the jobs follow one another and the caller's own chunk
\* follows the last of them.
LEMMA ChunkBounds ==
  ASSUME call \in Calls
  PROVE  /\ \A k \in Jobs : Lo(k) \in Int /\ Hi(k) \in Int /\ call.begin <= Lo(k)
                            /\ Lo(k) < Hi(k) /\ Hi(k) <= Lo(NumJobs)
         /\ \A k, l \in Jobs : k < l => Hi(k) <= Lo(l)
         /\ Lo(NumJobs) \in Int /\ call.begin <= Lo(NumJobs)
         /\ Total > 0 => Lo(NumJobs) <= call.end
<1> DEFINE c == ChunkSize
<1>0. c \in Int /\ NumJobs \in Nat /\ call.begin \in Int /\ call.end \in Int /\ Total = call.end - call.begin
  BY ChunkCounts, CallTypes DEF Total
<1>1. CASE Total <= 0
  BY <1>0, <1>1, ChunkCounts DEF Jobs, Lo
<1>2. CASE Total > 0
  <2>1. c > 0 /\ NumJobs * c <= Total
    BY <1>2, ChunkCounts
  <2> HIDE DEF c
  <2>2. \A k, l \in Nat : k < l => k * c + c <= l * c
    BY <1>0, <2>1
  <2>3. \A k \in Nat : Lo(k) = call.begin + k * c /\ 0 <= k * c /\ k * c \in Int
    BY <1>0, <2>1 DEF Lo, c
  <2>4. Lo(NumJobs) \in Int /\ call.begin <= Lo(NumJobs) /\ Lo(NumJobs) <= call.end
    BY <1>0, <2>1, <2>3
  <2>5. \A k \in Jobs : k \in Nat /\ k < NumJobs
    BY <1>0 DEF Jobs
  <2>6. \A k \in Jobs : Hi(k) = Lo(k) + c
    <3> TAKE k \in Jobs
    <3>1. k * c + c <= NumJobs * c /\ k * c \in Int /\ NumJobs * c \in Int
      BY <1>0, <2>1, <2>2, <2>5
    <3>2. Lo(k) = call.begin + k * c /\ Lo(NumJobs) = call.begin + NumJobs * c
      BY <1>0, <2>3, <2>5
    <3>3. Lo(k) + c <= Lo(NumJobs) /\ Lo(k) + c \in Int
      BY <1>0, <3>1, <3>2
    <3>4. Hi(k) = IF Lo(k) + c < call.end THEN Lo(k) + c ELSE call.end
      BY DEF Hi, c
    <3>5. QED
      BY <1>0, <2>4, <3>3, <3>4
  <2>7. \A k \in Jobs : Hi(k) <= Lo(NumJobs)
    <3> TAKE k \in Jobs
    <3>1. k * c + c <= NumJobs * c /\ k * c \in Int /\ NumJobs * c \in Int
      BY <1>0, <2>1, <2>2, <2>5
    <3>2. QED
      BY <1>0, <2>3, <2>5, <2>6, <3>1
  <2>8. \A k, l \in Jobs : k < l => Hi(k) <= Lo(l)
    <3> SUFFICES ASSUME NEW k \in Jobs, NEW l \in Jobs, k < l PROVE Hi(k) <= Lo(l)
      OBVIOUS
    <3>1. k * c + c <= l * c /\ k * c \in Int /\ l * c \in Int
      BY <1>0, <2>1, <2>2, <2>5
    <3>2. QED
      BY <1>0, <2>3, <2>5, <2>6, <3>1
  <2>9. \A k \in Jobs : Lo(k) \in Int /\ Hi(k) \in Int /\ call.begin <= Lo(k) /\ Lo(k) < Hi(k)
    BY <1>0, <2>1, <2>3, <2>5, <2>6
  <2>10. QED
    BY <2>4, <2>7, <2>8, <2>9
<1>3. QED
  BY <1>0, <1>1, <1>2

\* An index below the caller's chunk is in the chunk of a job.
LEMMA ChunkOfIndex ==
  ASSUME call \in Calls, NEW i \in call.begin..call.end - 1, i < Lo(NumJobs)
  PROVE  \E k \in Jobs : Lo(k) <= i /\ i < Hi(k)
<1> DEFINE c == ChunkSize
           k == (i - call.begin) \div c
<1>0. /\ c \in Int /\ NumJobs \in Nat /\ call.begin \in Int /\ call.end \in Int /\ i \in Int
      /\ Total = call.end - call.begin /\ Total > 0
  BY ChunkCounts, CallTypes DEF Total
<1>1. c > 0 /\ i < call.begin + NumJobs * c
  BY <1>0, ChunkCounts DEF Lo
<1> HIDE DEF c
<1>2. k \in Int /\ c * k <= i - call.begin /\ i - call.begin < c * k + c
  <2>1. \A a \in Int : a \div c \in Int /\ c * (a \div c) <= a /\ a < c * (a \div c) + c
    BY <1>0, <1>1
  <2>2. i - call.begin \in Int
    BY <1>0
  <2>3. QED
    BY <2>1, <2>2
<1> HIDE DEF k
<1>3. k >= 0
  BY <1>0, <1>1, <1>2
<1>4. k < NumJobs
  <2> SUFFICES ASSUME k >= NumJobs PROVE FALSE
    BY <1>0, <1>2
  <2>1. c * k >= NumJobs * c
    BY <1>0, <1>1, <1>2
  <2>2. QED
    BY <1>0, <1>1, <1>2, <2>1
<1>5. k \in Jobs
  BY <1>0, <1>2, <1>3, <1>4 DEF Jobs
<1>6. Lo(k) = call.begin + k * c /\ Lo(k) <= i /\ i < Lo(k) + c
  BY <1>0, <1>1, <1>2 DEF Lo, c
<1>7. i < Hi(k)
  BY <1>0, <1>6 DEF Hi, c
<1>8. QED
  BY <1>5, <1>6, <1>7

----------------------------------------------------------------------------
(* The inductive invariant.                                                  *)

Waiting == pc \in {"wait", "snapshot", "sleep"}

\* Whether the caller has a handle to a job, and the pool a reference.
Handle(j) == Waiting \/ pc = "own" \/ (pc = "submit" /\ j < next)
Pooled(j) == host[j] \in {"queued", "running", "signal", "release"}

JobCounted(j) == refs[j] = (IF Handle(j) THEN 1 ELSE 0) + (IF Pooled(j) THEN 1 ELSE 0)

RefsCounted == \A j \in Jobs : JobCounted(j)

JobProgress(j) ==
  /\ pc = "submit" => (host[j] = "none" <=> j >= next)
  /\ Waiting \/ pc = "own" => host[j] # "none"
  /\ Waiting /\ j < next => Idle(j)
  /\ pc = "returned" => Idle(j)
  /\ signalled[j] => host[j] \in {"release", "done"}
  /\ host[j] = "running" => Lo(j) <= at[j] /\ at[j] <= Hi(j)

Caller ==
  /\ next <= NumJobs
  /\ pc = "own" => next = NumJobs
  /\ pc \in {"snapshot", "sleep"} => next < NumJobs
  /\ Lo(NumJobs) <= own
  /\ Total > 0 => own <= call.end
  /\ Total > 0 /\ (Waiting \/ pc = "returned") => own = call.end

Progress == Caller /\ \A j \in Jobs : JobProgress(j)

\* How often the body ran, from where the jobs and the caller are.
Chunk(j) == Lo(j)..Hi(j) - 1

JobRan(j) ==
  \A i \in Chunk(j) : ran[i] = IF Idle(j) \/ (host[j] = "running" /\ i < at[j]) THEN 1 ELSE 0

RanByJobs == \A j \in Jobs : JobRan(j)

RanByCaller ==
  \A i \in Lo(NumJobs)..call.end - 1 : ran[i] = IF i < own THEN 1 ELSE 0

IInv == TypeOK /\ RefsCounted /\ Progress /\ RanByJobs /\ RanByCaller

----------------------------------------------------------------------------
(* Facts used by every step.                                                 *)

LEMMA CallFixed ==
  ASSUME call' = call
  PROVE  /\ Jobs' = Jobs /\ NumJobs' = NumJobs /\ Total' = Total
         /\ Lo(NumJobs)' = Lo(NumJobs)
         /\ \A k : Lo(k)' = Lo(k) /\ Hi(k)' = Hi(k) /\ Chunk(k)' = Chunk(k)
BY DEF Jobs, NumJobs, NumChunks, ChunkSize, CeilDiv, Total, Lo, Hi, Chunk

\* What is left to show of the two larger parts when the call stays the same.
LEMMA TypeNext ==
  ASSUME TypeOK, call' = call,
         pc' \in {"submit", "own", "wait", "snapshot", "sleep", "returned", "threw"},
         next' \in Nat, own' \in Int, snapshot' \in BOOLEAN,
         host' \in [Jobs -> {"none", "queued", "running", "signal", "release", "done", "aborted"}],
         at' \in [Jobs -> Int], refs' \in [Jobs -> 0..2], signalled' \in [Jobs -> BOOLEAN],
         ran' \in [call.begin..call.end - 1 -> Nat]
  PROVE  TypeOK'
BY CallFixed DEF TypeOK

LEMMA ProgressNext ==
  ASSUME call' = call, Caller', \A j \in Jobs : JobProgress(j)'
  PROVE  Progress'
BY CallFixed DEF Progress

LEMMA JobFacts ==
  ASSUME call \in Calls
  PROVE  /\ NumJobs \in Nat /\ call.begin \in Int /\ call.end \in Int /\ Total \in Int
         /\ Total = call.end - call.begin
         /\ Jobs \subseteq Nat /\ \A j \in Jobs : j < NumJobs
         /\ \A n \in Nat : n < NumJobs => n \in Jobs
         /\ Jobs # {} => Total > 0
         /\ NumJobs # 0 => Total > 0
BY ChunkCounts, CallTypes DEF Jobs, Total

LEMMA ChunksInRange ==
  ASSUME call \in Calls
  PROVE  /\ \A j \in Jobs : Chunk(j) \subseteq call.begin..call.end - 1
         /\ Lo(NumJobs)..call.end - 1 \subseteq call.begin..call.end - 1
         /\ \A j, k \in Jobs : j # k => Chunk(j) \cap Chunk(k) = {}
         /\ \A j \in Jobs : Chunk(j) \cap (Lo(NumJobs)..call.end - 1) = {}
<1>1. \A j \in Jobs : Chunk(j) \subseteq call.begin..call.end - 1
  BY JobFacts, ChunkBounds DEF Chunk
<1>2. Lo(NumJobs)..call.end - 1 \subseteq call.begin..call.end - 1
  BY JobFacts, ChunkBounds
<1>3. \A j, k \in Jobs : j # k => Chunk(j) \cap Chunk(k) = {}
  <2> SUFFICES ASSUME NEW j \in Jobs, NEW k \in Jobs, j < k
               PROVE  Chunk(j) \cap Chunk(k) = {}
    BY JobFacts
  <2>1. Hi(j) <= Lo(k) /\ Hi(j) \in Int /\ Lo(k) \in Int /\ Lo(j) \in Int /\ Hi(k) \in Int
    BY ChunkBounds
  <2>2. QED
    BY <2>1 DEF Chunk
<1>4. \A j \in Jobs : Chunk(j) \cap (Lo(NumJobs)..call.end - 1) = {}
  BY JobFacts, ChunkBounds DEF Chunk
<1>5. QED
  BY <1>1, <1>2, <1>3, <1>4

\* A step that runs no body and moves no job in or out of its running phase
\* keeps the account of what has been run.
LEMMA KeepsRan ==
  ASSUME IInv, UNCHANGED <<call, ran, own, at>>,
         \A j \in Jobs : /\ host'[j] \in {"signal", "release", "done"} <=> Idle(j)
                         /\ host'[j] = "running" <=> host[j] = "running"
  PROVE  RanByJobs' /\ RanByCaller'
<1>1. RanByJobs'
  BY CallFixed DEF IInv, RanByJobs, JobRan, Idle
<1>2. RanByCaller'
  BY CallFixed DEF IInv, RanByCaller
<1>3. QED
  BY <1>1, <1>2

LEMMA InitEstablishes == Init => IInv
<1> SUFFICES ASSUME Init PROVE IInv
  OBVIOUS
<1> USE DEF Init
<1>1. TypeOK
  <2>1. call.begin \in Int /\ own \in Int
    BY JobFacts, ChunkBounds
  <2>2. at \in [Jobs -> Int] /\ refs \in [Jobs -> 0..2]
    BY <2>1
  <2>3. QED
    BY <2>1, <2>2 DEF TypeOK
<1>2. RefsCounted
  BY DEF RefsCounted, JobCounted, Handle, Pooled, Waiting, Jobs
<1>3. Progress
  BY JobFacts, ChunkBounds DEF Progress, Caller, JobProgress, Waiting, Jobs
<1>4. RanByJobs
  BY ChunksInRange DEF RanByJobs, JobRan, Idle
<1>5. RanByCaller
  <2> SUFFICES ASSUME NEW i \in Lo(NumJobs)..call.end - 1 PROVE ran[i] = 0 /\ ~(i < own)
    BY DEF RanByCaller
  <2>1. QED
    BY ChunksInRange, ChunkBounds, JobFacts
<1>6. QED
  BY <1>1, <1>2, <1>3, <1>4, <1>5 DEF IInv

----------------------------------------------------------------------------
(* One lemma per step of the caller.                                         *)

LEMMA EmptyRangeStep == ASSUME IInv, EmptyRange PROVE IInv'
<1> USE DEF IInv, EmptyRange
<1>0. Jobs = {} /\ Total <= 0 /\ Total \in Int
  BY JobFacts DEF TypeOK
<1>1. TypeOK'
  BY CallFixed DEF TypeOK
<1>2. RefsCounted'
  BY <1>0, CallFixed DEF RefsCounted, JobCounted
<1>3. Progress'
  BY <1>0, CallFixed DEF Progress, Caller, JobProgress, Waiting
<1>4. QED
  BY <1>1, <1>2, <1>3, KeepsRan DEF Idle

LEMMA SubmitStep == ASSUME IInv, Submit PROVE IInv'
<1> USE DEF IInv, Submit
<1>0. next \in Jobs /\ host[next] = "none" /\ next \in Nat /\ NumJobs \in Nat /\ Jobs \subseteq Nat
  BY JobFacts DEF TypeOK, Progress, Caller, JobProgress
<1>1. TypeOK'
  <2>1. host' \in [Jobs -> {"none", "queued", "running", "signal", "release", "done", "aborted"}]
    BY <1>0 DEF TypeOK
  <2>2. refs' \in [Jobs -> 0..2]
    BY <1>0 DEF TypeOK
  <2>3. QED
    <3>1. /\ call' = call /\ pc' = pc /\ next' \in Nat /\ own' = own /\ at' = at
          /\ signalled' = signalled /\ snapshot' = snapshot /\ ran' = ran /\ TypeOK
      BY <1>0
    <3> HIDE DEF IInv, Submit
    <3>2. QED
      BY <2>1, <2>2, <3>1, TypeNext DEF TypeOK
<1>a. /\ host'[next] = "queued" /\ refs'[next] = 2
      /\ \A j \in Jobs \ {next} : host'[j] = host[j] /\ refs'[j] = refs[j]
  BY <1>0 DEF TypeOK
<1>2. RefsCounted'
  <2> SUFFICES ASSUME NEW j \in Jobs
               PROVE  refs'[j] = (IF Handle(j)' THEN 1 ELSE 0) + (IF Pooled(j)' THEN 1 ELSE 0)
    BY CallFixed DEF RefsCounted, JobCounted
  <2>1. CASE j = next
    BY <1>0, <1>a, <2>1 DEF Handle, Pooled, Waiting
  <2>2. CASE j # next
    <3>1. (Handle(j)' <=> Handle(j)) /\ (Pooled(j)' <=> Pooled(j))
      BY <1>0, <1>a, <2>2 DEF Handle, Pooled, Waiting
    <3>2. QED
      BY <1>a, <2>2, <3>1 DEF RefsCounted, JobCounted
  <2>3. QED
    BY <2>1, <2>2
<1>3. Progress'
  <2>1. \A j \in Jobs : JobProgress(j)'
    <3> TAKE j \in Jobs
    <3>1. Lo(j)' = Lo(j) /\ Hi(j)' = Hi(j)
      BY CallFixed
    <3>2. QED
      BY <1>0, <1>a, <3>1 DEF Progress, JobProgress, Waiting
  <2>2. Caller'
    BY <1>0, CallFixed DEF Progress, Caller, Waiting
  <2>3. QED
    BY <2>1, <2>2, ProgressNext
<1>4. QED
  BY <1>0, <1>1, <1>2, <1>3, KeepsRan DEF Idle, TypeOK

LEMMA UnwindStep == ASSUME IInv, SubmitThrows \/ OwnThrows PROVE IInv'
<1> USE DEF IInv, SubmitThrows, OwnThrows, Unwind
<1>0. \A j \in Jobs : Handle(j) <=> j < next
  BY JobFacts DEF Handle, Waiting, Progress, Caller, JobProgress, TypeOK
<1>1. \A j \in Jobs : refs'[j] = IF Pooled(j) THEN 1 ELSE 0
  <2> TAKE j \in Jobs
  <2>1. refs'[j] = IF j < next THEN refs[j] - 1 ELSE refs[j]
    BY DEF DropHandles
  <2>2. refs[j] = (IF j < next THEN 1 ELSE 0) + (IF Pooled(j) THEN 1 ELSE 0)
    BY <1>0 DEF RefsCounted, JobCounted
  <2> HIDE DEF IInv, SubmitThrows, OwnThrows
  <2>3. QED
    BY <2>1, <2>2
<1>2. TypeOK'
  <2>1. refs' \in [Jobs -> 0..2]
    <3>1. DOMAIN refs' = Jobs /\ refs' = [j \in Jobs |-> refs'[j]]
      BY DEF DropHandles
    <3>2. \A j \in Jobs : refs'[j] \in 0..2
      BY <1>1
    <3>3. QED
      BY <3>1, <3>2
  <2>2. QED
    BY <2>1, CallFixed DEF TypeOK
<1>3. RefsCounted'
  BY <1>1, CallFixed DEF RefsCounted, JobCounted, Handle, Pooled, Waiting
<1>4. Progress'
  BY CallFixed DEF Progress, Caller, JobProgress, Waiting
<1>5. QED
  BY <1>2, <1>3, <1>4, KeepsRan DEF Idle

LEMMA AllSubmittedStep == ASSUME IInv, AllSubmitted PROVE IInv'
<1> USE DEF IInv, AllSubmitted
<1>0. NumJobs \in Nat /\ \A j \in Jobs : host[j] # "none" /\ j < next /\ j \in Nat
  BY JobFacts DEF TypeOK, Progress, Caller, JobProgress
<1>1. TypeOK'
  BY CallFixed DEF TypeOK
<1>2. RefsCounted'
  BY <1>0, CallFixed DEF RefsCounted, JobCounted, Handle, Pooled, Waiting
<1>3. call.op # "parallel_for" => own = call.end
  <2>1. call.op # "parallel_for" => Lo(NumJobs) = call.end
    BY ChunkCounts, JobFacts DEF TypeOK, Lo
  <2>2. QED
    BY <2>1, JobFacts DEF TypeOK, Progress, Caller, JobProgress
<1>4. Progress'
  <2>1. \A j \in Jobs : JobProgress(j)'
    <3> TAKE j \in Jobs
    <3>1. Lo(j)' = Lo(j) /\ Hi(j)' = Hi(j)
      BY CallFixed
    <3>2. QED
      BY <1>0, <3>1 DEF Progress, JobProgress, Waiting, Idle
  <2>2. Caller'
    BY <1>0, <1>3, CallFixed DEF Progress, Caller, Waiting
  <2>3. QED
    BY <2>1, <2>2, ProgressNext
<1>5. QED
  BY <1>1, <1>2, <1>4, KeepsRan DEF Idle

LEMMA RunOwnStep == ASSUME IInv, RunOwn PROVE IInv'
<1> USE DEF IInv, RunOwn, RunBody
<1>0. own \in Lo(NumJobs)..call.end - 1 /\ own \in call.begin..call.end - 1 /\ own \in Int
  BY JobFacts, ChunkBounds DEF TypeOK, Progress, Caller, JobProgress
<1>1. ran' = [ran EXCEPT ![own] = 1]
  <2>1. ran[own] = 0 /\ ran' = [ran EXCEPT ![own] = ran[own] + 1]
    BY <1>0 DEF RanByCaller
  <2> HIDE DEF IInv, RunOwn, RunBody
  <2>2. QED
    BY <2>1
<1>2. TypeOK'
  BY <1>0, <1>1, CallFixed DEF TypeOK
<1>3. RefsCounted'
  BY CallFixed DEF RefsCounted, JobCounted, Handle, Pooled, Waiting
<1>4. Progress'
  BY <1>0, CallFixed, JobFacts, ChunkBounds DEF Progress, Caller, JobProgress, Waiting, TypeOK, Idle
<1>5. RanByJobs'
  <2> SUFFICES ASSUME NEW j \in Jobs, NEW i \in Chunk(j) PROVE ran'[i] = ran[i]
    BY CallFixed DEF RanByJobs, JobRan, Idle
  <2>1. i # own /\ i \in call.begin..call.end - 1
    BY <1>0, ChunksInRange DEF TypeOK
  <2>2. QED
    BY <1>1, <2>1 DEF TypeOK
<1>6. RanByCaller'
  <2> SUFFICES ASSUME NEW i \in Lo(NumJobs)..call.end - 1
               PROVE  ran'[i] = IF i < own + 1 THEN 1 ELSE 0
    BY CallFixed DEF RanByCaller
  <2>1. i \in call.begin..call.end - 1 /\ i \in Int
    BY ChunksInRange, ChunkBounds, JobFacts DEF TypeOK
  <2>2. ran[i] = IF i < own THEN 1 ELSE 0
    BY DEF RanByCaller
  <2>3. QED
    BY <1>0, <1>1, <2>1, <2>2 DEF TypeOK
<1>7. QED
  BY <1>2, <1>3, <1>4, <1>5, <1>6

LEMMA OwnDoneStep == ASSUME IInv, OwnDone PROVE IInv'
<1> USE DEF IInv, OwnDone
<1>1. TypeOK'
  BY CallFixed DEF TypeOK
<1>2. RefsCounted'
  BY CallFixed DEF RefsCounted, JobCounted, Handle, Pooled, Waiting
<1>3. Progress'
  BY CallFixed, JobFacts DEF Progress, Caller, JobProgress, Waiting, TypeOK, Idle
<1>4. QED
  BY <1>1, <1>2, <1>3, KeepsRan DEF Idle

LEMMA WaitStep == ASSUME IInv, Waited \/ WaitBusy \/ WaitSnapshot \/ Wake PROVE IInv'
<1> USE DEF IInv, Waited, WaitBusy, WaitSnapshot, Wake
<1>0. Waiting /\ Waiting' /\ (Waited => Idle(next))
  <2>1. Waited => next \in Jobs
    BY JobFacts DEF TypeOK
  <2>2. QED
    BY <2>1 DEF Waiting, Idle, Progress, Caller, JobProgress
<1>1. TypeOK'
  <2>1. WaitSnapshot => next \in Jobs
    BY JobFacts DEF TypeOK, Progress, Caller, JobProgress
  <2>2. QED
    BY <2>1, CallFixed DEF TypeOK
<1>2. RefsCounted'
  BY <1>0, CallFixed DEF RefsCounted, JobCounted, Handle, Pooled, Waiting
<1>3. Progress'
  BY <1>0, CallFixed, JobFacts DEF Progress, Caller, JobProgress, Waiting, TypeOK, Idle
<1>4. QED
  BY <1>1, <1>2, <1>3, KeepsRan DEF Idle

LEMMA ReturnStep == ASSUME IInv, Return PROVE IInv'
<1> USE DEF IInv, Return
<1>0. \A j \in Jobs : j < next /\ Idle(j) /\ Handle(j)
  BY JobFacts DEF Progress, Caller, JobProgress, Waiting, Handle, TypeOK
<1>1. \A j \in Jobs : refs'[j] = IF Pooled(j) THEN 1 ELSE 0
  BY <1>0, CallFixed DEF DropHandles, RefsCounted, JobCounted, TypeOK
<1>2. TypeOK'
  <2>1. refs' \in [Jobs -> 0..2]
    <3>1. DOMAIN refs' = Jobs /\ refs' = [j \in Jobs |-> refs'[j]]
      BY DEF DropHandles
    <3>2. \A j \in Jobs : refs'[j] \in 0..2
      BY <1>1
    <3>3. QED
      BY <3>1, <3>2
  <2>2. QED
    BY <2>1, CallFixed DEF TypeOK
<1>3. RefsCounted'
  BY <1>1, CallFixed DEF RefsCounted, JobCounted, Handle, Pooled, Waiting
<1>4. Progress'
  BY <1>0, CallFixed DEF Progress, Caller, JobProgress, Waiting, Idle
<1>5. QED
  BY <1>2, <1>3, <1>4, KeepsRan DEF Idle

----------------------------------------------------------------------------
(* The steps of the pool: each concerns one job.                             *)

LEMMA PoolFrame ==
  ASSUME IInv, NEW j \in Jobs, UNCHANGED <<call, pc, next, own, snapshot>>,
         host' \in [Jobs -> {"none", "queued", "running", "signal", "release", "done", "aborted"}],
         at' \in [Jobs -> Int], refs' \in [Jobs -> 0..2], signalled' \in [Jobs -> BOOLEAN],
         ran' \in [call.begin..call.end - 1 -> Nat],
         \A k \in Jobs \ {j} : /\ host'[k] = host[k] /\ at'[k] = at[k]
                               /\ refs'[k] = refs[k] /\ signalled'[k] = signalled[k],
         JobCounted(j)', JobProgress(j)'
  PROVE  /\ TypeOK' /\ RefsCounted' /\ Progress'
         /\ ran' = ran /\ JobRan(j)' => IInv'
<1>1. TypeOK'
  <2>1. pc' \in {"submit", "own", "wait", "snapshot", "sleep", "returned", "threw"}
        /\ next' \in Nat /\ own' \in Int /\ snapshot' \in BOOLEAN
    BY DEF IInv, TypeOK
  <2>2. QED
    BY <2>1, TypeNext DEF IInv
<1>2. RefsCounted'
  <2> SUFFICES ASSUME NEW k \in Jobs, k # j PROVE JobCounted(k)'
    BY CallFixed DEF RefsCounted
  <2>1. QED
    BY DEF IInv, RefsCounted, JobCounted, Handle, Pooled, Waiting
<1>3. Progress'
  <2>1. Caller'
    BY CallFixed DEF IInv, Progress, Caller, Waiting
  <2>2. \A k \in Jobs : k # j => JobProgress(k)'
    BY CallFixed DEF IInv, Progress, JobProgress, Waiting, Idle
  <2>3. QED
    BY <2>1, <2>2, ProgressNext
<1>4. ASSUME ran' = ran, JobRan(j)' PROVE RanByJobs' /\ RanByCaller'
  <2>1. \A k \in Jobs : k # j => JobRan(k)'
    BY <1>4, CallFixed DEF IInv, RanByJobs, JobRan, Idle
  <2>2. RanByCaller'
    BY <1>4, CallFixed DEF IInv, RanByCaller
  <2>3. QED
    BY <1>4, <2>1, <2>2, CallFixed DEF RanByJobs
<1>5. QED
  BY <1>1, <1>2, <1>3, <1>4 DEF IInv

LEMMA StartStep == ASSUME IInv, NEW j \in Jobs, Start(j) PROVE IInv'
<1> USE DEF IInv, Start
<1>1. /\ Lo(j)' = Lo(j) /\ Hi(j)' = Hi(j) /\ Chunk(j)' = Chunk(j)
      /\ Lo(j) \in Int /\ Hi(j) \in Int /\ Lo(j) < Hi(j)
  BY CallFixed, ChunkBounds DEF TypeOK
<1>2. host'[j] = "running" /\ at'[j] = Lo(j) /\ signalled'[j] = signalled[j] /\ refs'[j] = refs[j]
  BY DEF TypeOK
<1>3. JobCounted(j)' /\ JobProgress(j)'
  BY <1>1, <1>2 DEF RefsCounted, JobCounted, Handle, Pooled, Waiting, Progress, JobProgress, Idle
<1>4. JobRan(j)'
  BY <1>1, <1>2 DEF RanByJobs, JobRan, Idle, Chunk
<1>5. QED
  BY <1>1, <1>3, <1>4, PoolFrame DEF TypeOK

LEMMA FinishStep == ASSUME IInv, NEW j \in Jobs, Finish(j) PROVE IInv'
<1> USE DEF IInv, Finish
<1>1. /\ Lo(j)' = Lo(j) /\ Hi(j)' = Hi(j) /\ Chunk(j)' = Chunk(j)
      /\ Lo(j) \in Int /\ Hi(j) \in Int /\ at[j] \in Int
  BY CallFixed, ChunkBounds DEF TypeOK
<1>2. host'[j] = "signal" /\ signalled'[j] = signalled[j] /\ refs'[j] = refs[j]
  BY DEF TypeOK
<1>3. JobCounted(j)' /\ JobProgress(j)'
  BY <1>1, <1>2 DEF RefsCounted, JobCounted, Handle, Pooled, Waiting, Progress, JobProgress, Idle
<1>4. JobRan(j)'
  BY <1>1, <1>2 DEF RanByJobs, JobRan, Idle, Chunk
<1>5. QED
  BY <1>3, <1>4, PoolFrame DEF TypeOK

LEMMA SignalStep == ASSUME IInv, NEW j \in Jobs, Signal(j) PROVE IInv'
<1> USE DEF IInv, Signal
<1>1. Lo(j)' = Lo(j) /\ Hi(j)' = Hi(j) /\ Chunk(j)' = Chunk(j)
  BY CallFixed
<1>2. host'[j] = "release" /\ signalled'[j] = TRUE /\ refs'[j] = refs[j]
  BY DEF TypeOK
<1>3. JobCounted(j)' /\ JobProgress(j)'
  BY <1>1, <1>2 DEF RefsCounted, JobCounted, Handle, Pooled, Waiting, Progress, JobProgress, Idle
<1>4. JobRan(j)'
  BY <1>1, <1>2 DEF RanByJobs, JobRan, Idle
<1>5. QED
  BY <1>3, <1>4, PoolFrame DEF TypeOK

LEMMA ReleaseStep == ASSUME IInv, NEW j \in Jobs, Release(j) PROVE IInv'
<1> USE DEF IInv, Release
<1>1. Lo(j)' = Lo(j) /\ Hi(j)' = Hi(j) /\ Chunk(j)' = Chunk(j)
  BY CallFixed
<1>2. refs[j] = (IF Handle(j) THEN 1 ELSE 0) + 1
  BY DEF RefsCounted, JobCounted, Pooled
<1>3. /\ host'[j] = "done" /\ signalled'[j] = signalled[j]
      /\ refs'[j] = IF Handle(j) THEN 1 ELSE 0
      /\ refs' \in [Jobs -> 0..2]
  BY <1>2 DEF TypeOK
<1>4. JobCounted(j)' /\ JobProgress(j)'
  BY <1>1, <1>3 DEF JobCounted, Handle, Pooled, Waiting, Progress, JobProgress, Idle
<1>5. JobRan(j)'
  BY <1>1, <1>3 DEF RanByJobs, JobRan, Idle
<1>6. QED
  BY <1>3, <1>4, <1>5, PoolFrame DEF TypeOK

LEMMA AbortStep == ASSUME IInv, NEW j \in Jobs, Abort(j) PROVE IInv'
<1> USE DEF IInv, Abort
<1>1. Lo(j)' = Lo(j) /\ Hi(j)' = Hi(j) /\ Chunk(j)' = Chunk(j)
  BY CallFixed
<1>2. refs[j] = (IF Handle(j) THEN 1 ELSE 0) + 1
  BY DEF RefsCounted, JobCounted, Pooled
<1>3. /\ host'[j] = "aborted" /\ signalled'[j] = signalled[j]
      /\ refs'[j] = IF Handle(j) THEN 1 ELSE 0
      /\ refs' \in [Jobs -> 0..2]
  BY <1>2 DEF TypeOK
<1>4. JobCounted(j)' /\ JobProgress(j)'
  BY <1>1, <1>3 DEF JobCounted, Handle, Pooled, Waiting, Progress, JobProgress, Idle
<1>5. JobRan(j)'
  BY <1>1, <1>3 DEF RanByJobs, JobRan, Idle
<1>6. QED
  BY <1>3, <1>4, <1>5, PoolFrame DEF TypeOK

LEMMA RunJobStep ==
  ASSUME IInv, NEW j \in Jobs, RunJob(j)
  PROVE  IInv' /\ ran[at[j]] = 0 /\ at[j] \in DOMAIN ran
<1> DEFINE i == at[j]
<1>1. /\ host[j] = "running" /\ i < Hi(j) /\ UNCHANGED <<call, pc, next, own, host, refs, signalled, snapshot>>
      /\ ran' = [ran EXCEPT ![i] = @ + 1] /\ at' = [at EXCEPT ![j] = i + 1]
  BY DEF RunJob, RunBody
<1>2. /\ Lo(j)' = Lo(j) /\ Hi(j)' = Hi(j) /\ Chunk(j)' = Chunk(j)
      /\ Lo(j) \in Int /\ Hi(j) \in Int /\ i \in Int /\ Lo(j) <= i
  BY <1>1, CallFixed, ChunkBounds DEF IInv, TypeOK, Progress, JobProgress
<1>3. i \in Chunk(j) /\ i \in call.begin..call.end - 1
  BY <1>1, <1>2, ChunksInRange DEF Chunk, IInv, TypeOK
<1>4. ran[i] = 0 /\ ran \in [call.begin..call.end - 1 -> Nat]
  BY <1>1, <1>2, <1>3 DEF IInv, TypeOK, RanByJobs, JobRan, Idle
<1> HIDE DEF i
<1>5. /\ ran' \in [call.begin..call.end - 1 -> Nat] /\ ran'[i] = 1
      /\ \A k \in call.begin..call.end - 1 : k # i => ran'[k] = ran[k]
  BY <1>1, <1>3, <1>4
<1>6. at' \in [Jobs -> Int] /\ at'[j] = i + 1 /\ \A k \in Jobs : k # j => at'[k] = at[k]
  BY <1>1, <1>2 DEF IInv, TypeOK
<1>7. JobCounted(j)' /\ JobProgress(j)'
  BY <1>1, <1>2, <1>6 DEF IInv, RefsCounted, JobCounted, Handle, Pooled, Waiting, Progress, JobProgress, Idle
<1>8. TypeOK' /\ RefsCounted' /\ Progress'
  BY <1>1, <1>5, <1>6, <1>7, PoolFrame DEF IInv, TypeOK
<1>9. RanByJobs'
  <2>1. JobRan(j)'
    <3> SUFFICES ASSUME NEW n \in Chunk(j) PROVE ran'[n] = IF n < i + 1 THEN 1 ELSE 0
      BY <1>1, <1>2, <1>6 DEF JobRan, Idle
    <3>1. n \in Int /\ n \in call.begin..call.end - 1
      BY <1>2, ChunksInRange DEF Chunk, IInv, TypeOK
    <3>2. ran[n] = IF n < i THEN 1 ELSE 0
      BY <1>1 DEF IInv, RanByJobs, JobRan, Idle, i
    <3>3. QED
      BY <1>2, <1>5, <3>1, <3>2
  <2>2. \A k \in Jobs : k # j => JobRan(k)'
    <3> SUFFICES ASSUME NEW k \in Jobs, k # j, NEW n \in Chunk(k) PROVE ran'[n] = ran[n]
      BY <1>1, <1>6, CallFixed DEF IInv, RanByJobs, JobRan, Idle
    <3>1. n # i /\ n \in call.begin..call.end - 1
      BY <1>3, ChunksInRange DEF IInv, TypeOK
    <3>2. QED
      BY <1>5, <3>1
  <2>3. QED
    BY <1>1, <2>1, <2>2, CallFixed DEF RanByJobs
<1>10. RanByCaller'
  <2> SUFFICES ASSUME NEW n \in Lo(NumJobs)..call.end - 1 PROVE ran'[n] = ran[n]
    BY <1>1, CallFixed DEF IInv, RanByCaller
  <2>1. n # i /\ n \in call.begin..call.end - 1
    BY <1>3, ChunksInRange DEF IInv, TypeOK
  <2>2. QED
    BY <1>5, <2>1
<1>11. QED
  BY <1>3, <1>4, <1>8, <1>9, <1>10 DEF IInv, TypeOK, i

LEMMA PoolStepStep == ASSUME IInv, NEW j \in Jobs, PoolStep(j) \/ Abort(j) PROVE IInv'
BY StartStep, RunJobStep, FinishStep, SignalStep, ReleaseStep, AbortStep DEF PoolStep

LEMMA NextPreserves == IInv /\ [Next]_vars => IInv'
<1> SUFFICES ASSUME IInv, [Next]_vars PROVE IInv'
  OBVIOUS
<1>1. ASSUME CallerStep PROVE IInv'
  BY <1>1, EmptyRangeStep, SubmitStep, UnwindStep, AllSubmittedStep, RunOwnStep, OwnDoneStep,
     WaitStep, ReturnStep DEF CallerStep
<1>2. ASSUME NEW j \in Jobs, PoolStep(j) \/ Abort(j) PROVE IInv'
  BY <1>2, PoolStepStep
<1>3. ASSUME UNCHANGED vars PROVE IInv'
  <2>1. TypeOK'
    BY <1>3, CallFixed DEF IInv, TypeOK, vars
  <2>2. RefsCounted' /\ Progress'
    BY <1>3, CallFixed DEF IInv, vars, RefsCounted, JobCounted, Handle, Pooled, Waiting,
                           Progress, Caller, JobProgress, Idle
  <2>3. RanByJobs' /\ RanByCaller'
    BY <1>3, KeepsRan DEF vars, Idle
  <2>4. QED
    BY <2>1, <2>2, <2>3 DEF IInv
<1>4. QED
  BY <1>1, <1>2, <1>3 DEF Next

LEMMA Inductive == Spec => []IInv
BY InitEstablishes, NextPreserves, PTL DEF Spec

----------------------------------------------------------------------------
(* The results.                                                              *)

\* The chunks of the jobs and the caller's own chunk partition the range: no
\* index is left out and none is in two chunks, however the chunk size was rounded.
THEOREM RangeIsCut ==
  ASSUME call \in Calls
  PROVE  /\ \A i \in call.begin..call.end - 1 :
              i \in Lo(NumJobs)..call.end - 1 \/ \E j \in Jobs : i \in Chunk(j)
         /\ \A j \in Jobs : Chunk(j) \subseteq call.begin..call.end - 1
         /\ \A j, k \in Jobs : j # k => Chunk(j) \cap Chunk(k) = {}
         /\ \A j \in Jobs : Chunk(j) \cap (Lo(NumJobs)..call.end - 1) = {}
<1>1. ASSUME NEW i \in call.begin..call.end - 1, i \notin Lo(NumJobs)..call.end - 1
      PROVE  \E j \in Jobs : i \in Chunk(j)
  <2>1. i \in Int /\ Lo(NumJobs) \in Int /\ i < Lo(NumJobs)
    BY <1>1, JobFacts, ChunkBounds
  <2>2. PICK j \in Jobs : Lo(j) <= i /\ i < Hi(j)
    BY <2>1, ChunkOfIndex
  <2>3. i \in Chunk(j)
    BY <2>1, <2>2, ChunkBounds DEF Chunk
  <2>4. QED
    BY <2>3
<1>2. QED
  BY <1>1, ChunksInRange

\* Type correctness; among other things no job is ever counted more than twice.
THEOREM TypeCorrect == Spec => []TypeOK
BY Inductive, PTL DEF IInv

\* No job is freed while the pool or the caller still needs it, none is leaked,
\* and none is left behind by a call that returned.
THEOREM JobsSafe == Spec => []JobsAreSafe
<1>1. IInv => JobsAreSafe
  <2> SUFFICES ASSUME IInv, NEW j \in Jobs
               PROVE  /\ Pooled(j) => refs[j] > 0
                      /\ Waiting => refs[j] > 0
                      /\ pc \in {"returned", "threw"} /\ host[j] \in {"done", "aborted"} => refs[j] = 0
                      /\ pc = "returned" => Idle(j)
    BY DEF JobsAreSafe, Pooled, Waiting, Idle
  <2>1. refs[j] = (IF Handle(j) THEN 1 ELSE 0) + (IF Pooled(j) THEN 1 ELSE 0)
    BY DEF IInv, RefsCounted, JobCounted
  <2>2. Waiting => Handle(j)
    BY DEF Handle
  <2>3. pc \in {"returned", "threw"} /\ host[j] \in {"done", "aborted"} => ~Handle(j) /\ ~Pooled(j)
    BY DEF Handle, Pooled, Waiting
  <2>4. pc = "returned" => Idle(j)
    BY DEF IInv, Progress, JobProgress
  <2>5. QED
    BY <2>1, <2>2, <2>3, <2>4
<1>2. QED
  BY <1>1, Inductive, PTL

\* When the call has returned, or is about to, the body has run on every index.
LEMMA AllHaveRun ==
  ASSUME IInv, pc = "wait" /\ next = NumJobs
  PROVE  \A i \in call.begin..call.end - 1 : ran[i] = 1
<1> SUFFICES ASSUME NEW i \in call.begin..call.end - 1 PROVE ran[i] = 1
  OBVIOUS
<1>0. call \in Calls /\ i \in Int /\ Total > 0
  BY JobFacts DEF IInv, TypeOK
<1>1. CASE i \in Lo(NumJobs)..call.end - 1
  <2>1. own = call.end
    BY <1>0 DEF IInv, Progress, Caller, Waiting
  <2>2. QED
    BY <1>0, <1>1, <2>1, JobFacts DEF IInv, RanByCaller
<1>2. ASSUME NEW j \in Jobs, i \in Chunk(j) PROVE ran[i] = 1
  <2>1. Idle(j)
    BY <1>0, JobFacts DEF IInv, Progress, JobProgress, Waiting
  <2>2. QED
    BY <1>2, <2>1 DEF IInv, RanByJobs, JobRan
<1>3. i \in Lo(NumJobs)..call.end - 1 \/ \E j \in Jobs : i \in Chunk(j)
  BY <1>0, RangeIsCut
<1>4. QED
  BY <1>1, <1>2, <1>3

\* A call implements ParallelFor: every step either runs the body on an index
\* for the first time, or returns when it has run on all of them, or is not
\* visible to the user of the call.
THEOREM Refinement == Spec => ImplementsParallelFor
<1>1. Init => Abstract!Init
  BY DEF Init, Abstract!Init
<1>2. ASSUME IInv, [Next]_vars PROVE [Abstract!Next]_<<ran, pc = "returned">>
  <2>0. DOMAIN ran = call.begin..call.end - 1
    BY <1>2 DEF IInv, TypeOK
  <2>1. ASSUME RunOwn PROVE Abstract!Next
    <3>1. own \in DOMAIN ran /\ ran[own] = 0
      <4>1. own \in Lo(NumJobs)..call.end - 1 /\ own \in Int
        BY <1>2, <2>1, JobFacts, ChunkBounds DEF RunOwn, IInv, TypeOK, Progress, Caller
      <4>2. QED
        BY <1>2, <2>0, <4>1, ChunksInRange DEF IInv, TypeOK, RanByCaller
    <3>2. ran' = [ran EXCEPT ![own] = ran[own] + 1]
      BY <2>1 DEF RunOwn, RunBody
    <3>3. ran' = [ran EXCEPT ![own] = 1]
      BY <3>1, <3>2
    <3>4. pc = "own" /\ pc' = pc
      BY <2>1 DEF RunOwn
    <3>5. Abstract!RunIndex(own)
      BY <3>1, <3>3, <3>4 DEF Abstract!RunIndex
    <3>6. QED
      BY <3>1, <3>5 DEF Abstract!Next
  <2>2. ASSUME NEW j \in Jobs, RunJob(j) PROVE Abstract!Next
    <3>1. at[j] \in DOMAIN ran /\ ran[at[j]] = 0
      BY <1>2, <2>2, RunJobStep
    <3>2. ran' = [ran EXCEPT ![at[j]] = ran[at[j]] + 1]
      BY <2>2 DEF RunJob, RunBody
    <3>3. ran' = [ran EXCEPT ![at[j]] = 1]
      BY <3>1, <3>2
    <3>4. pc # "returned" /\ pc' = pc
      BY <1>2, <2>2 DEF RunJob, IInv, Progress, JobProgress, Idle
    <3>5. Abstract!RunIndex(at[j])
      BY <3>1, <3>3, <3>4 DEF Abstract!RunIndex
    <3>6. QED
      BY <3>1, <3>5 DEF Abstract!Next
  <2>3. ASSUME Return PROVE Abstract!Next
    <3>1. \A i \in DOMAIN ran : ran[i] = 1
      BY <1>2, <2>0, <2>3, AllHaveRun DEF Return
    <3>2. pc = "wait" /\ pc' = "returned" /\ ran' = ran
      BY <2>3 DEF Return
    <3>3. Abstract!Return
      BY <3>1, <3>2 DEF Abstract!Return
    <3>4. QED
      BY <3>3 DEF Abstract!Next
  <2>4. ASSUME EmptyRange PROVE Abstract!Next
    <3>1. DOMAIN ran = {}
      BY <1>2, <2>0, <2>4, JobFacts DEF EmptyRange, IInv, TypeOK
    <3>2. pc = "submit" /\ pc' = "returned" /\ ran' = ran
      BY <2>4 DEF EmptyRange
    <3>3. Abstract!Return
      BY <3>1, <3>2 DEF Abstract!Return
    <3>4. QED
      BY <3>3 DEF Abstract!Next
  <2>5. ASSUME \/ Submit \/ SubmitThrows \/ AllSubmitted \/ OwnThrows \/ OwnDone
               \/ Waited \/ WaitBusy \/ WaitSnapshot \/ Wake
               \/ \E j \in Jobs : Start(j) \/ Finish(j) \/ Signal(j) \/ Release(j) \/ Abort(j)
               \/ UNCHANGED vars
        PROVE  ran' = ran /\ (pc' = "returned" <=> pc = "returned")
    BY <2>5 DEF Submit, SubmitThrows, AllSubmitted, OwnThrows, OwnDone, Unwind, Waited, WaitBusy,
                WaitSnapshot, Wake, Start, Finish, Signal, Release, Abort, vars
  <2>6. QED
    BY <1>2, <2>1, <2>2, <2>3, <2>4, <2>5 DEF Next, CallerStep, PoolStep
<1>3. QED
  BY <1>1, <1>2, Inductive, PTL DEF Spec, ImplementsParallelFor, Abstract!Spec
============================================================================
