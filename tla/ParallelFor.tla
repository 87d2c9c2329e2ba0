---------------------------- MODULE ParallelFor ----------------------------
(***************************************************************************)
(* What a caller of threadpool::parallel_for, run_batch or run_sync relies *)
(* on: the body is run once on every index of the range, in any order, and *)
(* the call comes back only when all of them have run.                     *)
(***************************************************************************)
EXTENDS Naturals

VARIABLES
  ran,      \* how often the body ran on each index of the range
  returned  \* the call is back

Init ==
  /\ ran = [i \in DOMAIN ran |-> 0]
  /\ returned = FALSE

RunIndex(i) ==
  /\ ran[i] = 0 /\ ~returned
  /\ ran' = [ran EXCEPT ![i] = 1]
  /\ UNCHANGED returned

Return ==
  /\ ~returned /\ \A i \in DOMAIN ran : ran[i] = 1
  /\ returned' = TRUE
  /\ UNCHANGED ran

Next == Return \/ \E i \in DOMAIN ran : RunIndex(i)

Spec == Init /\ [][Next]_<<ran, returned>>
============================================================================
