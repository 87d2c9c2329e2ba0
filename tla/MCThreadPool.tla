--------------------------- MODULE MCThreadPool ----------------------------
(* Ranges of up to five indices that do not start at zero, on a machine with  *)
(* one to three processors, for the three ways a job reports completion.      *)
EXTENDS ThreadPool

MCCalls ==
  LET Shape(op, sizes, mins, hws) ==
        [op : {op}, begin : {2}, end : {2 + n : n \in sizes}, min : mins, hw : hws,
         wait : {"event", "counter", "spin"}]
  IN  Shape("parallel_for", 0..5, {1, 2, 7}, 1..3)
        \cup Shape("run_batch", 0..3, {1}, {1}) \cup Shape("run_sync", {1}, {1}, {1})
============================================================================
