--------------------------- MODULE MCHookedCalls ---------------------------
(* Two callers of one function on which two batches stack a hook each; the    *)
(* second batch has a hook on another function after it and may roll back;    *)
(* the list of the shutdown misses that one.                                  *)
EXTENDS HookedCalls, TLC

CONSTANTS f, g, h1, h2, h3, t1, t2, t3, c1, c2

MCFuncs == {f, g}
MCHooks == {h1, h2, h3}
MCTramps == {t1, t2, t3}
MCCallers == {c1, c2}
MCRequest == (h1 :> f) @@ (h2 :> f) @@ (h3 :> g)
MCThunk == [l \in MCFuncs \cup MCHooks |-> Body]
MCGroup == [l \in MCFuncs \cup MCHooks |-> IF l \in {g, h3} THEN "g" ELSE "f"]
MCScript == <<[hooks |-> <<h1>>, required |-> FALSE], [hooks |-> <<h2, h3>>, required |-> TRUE]>>
MCShutdownOrder == <<h2, h1>>
Symmetry == Permutations(MCTramps) \cup Permutations(MCCallers)
============================================================================
