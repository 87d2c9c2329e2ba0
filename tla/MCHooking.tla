----------------------------- MODULE MCHooking -----------------------------
(* Two hooks and one of a required pair ask for the same thunk f0 -> f, so    *)
(* they stack: f0 -> f -> h1 -> h2 -> p is one jump more than FollowLimit     *)
(* allows.  n is a pattern that was not found, w a lazy hook, and k is hooked *)
(* but missing from the shutdown list, as level_shutdown is in the code.      *)
EXTENDS Hooking

CONSTANTS f0, f, g, v, w, h1, h2, k, n, p, r, t1, t2, t3, t4, t5

MCFuncs == {f0, f, g, v}
MCHooks == {h1, h2, k, n, p, r, w}
MCLazyHooks == {w}
MCTramps == {t1, t2, t3, t4, t5}
MCGroup == [l \in MCFuncs \cup MCHooks |-> IF l \in {g, r, k} THEN "g" ELSE IF l \in {v, w} THEN "w" ELSE "f"]
MCRequest == [h \in MCHooks |-> CASE h \in {h1, h2, p} -> f0 [] h \in {k, r} -> g [] h = n -> Null [] h = w -> v]
MCThunk == [l \in MCFuncs \cup MCHooks |-> IF l = f0 THEN f ELSE Body]
MCScript == <<[hooks |-> <<h1>>, required |-> FALSE], [hooks |-> <<n>>, required |-> FALSE],
              [hooks |-> <<h2>>, required |-> FALSE], [hooks |-> <<k>>, required |-> FALSE],
              [hooks |-> <<p, r>>, required |-> TRUE]>>
MCShutdownOrder == <<w, p, r, h1, h2>>
============================================================================
