------------------------------ MODULE MCDetach ------------------------------
(* Two listeners, one index for effects, two types of weather. *)
EXTENDS Detach, TLC

CONSTANTS t1, t2

Symmetry == Permutations({t1, t2})
============================================================================
