--------------------------- MODULE MCEntityCache ---------------------------
(* Two visited indices, one that is only cached and one that is not, for three *)
(* entities of which two are of a known class.                                 *)
EXTENDS EntityCache
============================================================================
