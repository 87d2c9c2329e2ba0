----------------------------- MODULE MCDiagLog -----------------------------
(* Two threads of the host and the one that unloads. *)
EXTENDS DiagLog

CONSTANTS a, b, c

MCWriters == {a, b, c}
============================================================================
