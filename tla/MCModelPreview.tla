--------------------------- MODULE MCModelPreview ---------------------------
(* Two selections and two workers: a texture of the first can still be on its *)
(* way, twice, when the second is built.                                       *)
EXTENDS ModelPreview
============================================================================
