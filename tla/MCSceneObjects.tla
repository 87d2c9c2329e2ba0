-------------------------- MODULE MCSceneObjects ---------------------------
(* One or two pawns, with fewer addresses of scene objects than the two maps  *)
(* could hold, so that freed addresses come back.                             *)
EXTENDS SceneObjects, TLC

Symmetry == Permutations(Pawns) \cup Permutations(Objects)
============================================================================
