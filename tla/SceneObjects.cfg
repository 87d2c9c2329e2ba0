SPECIFICATION Spec
CONSTANTS
  Pawns = {p1, p2}
  Objects = {o1, o2}
  Workers = {w1}
  None = None
SYMMETRY Symmetry
INVARIANTS
  DrawsAreSafe
  ObjectsAccounted
  HarmOnlyFromSkippedCallback
  UnloadLeavesOnlyLate
PROPERTIES
  LevelStartsClean
CHECK_DEADLOCK FALSE
