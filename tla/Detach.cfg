SPECIFICATION Spec
CONSTANTS
  MaxListener = 2
  Indices = {1}
  t1 = t1
  t2 = t2
  Types = {t1, t2}
  None = None
INVARIANTS
  HarmOnlyFromOverlap
  ResizesAndSetupAgree
  DetachLeavesNothing
  EffectIsOurs
SYMMETRY Symmetry
