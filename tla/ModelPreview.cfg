SPECIFICATION FairSpec
CONSTANTS
  Workers = {w1, w2}
  MaxRevision = 2
INVARIANTS
  ReferencesBalance
  DrawnViewLives
  ResetLeavesOnlyPassing
PROPERTIES
  LastSelectionIsShown
