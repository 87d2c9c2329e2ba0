SPECIFICATION Spec
CONSTANTS
  Visited = 2
  Limit = 3
  Size = 4
  Entities = {e1, e2, e3}
  Known = {e1, e2}
  None = None
INVARIANTS
  OneEntryPerIndex
  StaleOnlyFromUnseenRemoval
  MirrorsListOnceSynced
