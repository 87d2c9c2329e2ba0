SPECIFICATION FairSpec
CONSTANTS
  Pawns = {p1}
  Objects = {o1}
  Workers = {w1}
  None = None
PROPERTIES
  CallbacksReturn
CHECK_DEADLOCK FALSE
