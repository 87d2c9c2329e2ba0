SPECIFICATION Spec
CONSTANTS
  a = a
  b = b
  h1 = h1
  h2 = h2
  Ours = Ours
  None = None
  Threads <- MCThreads
  HostFilters <- MCHostFilters
  Chaining <- MCChaining
SYMMETRY MCSymmetry
CHECK_DEADLOCK FALSE
INVARIANTS
  LoneCrashReachesHost
  DetachGivesFilterBack
  OneCrashIsReported
  LastCrashIsReported
