SPECIFICATION CallSpec
CONSTANTS
  f = f g = g h1 = h1 h2 = h2 h3 = h3
  t1 = t1 t2 = t2 t3 = t3 c1 = c1 c2 = c2
  Body = Body Null = Null
  Funcs <- MCFuncs
  Hooks <- MCHooks
  LazyHooks = {}
  Tramps <- MCTramps
  Callers <- MCCallers
  Request <- MCRequest
  Thunk <- MCThunk
  Group <- MCGroup
  Script <- MCScript
  ShutdownOrder <- MCShutdownOrder
  FollowLimit = 8
SYMMETRY Symmetry
INVARIANTS
  CallsAreExact
  HarmOnlyFromTeardown
CHECK_DEADLOCK FALSE
