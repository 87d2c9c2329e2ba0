SPECIFICATION Spec
CONSTANTS
  f0 = f0 f = f g = g v = v w = w h1 = h1 h2 = h2 k = k n = n p = p r = r
  t1 = t1 t2 = t2 t3 = t3 t4 = t4 t5 = t5
  Body = Body Null = Null
  Funcs <- MCFuncs
  Hooks <- MCHooks
  LazyHooks <- MCLazyHooks
  Tramps <- MCTramps
  Request <- MCRequest
  Thunk <- MCThunk
  Group <- MCGroup
  Script <- MCScript
  ShutdownOrder <- MCShutdownOrder
  FollowLimit = 3
INVARIANTS
  TypeOK
  PatchIntegrity
  TrampolinesAccounted
  BatchesAreAtomic
  EnabledIsReached
  UninstallRestores
CHECK_DEADLOCK FALSE
