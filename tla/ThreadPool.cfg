SPECIFICATION FairSpec
CONSTANT
  Calls <- MCCalls
INVARIANTS
  TypeOK
  JobsAreSafe
PROPERTIES
  ImplementsParallelFor
  CallReturns
CHECK_DEADLOCK FALSE
