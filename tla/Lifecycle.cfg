SPECIFICATION FairSpec
CONSTANTS
  Conns = {c1, c2}
  ShutdownTimeout = 3
  StsTimeout = 3
  NewGrace = 1
INVARIANTS
  TypeOK
  CleanExit
  PromisesKept
  LifecycleInv
PROPERTY
  EventuallyStops
CHECK_DEADLOCK FALSE
