SPECIFICATION Spec
CONSTANTS
  a = a
  b = b
  c = c
  Node <- TwoNodes
  Dep <- ChainDep
  MaxTask = 2
  Req = {r1, r2}
  BatchLimit = 2
  Quota <- Races
INVARIANT
  TypeOK
  OneRunPerQueueing
  DependenciesFirst
PROPERTY
  BlockedUnlessLate
  LifecycleUnlessLate
SYMMETRY Threads
CHECK_DEADLOCK FALSE
