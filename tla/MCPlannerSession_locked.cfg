SPECIFICATION Spec
CONSTANTS
  r1 = r1  r2 = r2  bridge = bridge  nobody = nobody
  n1 = n1  n2 = n2  k1 = k1  k2 = k2  nokey = nokey
  Node <- MCNode  Valid <- MCValid  Key <- MCKey  NoKey = nokey
  Req <- MCReq  Bridge = bridge  Nobody = nobody
  Batch <- MCBatch
  RowLock = TRUE
  Quota <- TwoGenerates
SYMMETRY Threads
INVARIANT
  TypeOK
  BridgeYields
PROPERTY
  LifecycleSpec
  RevisionNamesNodes
CHECK_DEADLOCK FALSE
