SPECIFICATION FairSpec
CONSTANTS
  a = a
  b = b
  c = c
  Node <- TwoNodes
  Dep <- ChainDep
  MaxTask = 2
  Req = {r1}
  BatchLimit = 2
  Quota <- SerialQuota
INVARIANT
  DeletedNodeForgotten
PROPERTY
  LifecycleSpec
  NoRowRunsForever
CHECK_DEADLOCK FALSE
