SPECIFICATION FairSpec
CONSTANTS
  a = a
  b = b
  c = c
  Node <- ThreeNodes
  Dep <- FanOutDep
  MaxTask = 3
  Req = {r1}
  BatchLimit = 32
  Quota <- OneFailure
PROPERTY
  QueueAdvances
CHECK_DEADLOCK FALSE
