SPECIFICATION Spec
CONSTANTS
  t1 = t1
  t2 = t2
  Task <- TwoTasks
  None = None
  Flow = Flow
  Shared = Shared
  Start <- OneTask
  MaxWrite = 2
  MaxPiece = 0
  MaxFault = 1
  MaxLook = 1
CHECK_DEADLOCK FALSE
INVARIANTS TypeOK ListFollows DetailFollows
