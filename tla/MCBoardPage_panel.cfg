SPECIFICATION FairSpec
CONSTANTS
  t1 = t1
  t2 = t2
  Task <- TwoTasks
  None = None
  Flow = Flow
  Shared = Shared
  Start <- TwoTasks
  MaxWrite = 0
  MaxPiece = 1
  MaxFault = 1
  MaxLook = 3
CHECK_DEADLOCK FALSE
PROPERTY PanelCatchesUp
INVARIANT OwnOutput
