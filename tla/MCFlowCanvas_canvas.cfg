SPECIFICATION FairSpec
CONSTANTS
  n1 = n1  n2 = n2  a1 = a1  a2 = a2  a3 = a3
  Node <- MCNode
  Agent = {a1, a2, a3}
  Main = a1
  Lane = {l1}
  None = None
  Before <- NewOrStopped
  Saved <- Some
  Loaded <- Present
  MaxStep = 3
INVARIANTS TypeOK LanesFollowNodes OneSyncAtATime ReopensAsLeft
PROPERTIES SentIsRunnable SyncSettles
CHECK_DEADLOCK FALSE
