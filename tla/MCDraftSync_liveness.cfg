SPECIFICATION FairSpec
CONSTANTS
  New = New
  Editor = {e1}
  Flow = {f1}
  MaxEdit = 2
  MaxChat = 1
  MaxEvent = 1
PROPERTY
  QueueDrains
  EffectsSettle
CHECK_DEADLOCK FALSE
