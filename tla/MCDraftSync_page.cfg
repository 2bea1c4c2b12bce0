SPECIFICATION Spec
CONSTANTS
  New = New
  Editor = {e1}
  Flow = {f1}
  MaxEdit = 2
  MaxChat = 1
  MaxEvent = 2
INVARIANT
  TypeOK
  OneSaveAtATime
  EditsAccountedFor
PROPERTY
  WaitSurvives
CHECK_DEADLOCK FALSE
