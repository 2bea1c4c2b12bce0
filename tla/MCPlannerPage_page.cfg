SPECIFICATION Spec
CONSTANTS
  Session = {s1}
  Flow = {f1, f2}
  None = None
  MaxTurn = 2
  MaxPrompt = 2
  MaxCut = 1
CHECK_DEADLOCK FALSE
INVARIANTS TypeOK CanvasFollows EndIsSeen OverlayOpens OwnPlanOnly
PROPERTY PromptStays
SYMMETRY FlowSymmetry
