SPECIFICATION Spec
CONSTANTS
  f1 = f1  f2 = f2  f3 = f3  d1 = d1  src = src  agent = agent
  File <- MCFile
  Doc = {d1}
  Binary = {f3}
  Registered = {f2}
  Group = {src, agent}
  Root = Root
  Place <- MCPlace
  Keyword = {"", "src"}
  Matches <- MCMatches
  None = None
  Empty = Empty
  MaxStep = 4
INVARIANTS TypeOK PageFollowsList EditorKeepsToFile
CHECK_DEADLOCK FALSE
