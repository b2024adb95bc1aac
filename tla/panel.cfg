SPECIFICATION FairSpec
CONSTANTS
  Cells = {c1, c2}
  Sources = {e, s}
  Empty = e
  Paths = {p}
  None = None
  MaxKeys = 1
  MaxCalls = 2
  MaxFaults = 1
INVARIANTS TypedWorkIsKept SettledPanesAgree
PROPERTIES PanelSettles
CHECK_DEADLOCK FALSE
