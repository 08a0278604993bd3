SPECIFICATION Spec
CONSTANTS
  Docs = {d1, d2}
  Paths = {fa, fb}
  Extra = {p1}
  None = None
  Default = Default
  MaxMsgs = 3
  MaxEvents = 2
  MaxTroubles = 1
SYMMETRY Symmetry
CHECK_DEADLOCK FALSE
INVARIANTS
  HistoryKept
  

  
  
