SPECIFICATION Spec
CONSTANTS
  Windows = {one, two}
  Docs = {one, two, three}
  Assets = {a}
  Opened <- MCOpened
  Nothing = Nothing
  MaxSaves = 2
  MaxEvents = 2
SYMMETRY Symmetry
CHECK_DEADLOCK FALSE
PROPERTIES
  
  LaterInsertionsSurvive
