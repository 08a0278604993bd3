CONSTANTS
  Clients = {c}
  Paths = {p}
  busy = busy
  Foreign = Foreign
  COMMAND_CAPACITY = 2
  EVENT_CAPACITY = 1
  PENDING_EVENT_CAPACITY = 1
  MaxRevision = 2
  MaxGeneration <- OneEach
  MaxSaves = 2
  MaxInspections = 0
  Leavers = {c}
  StoreFails = TRUE
  MaxForeign = 0
SPECIFICATION Spec
INVARIANTS
  AcceptedSavesEnter
