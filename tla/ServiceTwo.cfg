CONSTANTS
  Clients = {busy, d}
  Paths = {p}
  busy = busy
  Foreign = Foreign
  COMMAND_CAPACITY = 1
  EVENT_CAPACITY = 1
  PENDING_EVENT_CAPACITY = 1
  MaxRevision = 0
  MaxGeneration <- OneBusy
  MaxSaves = 0
  MaxInspections = 1
  Leavers = {}
  StoreFails = FALSE
  MaxForeign = 0
SPECIFICATION FairSpec
PROPERTIES
  LanesAreServed
