CONSTANTS
  Clients = {c}
  Paths = {p}
  busy = busy
  Foreign = Foreign
  COMMAND_CAPACITY = 1
  EVENT_CAPACITY = 1
  PENDING_EVENT_CAPACITY = 2
  MaxRevision = 2
  MaxGeneration <- TwoEach
  MaxSaves = 2
  MaxInspections = 0
  Leavers = {c}
  StoreFails = TRUE
  MaxForeign = 1
SPECIFICATION FairSpec
INVARIANTS
  NewestSnapshotSurvives
  EventsInOrder
  AloneNeverConflicts
  DrainsBeforeStop
PROPERTIES
  WritesOnlySeen
  DroppedLanesGo
  ShutdownEnds
