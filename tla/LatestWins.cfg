SPECIFICATION QueueFairSpec
CONSTANTS
  Keys = {k1, k2, k3}
  Priorities = {0, 1}
  CAPACITY = 2
  MAX_IN_FLIGHT = 2
  MaxRevision = 4
INVARIANTS
  QueueTypeOK
  SupersededIsCancelled
  OneWorkerPerKey
PROPERTIES
  PublishesLatest
  QueueDrains
