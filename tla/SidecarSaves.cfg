CONSTANTS
  Savers = {p, q}
  Marks = {m, n}
  NoEntry = NoEntry
  Nobody = Nobody
  Torn = Torn
  MaxRevision = 2
  MaxVersions = 2
  MaxFiles = 1
  MaxLosses = 1
SPECIFICATION InPlaceSpec
INVARIANTS
  AcknowledgedKept
PROPERTIES
  StoreContract
  EverySaveEnds
