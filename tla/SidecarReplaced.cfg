CONSTANTS
  Savers = {p, q}
  Marks = {m, n}
  NoEntry = NoEntry
  Nobody = Nobody
  Torn = Torn
  MaxRevision = 2
  MaxVersions = 1
  MaxFiles = 2
  MaxLosses = 0
SPECIFICATION Spec
SYMMETRY Symmetry
INVARIANTS
  AcknowledgedKept
