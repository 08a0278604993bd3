CONSTANTS
  u1 = u1  u2 = u2  a1 = a1  a2 = a2  a3 = a3  b1 = b1  b2 = b2  b3 = b3
  NoCall = NoCall
  Calls = {u1, a1, a2, a3, b1, b3}
  Class <- MCClass
  Key <- MCKey
  Bytes <- MCBytes
  Oversized = {}
  Overlong = {a3}
  Immediate <- MCImmediate
  IN_FLIGHT = 2
  BACKGROUND_IN_FLIGHT = 1
  URGENT_IN_FLIGHT = 1
  BACKGROUND_QUEUED = 1
  MAX_QUEUED_BYTES = 9
  URGENT_SLACK = 1
  ADMISSION = 3
  WORKERS = 1
  MaxSpawns = 1
SPECIFICATION Spec
INVARIANTS
  BytesAccounted
  UserWaitsOnlyForUsers
  NeverTurnedAway
