\* Two handlers unwrap one secret that may be read twice.
SPECIFICATION UnwrapSpec
CONSTANTS
  a = a
  b = b
  r1 = r1
  r2 = r2
  Ids <- OneId
  Requests <- TwoRequests
  MaxSecrets = 1
  MaxTombstones = 1
  Floor = 1
  TTLs = {1}
  ReadCounts = {2}
  Lag = 0
  MaxClock = 2
  Absent = Absent
INVARIANT
  NoZeroedBytes
