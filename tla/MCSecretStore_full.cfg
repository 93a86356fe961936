\* One slot is enough to be refused for the sake of an expired entry.
SPECIFICATION Spec
CONSTANTS
  a = a
  b = b
  c = c
  Ids <- TwoIds
  MaxSecrets = 1
  MaxTombstones = 1
  Floor = 1
  TTLs = {1}
  ReadCounts = {1}
  Lag = 0
  MaxClock = 2
  Absent = Absent
INVARIANT
  FullOnlyOfLive
