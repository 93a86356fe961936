\* Two handlers, two secrets that follow each other in one slot.
SPECIFICATION UnwrapSpec
CONSTANTS
  a = a
  b = b
  r1 = r1
  r2 = r2
  Ids <- TwoIds
  Requests <- TwoRequests
  MaxSecrets = 1
  MaxTombstones = 1
  Floor = 1
  TTLs = {1}
  ReadCounts = {1, 2}
  Lag = 0
  MaxClock = 2
  Absent = Absent
INVARIANTS
  UnwrapTypeOK
  OnlyLiveSealed
  LastReadDelivers
  AlarmOnlyWhenOver
  ReadsAccounted
