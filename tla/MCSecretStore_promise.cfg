\* Two secrets and one tombstone, short and long lifetimes, a clock that may
\* move inside a critical section.  The janitor and the clock are fair,
\* requests are not.
SPECIFICATION FairSpec
CONSTANTS
  a = a
  b = b
  c = c
  Ids <- TwoIds
  MaxSecrets = 2
  MaxTombstones = 1
  Floor = 1
  TTLs = {1, 3}
  ReadCounts = {2}
  Lag = 1
  MaxClock = 4
  Absent = Absent
PROPERTIES
  ImplementsOneTimeSecret
  EntriesReclaimed
  TombsReclaimed
