\* Three secrets for two slots and one tombstone: both caps are reached,
\* and a purge can have two expired entries for one free tombstone.
SPECIFICATION Spec
CONSTANTS
  a = a
  b = b
  c = c
  Ids <- ThreeIds
  MaxSecrets = 2
  MaxTombstones = 1
  Floor = 1
  TTLs = {1, 2}
  ReadCounts = {2}
  Lag = 1
  MaxClock = 3
  Absent = Absent
SYMMETRY Symmetry
INVARIANTS
  TypeOK
  Bounded
  ReadBudget
  EvidenceTruthful
  EvidenceRetained
