\* Two splits with the same quorum are enough to mix their shares.
SPECIFICATION Spec
CONSTANTS
  Ids = {1, 2, 3}
  Never = 3
  Malformed = Malformed
  Absent = Absent
  TTLs = {1}
  ReadCounts = {1}
  Calls = 4
  MaxNow = 0
  MaxBoots = 1
  Populations <- OnlySharers
  NumShares = 2
  Threshold = 2
INVARIANT
  BadSharesStayLocal
CHECK_DEADLOCK FALSE
