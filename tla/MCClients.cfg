\* Every population; the deadline of Shutdown is fair, nothing else is.
SPECIFICATION FairSpec
CONSTANTS
  Ids = {1, 2, 3}
  Never = 3
  Malformed = Malformed
  Absent = Absent
  TTLs = {1}
  ReadCounts = {1, 2}
  Calls = 4
  MaxNow = 1
  MaxBoots = 2
  Populations <- AllPopulations
  NumShares = 2
  Threshold = 2
INVARIANTS
  TypeOK
  ServedWithinBudget
  MissesHaveCause
  RemainingHonest
  CountersExplainStore
  RevokedStaysUnread
  ExitCodesTruthful
  
  OnlyThePageStrands
  SplitCustody
  SingleClickAlarm
PROPERTIES
  CleanExitOwesNothing
  ShutdownEnds
\* A behaviour ends with its last call.
CHECK_DEADLOCK FALSE
