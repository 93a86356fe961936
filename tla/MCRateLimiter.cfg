\* Burst of two and a half requests, a sweep every 4 units, up to one and a
\* half requests of debt: sweeps meet full, partial and indebted buckets.
SPECIFICATION Spec
CONSTANTS
  ip1 = ip1
  ip2 = ip2
  Keys <- TwoKeys
  Burst = 5
  Cost = 2
  GCPeriod = 4
  MaxNow = 9
  MaxDebt = 3
  None = None
INVARIANTS
  TypeOK
  WellFilled
PROPERTY
  ImplementsTokenBucket
