\* Three requests of one IP race for a budget of two failures.
SPECIFICATION Spec
CONSTANTS
  ip1 = ip1
  ip2 = ip2
  r1 = r1
  r2 = r2
  r3 = r3
  IPs <- OneIP
  Requests <- ThreeRequests
  ReqBurst = 3
  ReqCost = 1
  FailBurst = 4
  FailCost = 2
  GCPeriod = 3
  MaxNow = 5
  MaxDebt = 8
  None = None
INVARIANTS
  TypeOK
  DebtBounded
  FailuresBounded
