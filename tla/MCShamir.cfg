\* Every split of a one-byte secret into three shares over GF(4), and some of
\* two bytes; every sequence of up to three pasted shares.
CONSTANTS
  Width = 2
  Reduction <- SmallReduction
  Calls <- SmallCalls
  Strangers <- OtherShares
  MaxPasted = 3
  None = None
SPECIFICATION Spec
INVARIANTS
  TypeOK
  AcceptsQuorums
  Reconstructs
  Secrecy
