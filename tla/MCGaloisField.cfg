\* All 65536 pairs of bytes of the code's field GF(2^8).
CONSTANTS
  Width = 8
  Reduction <- CodeReduction
SPECIFICATION Spec
INVARIANTS
  MulIsPolynomialProduct
  InverseDivides
