-------------------------- MODULE GaloisFieldProof --------------------------
(***************************************************************************)
(* What MCGaloisField checks in the field of the code, proved of every field *)
(* from the laws of FieldProof.                                             *)
(***************************************************************************)
EXTENDS MCGaloisField, FieldProof

Operands == a \in Bytes /\ b \in Bytes

(* The operands are bytes, whatever bits are flipped.                       *)
LEMMA OperandsAreBytes == Spec => []Operands
<1>1. Init => Operands
  BY BytesAre DEF Init, Operands
<1>2. Operands /\ [Next]_<<a, b>> => Operands'
  BY BytesAre, XorType DEF Operands, Next, FlipA, FlipB
<1>3. QED
  BY <1>1, <1>2, PTL DEF Spec

(* gfMul multiplies polynomials and reduces by the modulus.                 *)
THEOREM MultiplicationIsExact == Spec => []MulIsPolynomialProduct
<1>1. Operands => MulIsPolynomialProduct
  BY MulMultiplies DEF Operands, MulIsPolynomialProduct
<1>2. QED
  BY <1>1, OperandsAreBytes, PTL

(* gfInv inverts every byte but zero.                                       *)
THEOREM InversionIsExact == Spec => []InverseDivides
<1>1. Operands => InverseDivides
  BY GfInvInverts DEF Operands, InverseDivides, Invertible
<1>2. QED
  BY <1>1, OperandsAreBytes, PTL
=============================================================================
