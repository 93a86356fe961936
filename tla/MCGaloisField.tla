--------------------------- MODULE MCGaloisField ---------------------------
(* All pairs of bytes, each reached by flipping bits of two operands.       *)
EXTENDS GaloisField

VARIABLES a, b

Init == a = {} /\ b = {}
FlipA == \E i \in Bits : a' = Xor(a, {i}) /\ UNCHANGED b
FlipB == \E i \in Bits : b' = Xor(b, {i}) /\ UNCHANGED a
Next == FlipA \/ FlipB
Spec == Init /\ [][Next]_<<a, b>>

CodeReduction == {0, 1, 3, 4}  \* 0x1b

(* gfMul, a loop of masks and shifts on bytes (shamir.go, shamir.js), is    *)
(* multiplication of polynomials modulo the AES modulus: overflow of the    *)
(* byte never loses a term.                                                 *)
MulIsPolynomialProduct == gfMul(a, b) = PolyRemainder(PolyProduct(a, b))

(* a^254 is the inverse that combineRaw divides by: of every byte but zero. *)
InverseDivides == b = {} /\ a # {} => gfMul(a, gfInv(a)) = One
=============================================================================
