---------------------------- MODULE GaloisField ----------------------------
(***************************************************************************)
(* The field arithmetic of internal/shamir.  A byte is the set of its one    *)
(* bits, so that ^ is symmetric difference and a shift moves every bit; bits *)
(* shifted past the width are lost.  The code has Width = 8 and reduces by   *)
(* 0x1b; the same loops compute in any field GF(2^Width).                    *)
(***************************************************************************)
EXTENDS Integers, FiniteSets, Sequences

CONSTANTS
  Width,     \* bits of a byte
  Reduction  \* the modulus without its leading term: 0x1b is {0, 1, 3, 4}

ASSUME WidthAssumption == Width \in Nat \ {0}
ASSUME ReductionAssumption == Reduction \subseteq 0..(Width - 1)

Bits == 0..(Width - 1)
Bytes == SUBSET Bits
One == {0}

Xor(a, b) == (a \ b) \cup (b \ a)
ShiftLeft(a) == {i + 1 : i \in a \ {Width - 1}}
ShiftRight(a) == {i - 1 : i \in a \ {0}}

(* Fault: the bit that overflows is dropped without reducing.               *)
DoubledUnreduced(a) == ShiftLeft(a)

(* a <<= 1, reduced by the modulus when the high bit overflowed.            *)
Doubled(a) == IF Width - 1 \in a THEN Xor(ShiftLeft(a), Reduction) ELSE ShiftLeft(a)

(* The loop of gfMul: Width rounds of shift-and-add.                        *)
gfMul(a, b) ==
  LET round[i \in 0..Width] ==
        IF i = 0 THEN [p |-> {}, a |-> a, b |-> b]
        ELSE LET r == round[i - 1]
             IN [p |-> IF 0 \in r.b THEN Xor(r.p, r.a) ELSE r.p,
                 a |-> Doubled(r.a),
                 b |-> ShiftRight(r.b)]
  IN round[Width].p

(* Square and multiply, low bit of the exponent first.                     *)
Power(a, exponent) ==
  LET round[i \in 0..Width] ==
        IF i = 0 THEN [result |-> One, base |-> a, exp |-> exponent]
        ELSE LET r == round[i - 1]
             IN [result |-> IF r.exp % 2 = 1 THEN gfMul(r.result, r.base) ELSE r.result,
                 base |-> gfMul(r.base, r.base),
                 exp |-> r.exp \div 2]
  IN round[Width].result

(* Fault: the exponent is the order of the group.                          *)
gfInvGroupOrder(a) == Power(a, 2^Width - 1)

(* gfInv: a^254, in the code's field.                                      *)
gfInv(a) == Power(a, 2^Width - 2)

(* gfEval: Horner's rule.  coeffs is a function on 0..(k - 1), the constant *)
(* term at 0.                                                              *)
gfEval(coeffs, x) ==
  LET k == Cardinality(DOMAIN coeffs)
      y[i \in 0..k] == IF i = k THEN {} ELSE Xor(gfMul(y[i + 1], x), coeffs[i])
  IN y[0]

(* The loops acc ^= ... and num = gfMul(num, ...) over a sequence of bytes. *)
gfSum(s) ==
  LET acc[i \in 0..Len(s)] == IF i = 0 THEN {} ELSE Xor(acc[i - 1], s[i])
  IN acc[Len(s)]

gfProduct(s) ==
  LET acc[i \in 0..Len(s)] == IF i = 0 THEN One ELSE gfMul(acc[i - 1], s[i])
  IN acc[Len(s)]

----------------------------------------------------------------------------
(* Reference: polynomials over GF(2), as the sets of their exponents.       *)

Odd(S) == Cardinality(S) % 2 = 1
PolyProduct(a, b) ==
  {d \in 0..(2 * Width - 2) : Odd({i \in a : d - i \in b})}

(* Long division by the modulus, highest term first.                       *)
PolyRemainder(p) ==
  LET Modulus == {Width} \cup Reduction
      rest[d \in Width..(2 * Width - 1)] ==
        IF d = 2 * Width - 1 THEN p
        ELSE IF d \in rest[d + 1]
             THEN Xor(rest[d + 1], {i + d - Width : i \in Modulus})
             ELSE rest[d + 1]
  IN rest[Width]

(* The modulus divides no product of two smaller polynomials: 0x11b, that   *)
(* of AES, is irreducible.                                                 *)
ASSUME PrimeAssumption ==
  \A a, b \in Bytes \ {{}} : PolyRemainder(PolyProduct(a, b)) # {}
=============================================================================
