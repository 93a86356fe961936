----------------------------- MODULE FieldProof -----------------------------
(***************************************************************************)
(* The algebra behind the sharing, for bytes of any width and any modulus    *)
(* without factors.  gfMul is multiplication of polynomials modulo the       *)
(* modulus, commutes, associates and distributes over ^; gfInv inverts; and  *)
(* a polynomial is determined by as many of its values as it has             *)
(* coefficients, and by no fewer.                                           *)
(*                                                                         *)
(* The loops of the code are recursive functions.  LoopRuns gives the        *)
(* function of such a loop; what its rounds keep is an induction over a set  *)
(* of round numbers, of which there would be a least one missing.            *)
(*                                                                         *)
(* Interpolation is about divided differences.  That of a function g over a  *)
(* set S of nodes is the sum over S of g[i] by the product of x[i] ^ x[j],   *)
(* for the other nodes j of S.  A polynomial has none over more nodes than   *)
(* coefficients, and with zero as one of the nodes that is the formula of    *)
(* combineRaw.                                                              *)
(***************************************************************************)
EXTENDS GaloisField, FiniteSetTheorems, WellFoundedInduction, TLAPS

(* A set of natural numbers has a least element.                            *)
LEMMA LeastElement ==
  ASSUME NEW S \in SUBSET Nat, S # {}
  PROVE  \E x \in S : \A y \in S : x <= y
<1> DEFINE R == {pair \in Nat \X Nat : pair[1] < pair[2]}
<1>1. IsWellFoundedOn(R, Nat)
  BY NatLessThanWellFounded, Zenon DEF OpToRel
<1> HIDE DEF R
<1>2. PICK x \in S : \A y \in S : <<y, x>> \notin R
  BY <1>1, WFMin
<1>3. ASSUME NEW y \in S PROVE x <= y
  <2>1. x \in Nat /\ y \in Nat
    OBVIOUS
  <2>2. ~(y < x)
    <3>1. <<y, x>> \in Nat \X Nat /\ <<y, x>>[1] = y /\ <<y, x>>[2] = x
      BY <2>1
    <3>2. QED
      BY <1>2, <3>1 DEF R
  <2>3. QED
    BY <2>1, <2>2
<1>4. QED
  BY <1>3

(* Induction, over the set of the numbers that have the property.           *)
LEMMA SetInduction ==
  ASSUME NEW P, 0 \in P, \A n \in Nat : n \in P => n + 1 \in P
  PROVE  Nat \subseteq P
<1> SUFFICES ASSUME Nat \ P # {} PROVE FALSE
  OBVIOUS
<1>1. PICK x \in Nat \ P : \A y \in Nat \ P : x <= y
  BY LeastElement
<1>2. x # 0 /\ x - 1 \in Nat /\ x - 1 + 1 = x
  BY <1>1
<1>3. x - 1 \in P
  BY <1>1, <1>2
<1>4. QED
  BY <1>2, <1>3

(* Induction up to a bound.                                                *)
LEMMA BoundedInduction ==
  ASSUME NEW n \in Nat, NEW P, 0 \in P, \A i \in 0..(n - 1) : i \in P => i + 1 \in P
  PROVE  0..n \subseteq P
<1> DEFINE Q == P \cup {i \in Nat : i > n}
<1>1. 0 \in Q
  OBVIOUS
<1>2. \A i \in Nat : i \in Q => i + 1 \in Q
  <2> SUFFICES ASSUME NEW i \in Nat, i \in Q PROVE i + 1 \in Q
    OBVIOUS
  <2>1. CASE i \in 0..(n - 1) 
    BY <2>1
  <2>2. CASE i >= n
    BY <2>2
  <2>3. QED
    BY <2>1, <2>2
<1>3. Nat \subseteq Q
  <2> HIDE DEF Q
  <2>1. QED
    BY <1>1, <1>2, SetInduction
<1>4. QED
  BY <1>3

(* The run of a loop of n steps, its states in S.                           *)
IsRun(f, n, S, start, step) ==
  /\ f \in [0..n -> S]
  /\ f[0] = start
  /\ \A i \in 1..n : f[i] = step[<<i, f[i - 1]>>]

Steps(n, S) == [(1..n) \X S -> S]

(* A loop that keeps its state in S has a run.                              *)
LEMMA LoopRuns ==
  ASSUME NEW n \in Nat, NEW S, NEW start \in S, NEW step \in Steps(n, S)
  PROVE  \E f : IsRun(f, n, S, start, step)
<1>0. step \in [(1..n) \X S -> S]
  BY DEF Steps
<1> DEFINE P == {m \in 0..n : \E f \in [0..m -> S] :
                   /\ f[0] = start
                   /\ \A i \in 1..m : f[i] = step[<<i, f[i - 1]>>]}
<1>1. 0 \in P
  <2> DEFINE f == [i \in 0..0 |-> start]
  <2>1. f \in [0..0 -> S] /\ f[0] = start
    OBVIOUS
  <2>2. 1..0 = {}
    OBVIOUS
  <2>3. \A i \in 1..0 : f[i] = step[<<i, f[i - 1]>>]
    BY <2>2
  <2> HIDE DEF f
  <2>4. QED
    BY <2>1, <2>3
<1>2. ASSUME NEW m \in 0..(n - 1), m \in P PROVE m + 1 \in P
  <2>1. PICK f \in [0..m -> S] :
          /\ f[0] = start
          /\ \A i \in 1..m : f[i] = step[<<i, f[i - 1]>>]
    BY <1>2
  <2> DEFINE g == [i \in 0..(m + 1) |-> IF i = m + 1 THEN step[<<m + 1, f[m]>>] ELSE f[i]]
  <2>2. f[m] \in S /\ step[<<m + 1, f[m]>>] \in S
    <3>1. f[m] \in S
      BY <2>1
    <3>2. <<m + 1, f[m]>> \in (1..n) \X S
      BY <3>1
    <3>3. QED
      BY <1>0, <3>1, <3>2
  <2>3. g \in [0..(m + 1) -> S]
    BY <2>2
  <2>4. g[0] = start
    BY <2>1
  <2>5. ASSUME NEW i \in 1..(m + 1) PROVE g[i] = step[<<i, g[i - 1]>>]
    <3>1. CASE i = m + 1
      <4>1. g[i] = step[<<m + 1, f[m]>>] /\ g[i - 1] = f[m]
        BY <3>1
      <4>2. QED
        BY <3>1, <4>1
    <3>2. CASE i \in 1..m
      <4>1. g[i] = f[i] /\ g[i - 1] = f[i - 1]
        BY <3>2
      <4>2. QED
        BY <2>1, <3>2, <4>1
    <3>3. QED
      BY <3>1, <3>2
  <2> HIDE DEF g
  <2>6. QED
    BY <2>3, <2>4, <2>5
<1>3. n \in P
  <2> HIDE DEF P
  <2>1. 0..n \subseteq P
    BY <1>1, <1>2, BoundedInduction
  <2>2. QED
    BY <2>1
<1>4. QED
  BY <1>3 DEF IsRun

(* What holds at first and is kept by every step holds throughout.          *)
Keeps(f, n, S) == f[0] \in S /\ \A i \in 1..n : f[i - 1] \in S => f[i] \in S

(* What the first round has and every round passes on, all rounds have.     *)
LEMMA LoopKeeps ==
  ASSUME NEW n \in Nat, NEW f, NEW S, Keeps(f, n, S)
  PROVE  \A i \in 0..n : f[i] \in S
<1> DEFINE P == {i \in 0..n : f[i] \in S}
<1>1. 0 \in P
  BY DEF Keeps
<1>2. ASSUME NEW i \in 0..(n - 1), i \in P PROVE i + 1 \in P
  <2>1. PICK j \in 1..n : j = i + 1 /\ j - 1 = i
    OBVIOUS
  <2>2. f[j] \in S
    BY <1>2, <2>1 DEF Keeps
  <2>3. QED
    BY <2>1, <2>2
<1>3. 0..n \subseteq P
  <2> HIDE DEF P
  <2>1. QED
    BY <1>1, <1>2, BoundedInduction
<1>4. QED
  BY <1>3

----------------------------------------------------------------------------
(* Bytes under exclusive or.                                               *)
LEMMA XorType == \A a, b \in Bytes : Xor(a, b) \in Bytes
BY DEF Xor, Bytes

(* Zero is the unit of ^, and every byte its own inverse;                   *)
LEMMA XorEmpty == \A a : Xor(a, {}) = a /\ Xor({}, a) = a /\ Xor(a, a) = {}
BY DEF Xor

(* ^ is commutative                                                         *)
LEMMA XorCommutes == \A a, b : Xor(a, b) = Xor(b, a)
BY DEF Xor

(* and associative.                                                         *)
LEMMA XorAssociates == \A a, b, c : Xor(Xor(a, b), c) = Xor(a, Xor(b, c))
BY DEF Xor

(* Equal exactly when they cancel.                                         *)
LEMMA XorCancels == \A a, b : Xor(a, b) = {} <=> a = b
BY DEF Xor

(* The sum of two sums, regrouped.                                         *)
LEMMA XorRegroups ==
  \A a, b, c, d : Xor(Xor(a, b), Xor(c, d)) = Xor(Xor(a, c), Xor(b, d))
BY DEF Xor

(* Zero, one, the modulus and every single bit are bytes.                   *)
LEMMA BytesAre == /\ {} \in Bytes /\ One \in Bytes /\ Reduction \in Bytes
                  /\ \A i \in Bits : {i} \in Bytes
BY WidthAssumption, ReductionAssumption DEF Bytes, Bits, One

(* A shift to the left leaves a byte, the bit that overflows being lost,    *)
LEMMA ShiftLeftType == \A a \in Bytes : ShiftLeft(a) \in Bytes
BY WidthAssumption DEF Bytes, Bits, ShiftLeft

(* and so does one to the right.                                            *)
LEMMA ShiftRightType == \A a \in Bytes : ShiftRight(a) \in Bytes
BY WidthAssumption DEF Bytes, Bits, ShiftRight

(* Shifting distributes over ^, to the left                                 *)
LEMMA ShiftLeftAdds ==
  \A a, b \in Bytes : ShiftLeft(Xor(a, b)) = Xor(ShiftLeft(a), ShiftLeft(b))
<1> SUFFICES ASSUME NEW a \in Bytes, NEW b \in Bytes
    PROVE  ShiftLeft(Xor(a, b)) = Xor(ShiftLeft(a), ShiftLeft(b))
  OBVIOUS
<1>1. a \subseteq Int /\ b \subseteq Int
  BY WidthAssumption DEF Bytes, Bits
<1>2. \A c \in SUBSET Int : \A i : i \in ShiftLeft(c) <=> i \in Int /\ i - 1 \in c \ {Width - 1}
  BY WidthAssumption DEF ShiftLeft
<1>3. Xor(a, b) \subseteq Int
  BY <1>1 DEF Xor
<1>4. QED
  BY <1>1, <1>2, <1>3 DEF Xor

(* and to the right.                                                        *)
LEMMA ShiftRightAdds ==
  \A a, b \in Bytes : ShiftRight(Xor(a, b)) = Xor(ShiftRight(a), ShiftRight(b))
<1> SUFFICES ASSUME NEW a \in Bytes, NEW b \in Bytes
    PROVE  ShiftRight(Xor(a, b)) = Xor(ShiftRight(a), ShiftRight(b))
  OBVIOUS
<1>1. a \subseteq Int /\ b \subseteq Int
  BY WidthAssumption DEF Bytes, Bits
<1>2. \A c \in SUBSET Int : \A i : i \in ShiftRight(c) <=> i \in Int /\ i + 1 \in c \ {0}
  BY DEF ShiftRight
<1>3. Xor(a, b) \subseteq Int
  BY <1>1 DEF Xor
<1>4. QED
  BY <1>1, <1>2, <1>3 DEF Xor

(* Multiplying by x leaves a byte, reduced or not,                          *)
LEMMA DoubledType == \A a \in Bytes : Doubled(a) \in Bytes
BY ShiftLeftType, XorType, BytesAre DEF Doubled

(* and distributes over ^: only one of two overflows, both or none is       *)
(* reduced.                                                                 *)
LEMMA DoubledAdds ==
  \A a, b \in Bytes : Doubled(Xor(a, b)) = Xor(Doubled(a), Doubled(b))
<1> SUFFICES ASSUME NEW a \in Bytes, NEW b \in Bytes
    PROVE  Doubled(Xor(a, b)) = Xor(Doubled(a), Doubled(b))
  OBVIOUS
<1>1. ShiftLeft(Xor(a, b)) = Xor(ShiftLeft(a), ShiftLeft(b))
  BY ShiftLeftAdds
<1>2. Width - 1 \in Xor(a, b) <=> ~(Width - 1 \in a <=> Width - 1 \in b)
  BY DEF Xor
<1>3. PICK u, v, m : u = ShiftLeft(a) /\ v = ShiftLeft(b) /\ m = Reduction
  OBVIOUS
<1>4. /\ Xor(Xor(u, m), Xor(v, m)) = Xor(u, v)
      /\ Xor(Xor(u, m), v) = Xor(Xor(u, v), m)
      /\ Xor(u, Xor(v, m)) = Xor(Xor(u, v), m)
  BY DEF Xor
<1>5. QED
  BY <1>1, <1>2, <1>3, <1>4 DEF Doubled

----------------------------------------------------------------------------
(* One round of gfMul.                                                     *)
MulStates == [p : Bytes, a : Bytes, b : Bytes]
MulRound(r) == [p |-> IF 0 \in r.b THEN Xor(r.p, r.a) ELSE r.p,
                a |-> Doubled(r.a),
                b |-> ShiftRight(r.b)]

(* A round of gfMul keeps its three variables bytes.                        *)
LEMMA MulRoundType == \A r \in MulStates : MulRound(r) \in MulStates
<1> SUFFICES ASSUME NEW r \in MulStates PROVE MulRound(r) \in MulStates
  OBVIOUS
<1>1. r.p \in Bytes /\ r.a \in Bytes /\ r.b \in Bytes
  BY DEF MulStates
<1>2. Doubled(r.a) \in Bytes /\ ShiftRight(r.b) \in Bytes
  BY <1>1, DoubledType, ShiftRightType
<1>3. Xor(r.p, r.a) \in Bytes
  BY <1>1, XorType
<1>4. QED
  BY <1>1, <1>2, <1>3 DEF MulRound, MulStates

(* The rounds of a product.                                                *)
IsMulRun(r, a, b) ==
  /\ r \in [0..Width -> MulStates]
  /\ r[0] = [p |-> {}, a |-> a, b |-> b]
  /\ \A i \in 1..Width : r[i] = MulRound(r[i - 1])

(* gfMul is what its rounds leave in p.                                     *)
LEMMA MulRuns ==
  ASSUME NEW a \in Bytes, NEW b \in Bytes
  PROVE  \E r : IsMulRun(r, a, b) /\ gfMul(a, b) = r[Width].p
<1> DEFINE start == [p |-> {}, a |-> a, b |-> b]
<1> DEFINE step == [z \in (1..Width) \X MulStates |-> MulRound(z[2])]
<1> DEFINE Rounds(g) == g = [i \in 0..Width |-> IF i = 0 THEN start ELSE MulRound(g[i - 1])]
<1>0. Width \in Nat
  BY WidthAssumption
<1>1. start \in MulStates
  BY BytesAre DEF MulStates
<1>2. step \in Steps(Width, MulStates)
  BY MulRoundType DEF Steps
<1>3. PICK f : IsRun(f, Width, MulStates, start, step)
  <2> HIDE DEF step, start
  <2>1. QED
    BY <1>0, <1>1, <1>2, LoopRuns
<1>4. \A i \in 1..Width : f[i] = MulRound(f[i - 1])
  <2> SUFFICES ASSUME NEW i \in 1..Width PROVE f[i] = MulRound(f[i - 1])
    OBVIOUS
  <2>1. f[i - 1] \in MulStates
    BY <1>0, <1>3 DEF IsRun
  <2>2. QED
    BY <1>3, <2>1 DEF IsRun
<1>5. Rounds(f)
  <2> HIDE DEF step, start
  <2>1. f = [i \in 0..Width |-> f[i]]
    BY <1>3 DEF IsRun
  <2>2. \A i \in 0..Width : f[i] = IF i = 0 THEN start ELSE MulRound(f[i - 1])
    BY <1>0, <1>3, <1>4 DEF IsRun
  <2>3. QED
    BY <2>1, <2>2, Zenon
<1> DEFINE round[i \in 0..Width] ==
        IF i = 0 THEN [p |-> {}, a |-> a, b |-> b]
        ELSE LET r == round[i - 1]
             IN [p |-> IF 0 \in r.b THEN Xor(r.p, r.a) ELSE r.p,
                 a |-> Doubled(r.a),
                 b |-> ShiftRight(r.b)]
<1>6. gfMul(a, b) = round[Width].p
  BY DEF gfMul
<1>7. Rounds(round)
  BY <1>5 DEF MulRound
<1> HIDE DEF round
<1>8. round[0] = start /\ \A i \in 1..Width : round[i] = MulRound(round[i - 1])
  <2> HIDE DEF start
  <2>1. QED
    BY <1>0, <1>7
<1>9. \A i \in 0..Width : round[i] \in MulStates
  <2> HIDE DEF start
  <2>1. Keeps(round, Width, MulStates)
    BY <1>1, <1>8, MulRoundType DEF Keeps
  <2>2. QED
    BY <1>0, <2>1, LoopKeeps
<1>10. IsMulRun(round, a, b)
  <2>1. round = [i \in 0..Width |-> round[i]]
    BY <1>7
  <2>2. round \in [0..Width -> MulStates]
    BY <1>9, <2>1
  <2>3. QED
    BY <1>8, <2>2 DEF IsMulRun
<1>11. QED
  BY <1>6, <1>10
(* A run, field by field: at first                                         *)
LEMMA MulRunStart ==
  ASSUME NEW a \in Bytes, NEW b \in Bytes, NEW r, IsMulRun(r, a, b)
  PROVE  r[0].p = {} /\ r[0].a = a /\ r[0].b = b
BY DEF IsMulRun

(* and in every round.                                                     *)
LEMMA MulRunType ==
  ASSUME NEW a \in Bytes, NEW b \in Bytes, NEW r, IsMulRun(r, a, b), NEW i \in 0..Width
  PROVE  r[i].p \in Bytes /\ r[i].a \in Bytes /\ r[i].b \in Bytes
<1>1. r[i] \in MulStates
  BY DEF IsMulRun
<1>2. QED
  BY <1>1 DEF MulStates

(* One round of a run of gfMul, variable by variable.                       *)
LEMMA MulRunStep ==
  ASSUME NEW a \in Bytes, NEW b \in Bytes, NEW r, IsMulRun(r, a, b), NEW i \in 0..(Width - 1)
  PROVE  /\ i \in 0..Width /\ i + 1 \in 0..Width
         /\ r[i + 1].p = IF 0 \in r[i].b THEN Xor(r[i].p, r[i].a) ELSE r[i].p
         /\ r[i + 1].a = Doubled(r[i].a)
         /\ r[i + 1].b = ShiftRight(r[i].b)
<1>1. PICK j \in 1..Width : j = i + 1 /\ j - 1 = i
  BY WidthAssumption
<1>2. r[j] = MulRound(r[j - 1])
  BY DEF IsMulRun
<1>3. r[i + 1] = MulRound(r[i])
  BY <1>1, <1>2
<1>4. i \in 0..Width /\ i + 1 \in 0..Width
  BY WidthAssumption
<1>5. QED
  BY <1>3, <1>4 DEF MulRound

(* The product of two bytes is a byte.                                      *)
LEMMA MulType == \A a, b \in Bytes : gfMul(a, b) \in Bytes
<1> SUFFICES ASSUME NEW a \in Bytes, NEW b \in Bytes PROVE gfMul(a, b) \in Bytes
  OBVIOUS
<1>1. PICK r : IsMulRun(r, a, b) /\ gfMul(a, b) = r[Width].p
  BY MulRuns
<1>2. Width \in 0..Width
  BY WidthAssumption
<1>3. QED
  BY <1>1, <1>2, MulRunType

(* What holds of the first round and is kept by each holds of the last.     *)
LEMMA RoundInduction ==
  ASSUME NEW P, 0 \in P, \A i \in 0..(Width - 1) : i \in P => i + 1 \in P
  PROVE  Width \in P
<1>1. Width \in Nat
  BY WidthAssumption
<1>2. 0..Width \subseteq P
  BY <1>1, BoundedInduction
<1>3. QED
  BY <1>1, <1>2

(* A product is linear in the first factor,                                *)
LEMMA MulAddsLeft ==
  \A a, c, b \in Bytes : gfMul(Xor(a, c), b) = Xor(gfMul(a, b), gfMul(c, b))
<1> SUFFICES ASSUME NEW a \in Bytes, NEW c \in Bytes, NEW b \in Bytes
    PROVE  gfMul(Xor(a, c), b) = Xor(gfMul(a, b), gfMul(c, b))
  OBVIOUS
<1>0. Xor(a, c) \in Bytes
  BY XorType
<1>1. PICK r : IsMulRun(r, a, b) /\ gfMul(a, b) = r[Width].p
  BY MulRuns
<1>2. PICK s : IsMulRun(s, c, b) /\ gfMul(c, b) = s[Width].p
  BY MulRuns
<1>3. PICK t : IsMulRun(t, Xor(a, c), b) /\ gfMul(Xor(a, c), b) = t[Width].p
  BY <1>0, MulRuns
<1> DEFINE P == {i \in 0..Width : /\ t[i].p = Xor(r[i].p, s[i].p)
                                  /\ t[i].a = Xor(r[i].a, s[i].a)
                                  /\ t[i].b = r[i].b /\ t[i].b = s[i].b}
<1>4. 0 \in P
  <2>1. r[0].p = {} /\ r[0].a = a /\ r[0].b = b
    BY <1>1, MulRunStart
  <2>2. s[0].p = {} /\ s[0].a = c /\ s[0].b = b
    BY <1>2, MulRunStart
  <2>3. t[0].p = {} /\ t[0].a = Xor(a, c) /\ t[0].b = b
    BY <1>0, <1>3, MulRunStart
  <2>4. Xor({}, {}) = {} /\ 0 \in 0..Width
    BY XorEmpty, WidthAssumption
  <2>5. /\ t[0].p = Xor(r[0].p, s[0].p) /\ t[0].a = Xor(r[0].a, s[0].a)
        /\ t[0].b = r[0].b /\ t[0].b = s[0].b
    BY <2>1, <2>2, <2>3, <2>4
  <2>6. QED
    BY <2>4, <2>5
<1>5. ASSUME NEW i \in 0..(Width - 1), i \in P PROVE i + 1 \in P
  <2>1. /\ t[i].p = Xor(r[i].p, s[i].p)
        /\ t[i].a = Xor(r[i].a, s[i].a)
        /\ t[i].b = r[i].b /\ t[i].b = s[i].b
    BY <1>5
  <2>2. /\ i \in 0..Width /\ i + 1 \in 0..Width
        /\ r[i + 1].p = IF 0 \in r[i].b THEN Xor(r[i].p, r[i].a) ELSE r[i].p
        /\ r[i + 1].a = Doubled(r[i].a)
        /\ r[i + 1].b = ShiftRight(r[i].b)
    BY <1>1, MulRunStep
  <2>3. /\ s[i + 1].p = IF 0 \in s[i].b THEN Xor(s[i].p, s[i].a) ELSE s[i].p
        /\ s[i + 1].a = Doubled(s[i].a)
        /\ s[i + 1].b = ShiftRight(s[i].b)
    BY <1>2, MulRunStep
  <2>4. /\ t[i + 1].p = IF 0 \in t[i].b THEN Xor(t[i].p, t[i].a) ELSE t[i].p
        /\ t[i + 1].a = Doubled(t[i].a)
        /\ t[i + 1].b = ShiftRight(t[i].b)
    BY <1>0, <1>3, MulRunStep
  <2>5. r[i].a \in Bytes /\ s[i].a \in Bytes
    BY <1>1, <1>2, <2>2, MulRunType
  <2>6. t[i + 1].a = Xor(r[i + 1].a, s[i + 1].a)
    BY <2>1, <2>2, <2>3, <2>4, <2>5, DoubledAdds
  <2>7. t[i + 1].b = r[i + 1].b /\ t[i + 1].b = s[i + 1].b
    BY <2>1, <2>2, <2>3, <2>4
  <2>8. t[i + 1].p = Xor(r[i + 1].p, s[i + 1].p)
    <3>1. CASE 0 \in t[i].b
      <4>1. /\ t[i + 1].p = Xor(Xor(r[i].p, s[i].p), Xor(r[i].a, s[i].a))
            /\ r[i + 1].p = Xor(r[i].p, r[i].a) /\ s[i + 1].p = Xor(s[i].p, s[i].a)
        BY <2>1, <2>2, <2>3, <2>4, <3>1
      <4>2. QED
        BY <4>1, XorRegroups
    <3>2. CASE 0 \notin t[i].b
      BY <2>1, <2>2, <2>3, <2>4, <3>2
    <3>3. QED
      BY <3>1, <3>2
  <2>9. QED
    BY <2>2, <2>6, <2>7, <2>8
<1>6. Width \in P
  <2> HIDE DEF P
  <2>1. QED
    BY <1>4, <1>5, RoundInduction
<1>7. QED
  BY <1>1, <1>2, <1>3, <1>6

(* and in the second.                                                      *)
LEMMA MulAddsRight ==
  \A a, b, c \in Bytes : gfMul(a, Xor(b, c)) = Xor(gfMul(a, b), gfMul(a, c))
<1> SUFFICES ASSUME NEW a \in Bytes, NEW b \in Bytes, NEW c \in Bytes
    PROVE  gfMul(a, Xor(b, c)) = Xor(gfMul(a, b), gfMul(a, c))
  OBVIOUS
<1>0. Xor(b, c) \in Bytes
  BY XorType
<1>1. PICK r : IsMulRun(r, a, b) /\ gfMul(a, b) = r[Width].p
  BY MulRuns
<1>2. PICK s : IsMulRun(s, a, c) /\ gfMul(a, c) = s[Width].p
  BY MulRuns
<1>3. PICK t : IsMulRun(t, a, Xor(b, c)) /\ gfMul(a, Xor(b, c)) = t[Width].p
  BY <1>0, MulRuns
<1> DEFINE P == {i \in 0..Width : /\ t[i].p = Xor(r[i].p, s[i].p)
                                  /\ t[i].b = Xor(r[i].b, s[i].b)
                                  /\ t[i].a = r[i].a /\ t[i].a = s[i].a}
<1>4. 0 \in P
  <2>1. r[0].p = {} /\ r[0].b = b /\ r[0].a = a
    BY <1>1, MulRunStart
  <2>2. s[0].p = {} /\ s[0].b = c /\ s[0].a = a
    BY <1>2, MulRunStart
  <2>3. t[0].p = {} /\ t[0].b = Xor(b, c) /\ t[0].a = a
    BY <1>0, <1>3, MulRunStart
  <2>4. Xor({}, {}) = {} /\ 0 \in 0..Width
    BY XorEmpty, WidthAssumption
  <2>5. /\ t[0].p = Xor(r[0].p, s[0].p) /\ t[0].b = Xor(r[0].b, s[0].b)
        /\ t[0].a = r[0].a /\ t[0].a = s[0].a
    BY <2>1, <2>2, <2>3, <2>4
  <2>6. QED
    BY <2>4, <2>5
<1>5. ASSUME NEW i \in 0..(Width - 1), i \in P PROVE i + 1 \in P
  <2>1. /\ t[i].p = Xor(r[i].p, s[i].p)
        /\ t[i].b = Xor(r[i].b, s[i].b)
        /\ t[i].a = r[i].a /\ t[i].a = s[i].a
    BY <1>5
  <2>2. /\ i \in 0..Width /\ i + 1 \in 0..Width
        /\ r[i + 1].p = IF 0 \in r[i].b THEN Xor(r[i].p, r[i].a) ELSE r[i].p
        /\ r[i + 1].b = ShiftRight(r[i].b)
        /\ r[i + 1].a = Doubled(r[i].a)
    BY <1>1, MulRunStep
  <2>3. /\ s[i + 1].p = IF 0 \in s[i].b THEN Xor(s[i].p, s[i].a) ELSE s[i].p
        /\ s[i + 1].b = ShiftRight(s[i].b)
        /\ s[i + 1].a = Doubled(s[i].a)
    BY <1>2, MulRunStep
  <2>4. /\ t[i + 1].p = IF 0 \in t[i].b THEN Xor(t[i].p, t[i].a) ELSE t[i].p
        /\ t[i + 1].b = ShiftRight(t[i].b)
        /\ t[i + 1].a = Doubled(t[i].a)
    BY <1>0, <1>3, MulRunStep
  <2>5. r[i].b \in Bytes /\ s[i].b \in Bytes
    BY <1>1, <1>2, <2>2, MulRunType
  <2>6. t[i + 1].b = Xor(r[i + 1].b, s[i + 1].b)
    BY <2>1, <2>2, <2>3, <2>4, <2>5, ShiftRightAdds
  <2>7. t[i + 1].a = r[i + 1].a /\ t[i + 1].a = s[i + 1].a
    BY <2>1, <2>2, <2>3, <2>4
  <2>8. t[i + 1].p = Xor(r[i + 1].p, s[i + 1].p)
    <3>1. 0 \in t[i].b <=> ~(0 \in r[i].b <=> 0 \in s[i].b)
      BY <2>1 DEF Xor
    <3>2. PICK p, q, u : p = r[i].p /\ q = s[i].p /\ u = t[i].a
      OBVIOUS
    <3>3. /\ Xor(Xor(p, u), Xor(q, u)) = Xor(p, q)
          /\ Xor(Xor(p, u), q) = Xor(Xor(p, q), u)
          /\ Xor(p, Xor(q, u)) = Xor(Xor(p, q), u)
      BY DEF Xor
    <3>4. /\ t[i + 1].p = IF 0 \in t[i].b THEN Xor(Xor(p, q), u) ELSE Xor(p, q)
          /\ r[i + 1].p = IF 0 \in r[i].b THEN Xor(p, u) ELSE p
          /\ s[i + 1].p = IF 0 \in s[i].b THEN Xor(q, u) ELSE q
      BY <2>1, <2>2, <2>3, <2>4, <3>2
    <3>5. QED
      BY <3>1, <3>3, <3>4
  <2>9. QED
    BY <2>2, <2>6, <2>7, <2>8
<1>6. Width \in P
  <2> HIDE DEF P
  <2>1. QED
    BY <1>4, <1>5, RoundInduction
<1>7. QED
  BY <1>1, <1>2, <1>3, <1>6

(* Doubling a factor doubles the product.                                  *)
LEMMA MulDoublesLeft ==
  \A a, b \in Bytes : gfMul(Doubled(a), b) = Doubled(gfMul(a, b))
<1> SUFFICES ASSUME NEW a \in Bytes, NEW b \in Bytes
    PROVE  gfMul(Doubled(a), b) = Doubled(gfMul(a, b))
  OBVIOUS
<1>0. Doubled(a) \in Bytes /\ Doubled({}) = {}
  <2>1. ShiftLeft({}) = {}
    BY DEF ShiftLeft
  <2>2. QED
    BY <2>1, DoubledType DEF Doubled
<1>1. PICK r : IsMulRun(r, a, b) /\ gfMul(a, b) = r[Width].p
  BY MulRuns
<1>2. PICK t : IsMulRun(t, Doubled(a), b) /\ gfMul(Doubled(a), b) = t[Width].p
  BY <1>0, MulRuns
<1> DEFINE P == {i \in 0..Width : /\ t[i].p = Doubled(r[i].p)
                                  /\ t[i].a = Doubled(r[i].a)
                                  /\ t[i].b = r[i].b}
<1>3. 0 \in P
  <2>1. r[0].p = {} /\ r[0].a = a /\ r[0].b = b
    BY <1>1, MulRunStart
  <2>2. t[0].p = {} /\ t[0].a = Doubled(a) /\ t[0].b = b
    BY <1>0, <1>2, MulRunStart
  <2>3. QED
    BY <1>0, <2>1, <2>2, WidthAssumption
<1>4. ASSUME NEW i \in 0..(Width - 1), i \in P PROVE i + 1 \in P
  <2>1. t[i].p = Doubled(r[i].p) /\ t[i].a = Doubled(r[i].a) /\ t[i].b = r[i].b
    BY <1>4
  <2>2. /\ i \in 0..Width /\ i + 1 \in 0..Width
        /\ r[i + 1].p = IF 0 \in r[i].b THEN Xor(r[i].p, r[i].a) ELSE r[i].p
        /\ r[i + 1].a = Doubled(r[i].a)
        /\ r[i + 1].b = ShiftRight(r[i].b)
    BY <1>1, MulRunStep
  <2>3. /\ t[i + 1].p = IF 0 \in t[i].b THEN Xor(t[i].p, t[i].a) ELSE t[i].p
        /\ t[i + 1].a = Doubled(t[i].a)
        /\ t[i + 1].b = ShiftRight(t[i].b)
    BY <1>0, <1>2, MulRunStep
  <2>4. r[i].a \in Bytes /\ r[i].p \in Bytes
    BY <1>1, <2>2, MulRunType
  <2>5. t[i + 1].a = Doubled(r[i + 1].a) /\ t[i + 1].b = r[i + 1].b
    BY <2>1, <2>2, <2>3
  <2>6. t[i + 1].p = Doubled(r[i + 1].p)
    BY <2>1, <2>2, <2>3, <2>4, DoubledAdds
  <2>7. QED
    BY <2>2, <2>5, <2>6
<1>5. Width \in P
  <2> HIDE DEF P
  <2>1. QED
    BY <1>3, <1>4, RoundInduction
<1>6. QED
  BY <1>1, <1>2, <1>5

(* A factor of zero makes the product zero: every byte ^ed into p, or none, *)
(* is.                                                                      *)
LEMMA MulByEmpty == \A a \in Bytes : gfMul(a, {}) = {} /\ gfMul({}, a) = {}
<1> SUFFICES ASSUME NEW a \in Bytes PROVE gfMul(a, {}) = {} /\ gfMul({}, a) = {}
  OBVIOUS
<1>1. Xor({}, {}) = {} /\ {} \in Bytes
  BY XorEmpty, BytesAre
<1>2. /\ gfMul(a, {}) = Xor(gfMul(a, {}), gfMul(a, {}))
      /\ gfMul({}, a) = Xor(gfMul({}, a), gfMul({}, a))
  BY <1>1, MulAddsLeft, MulAddsRight
<1>3. QED
  BY <1>2, XorEmpty

(* One is a unit on the right: only the first round adds anything.          *)
LEMMA MulByOne == \A a \in Bytes : gfMul(a, One) = a
<1> SUFFICES ASSUME NEW a \in Bytes PROVE gfMul(a, One) = a
  OBVIOUS
<1>1. PICK r : IsMulRun(r, a, One) /\ gfMul(a, One) = r[Width].p
  BY BytesAre, MulRuns
<1>2. ShiftRight(One) = {} /\ ShiftRight({}) = {} /\ 0 \in One
  BY DEF ShiftRight, One
<1> DEFINE P == {i \in 0..Width :
                   IF i = 0 THEN r[i].p = {} /\ r[i].a = a /\ r[i].b = One
                            ELSE r[i].p = a /\ r[i].b = {}}
<1>3. 0 \in P
  <2>1. r[0].p = {} /\ r[0].a = a /\ r[0].b = One
    BY <1>1, MulRunStart, BytesAre
  <2>2. QED
    BY <2>1, WidthAssumption
<1>4. ASSUME NEW i \in 0..(Width - 1), i \in P PROVE i + 1 \in P
  <2>1. /\ i \in 0..Width /\ i + 1 \in 0..Width
        /\ r[i + 1].p = IF 0 \in r[i].b THEN Xor(r[i].p, r[i].a) ELSE r[i].p
        /\ r[i + 1].b = ShiftRight(r[i].b)
    BY <1>1, MulRunStep, BytesAre
  <2>2. r[i + 1].p = a /\ r[i + 1].b = {}
    <3>1. CASE i = 0
      <4>1. r[i].p = {} /\ r[i].a = a /\ r[i].b = One
        BY <1>4, <3>1
      <4>2. QED
        BY <1>2, <2>1, <4>1, XorEmpty
    <3>2. CASE i # 0
      <4>1. r[i].p = a /\ r[i].b = {}
        BY <1>4, <3>2
      <4>2. QED
        BY <1>2, <2>1, <4>1
    <3>3. QED
      BY <3>1, <3>2
  <2>3. i + 1 # 0
    BY WidthAssumption
  <2>4. QED
    BY <2>1, <2>2, <2>3
<1>5. Width \in P
  <2> HIDE DEF P
  <2>1. QED
    BY <1>3, <1>4, RoundInduction
<1>6. QED
  BY <1>1, <1>5, WidthAssumption

(* A factor that is shifted without overflow.                              *)
LEMMA MulShifted ==
  ASSUME NEW a \in Bytes, NEW b \in Bytes, Width - 1 \notin b
  PROVE  gfMul(a, ShiftLeft(b)) = gfMul(Doubled(a), b)
<1>0. PICK last \in Nat : last = Width - 1 /\ Width = last + 1
  BY WidthAssumption
<1>1. Doubled(a) \in Bytes /\ ShiftLeft(b) \in Bytes
  BY DoubledType, ShiftLeftType
<1>2. PICK r : IsMulRun(r, a, ShiftLeft(b)) /\ gfMul(a, ShiftLeft(b)) = r[Width].p
  BY <1>1, MulRuns
<1>3. PICK t : IsMulRun(t, Doubled(a), b) /\ gfMul(Doubled(a), b) = t[Width].p
  BY <1>1, MulRuns
<1>4. b \subseteq 0..last /\ last \notin b
  BY <1>0 DEF Bytes, Bits
<1>5. 0 \notin ShiftLeft(b) /\ ShiftRight(ShiftLeft(b)) = b
  <2>1. \A i : i \in ShiftLeft(b) <=> i \in Int /\ i - 1 \in b
    BY <1>0, <1>4 DEF ShiftLeft
  <2>2. 0 \notin ShiftLeft(b)
    BY <1>4, <2>1
  <2>3. ShiftLeft(b) \subseteq Int
    BY <2>1
  <2>4. \A i : i \in ShiftRight(ShiftLeft(b)) <=> i \in Int /\ i + 1 \in ShiftLeft(b)
    BY <2>2, <2>3 DEF ShiftRight
  <2>5. ASSUME NEW i PROVE i \in ShiftRight(ShiftLeft(b)) <=> i \in b
    <3>1. i \in b => i \in Int /\ i + 1 \in Int /\ i + 1 - 1 = i
      BY <1>4
    <3>2. i \in Int => i + 1 - 1 = i
      OBVIOUS
    <3>3. QED
      BY <2>1, <2>4, <3>1, <3>2
  <2>6. QED
    BY <2>2, <2>5
<1> DEFINE P == {i \in 0..last : /\ r[i + 1].p = t[i].p /\ r[i + 1].a = t[i].a
                                 /\ r[i + 1].b = t[i].b
                                 /\ \A j \in t[i].b : j + i < last}
<1>6. 0 \in P
  <2>1. r[0].p = {} /\ r[0].a = a /\ r[0].b = ShiftLeft(b)
    BY <1>1, <1>2, MulRunStart
  <2>2. t[0].p = {} /\ t[0].a = Doubled(a) /\ t[0].b = b
    BY <1>1, <1>3, MulRunStart
  <2>3. 0 \in 0..(Width - 1) /\ 0 + 1 = 1
    BY <1>0
  <2>4. /\ r[0 + 1].p = IF 0 \in r[0].b THEN Xor(r[0].p, r[0].a) ELSE r[0].p
        /\ r[0 + 1].a = Doubled(r[0].a)
        /\ r[0 + 1].b = ShiftRight(r[0].b)
    BY <1>1, <1>2, <2>3, MulRunStep
  <2>5. r[0 + 1].p = t[0].p /\ r[0 + 1].a = t[0].a /\ r[0 + 1].b = t[0].b
    BY <1>5, <2>1, <2>2, <2>4
  <2>6. \A j \in t[0].b : j + 0 < last
    BY <1>4, <2>2
  <2>7. QED
    BY <1>0, <2>5, <2>6
<1>7. ASSUME NEW i \in 0..(last - 1), i \in P PROVE i + 1 \in P
  <2>1. /\ r[i + 1].p = t[i].p /\ r[i + 1].a = t[i].a /\ r[i + 1].b = t[i].b
        /\ \A j \in t[i].b : j + i < last
    BY <1>7
  <2>2. PICK m \in 0..(Width - 1) : m = i + 1 /\ m \in 0..last
    BY <1>0
  <2>3. i \in 0..(Width - 1)
    BY <1>0
  <2>4. /\ t[i + 1].p = IF 0 \in t[i].b THEN Xor(t[i].p, t[i].a) ELSE t[i].p
        /\ t[i + 1].a = Doubled(t[i].a)
        /\ t[i + 1].b = ShiftRight(t[i].b)
        /\ i \in 0..Width
    BY <1>1, <1>3, <2>3, MulRunStep
  <2>5. /\ r[m + 1].p = IF 0 \in r[m].b THEN Xor(r[m].p, r[m].a) ELSE r[m].p
        /\ r[m + 1].a = Doubled(r[m].a)
        /\ r[m + 1].b = ShiftRight(r[m].b)
    BY <1>1, <1>2, MulRunStep
  <2>6. r[m + 1].p = t[m].p /\ r[m + 1].a = t[m].a /\ r[m + 1].b = t[m].b
    BY <2>1, <2>2, <2>4, <2>5
  <2>7. \A j \in t[m].b : j + m < last
    <3>1. t[i].b \subseteq Int
      <4>1. t[i].b \in Bytes
        BY <1>1, <1>3, <2>4, MulRunType
      <4>2. QED
        BY <1>0, <4>1 DEF Bytes, Bits
    <3>2. \A j \in t[m].b : j \in Int /\ j + 1 \in t[i].b
      BY <2>2, <2>4, <3>1 DEF ShiftRight
    <3>3. QED
      BY <1>0, <2>1, <2>2, <3>2
  <2>8. QED
    BY <2>2, <2>6, <2>7
<1>8. last \in P
  <2> HIDE DEF P
  <2>1. 0..last \subseteq P
    BY <1>6, <1>7, BoundedInduction
  <2>2. QED
    BY <2>1
<1>9. r[Width].p = t[last].p /\ 0 \notin t[last].b
  BY <1>0, <1>8
<1>10. t[Width].p = t[last].p
  <2>1. last \in 0..(Width - 1)
    BY <1>0
  <2>2. t[last + 1].p = IF 0 \in t[last].b THEN Xor(t[last].p, t[last].a) ELSE t[last].p
    BY <1>1, <1>3, <2>1, MulRunStep
  <2>3. QED
    BY <1>0, <1>9, <2>2
<1>11. QED
  BY <1>2, <1>3, <1>9, <1>10

(* The bytes with one bit: doubling passes from each to the next, until it  *)
(* overflows.                                                              *)
LEMMA Doubling ==
  /\ \A i \in 0..(Width - 2) : ShiftLeft({i}) = {i + 1} /\ Doubled({i}) = {i + 1}
  /\ Doubled({Width - 1}) = Reduction
<1>1. ASSUME NEW i \in 0..(Width - 2) PROVE ShiftLeft({i}) = {i + 1} /\ Doubled({i}) = {i + 1}
  BY WidthAssumption DEF ShiftLeft, Doubled
<1>2. ShiftLeft({Width - 1}) = {}
  BY DEF ShiftLeft
<1>3. QED
  BY <1>1, <1>2, XorEmpty DEF Doubled

(* They generate every byte,                                               *)
LEMMA BitsGenerate ==
  ASSUME NEW S, \A i \in Bits : {i} \in S, \A a, b \in Bytes \cap S : Xor(a, b) \in S
  PROVE  Bytes \subseteq S
<1> DEFINE P == {n \in 0..Width : \A b \in Bytes : b \subseteq 0..(n - 1) => b \in S}
<1>1. 0 \in P
  <2>1. {0} \in S /\ {0} \in Bytes
    BY WidthAssumption DEF Bytes, Bits
  <2>2. Xor({0}, {0}) = {}
    BY XorEmpty
  <2>3. {} \in S
    BY <2>1, <2>2
  <2>4. \A b \in Bytes : b \subseteq 0..(0 - 1) => b \in S
    <3>1. 0..(0 - 1) = {}
      OBVIOUS
    <3>2. \A b \in Bytes : b \subseteq {} => b \in S
      BY <2>3
    <3>3. QED
      BY <3>1, <3>2
  <2>5. 0 \in 0..Width
    BY WidthAssumption
  <2>6. QED
    BY <2>4, <2>5
<1>2. ASSUME NEW n \in 0..(Width - 1), n \in P PROVE n + 1 \in P
  <2>1. n + 1 \in 0..Width /\ n \in Nat
    BY WidthAssumption
  <2>2. ASSUME NEW b \in Bytes, b \subseteq 0..n PROVE b \in S
    <3>1. b \ {n} \in Bytes /\ b \ {n} \subseteq 0..(n - 1)
      BY <2>1, <2>2 DEF Bytes
    <3>2. b \ {n} \in S
      BY <1>2, <3>1
    <3>3. CASE n \in b
      <4>1. {n} \in Bytes /\ {n} \in S
        BY <3>3 DEF Bytes
      <4>2. b = Xor(b \ {n}, {n})
        BY <3>3 DEF Xor
      <4>3. QED
        BY <3>1, <3>2, <4>1, <4>2
    <3>4. CASE n \notin b
      <4>1. b \ {n} = b
        BY <3>4
      <4>2. QED
        BY <3>2, <4>1
    <3>5. QED
      BY <3>3, <3>4
  <2>3. n + 1 - 1 = n
    BY <2>1
  <2>4. QED
    BY <2>1, <2>2, <2>3
<1>3. Width \in P
  <2> HIDE DEF P
  <2>1. QED
    BY <1>1, <1>2, RoundInduction
<1>4. QED
  BY <1>3 DEF Bytes, Bits

(* and so does doubling, from one.                                         *)
LEMMA OneGenerates ==
  ASSUME NEW S, One \in S, \A a \in Bytes \cap S : Doubled(a) \in S,
         \A a, b \in Bytes \cap S : Xor(a, b) \in S
  PROVE  Bytes \subseteq S
<1>0. PICK last \in Nat : last = Width - 1 /\ Width - 2 = last - 1
  BY WidthAssumption
<1> DEFINE P == {i \in 0..last : {i} \in S}
<1>1. 0 \in P
  BY <1>0 DEF One
<1>2. ASSUME NEW i \in 0..(last - 1), i \in P PROVE i + 1 \in P
  <2>1. {i} \in Bytes \cap S
    BY <1>0, <1>2 DEF Bytes, Bits
  <2>2. Doubled({i}) = {i + 1}
    BY <1>0, Doubling
  <2>3. i + 1 \in 0..last
    BY <1>0
  <2>4. QED
    BY <2>1, <2>2, <2>3
<1>3. 0..last \subseteq P
  <2> HIDE DEF P
  <2>1. QED
    BY <1>1, <1>2, BoundedInduction
<1>4. \A i \in Bits : {i} \in S
  BY <1>0, <1>3 DEF Bits
<1>5. QED
  BY <1>4, BitsGenerate

(* One is a unit on the left: what is doubled i times is the i-th bit.      *)
LEMMA MulOneLeft == \A b \in Bytes : gfMul(One, b) = b
<1> DEFINE S == {b \in Bytes : gfMul(One, b) = b}
<1>0. PICK last \in Nat : last = Width - 1 /\ Width - 2 = last - 1 /\ Bits = 0..last
  BY WidthAssumption DEF Bits
<1>1. {0} \in S
  BY MulByOne, BytesAre DEF One
<1>2. ASSUME NEW i \in 0..(last - 1), {i} \in S PROVE {i + 1} \in S
  <2>1. {i} \in Bytes /\ {i + 1} \in Bytes /\ Width - 1 \notin {i}
    BY <1>0, BytesAre
  <2>2. ShiftLeft({i}) = {i + 1} /\ Doubled({i}) = {i + 1}
    BY <1>0, Doubling
  <2>3. gfMul(One, {i + 1}) = gfMul(Doubled(One), {i})
    BY <2>1, <2>2, MulShifted, BytesAre
  <2>4. gfMul(Doubled(One), {i}) = Doubled(gfMul(One, {i}))
    BY <2>1, MulDoublesLeft, BytesAre
  <2>5. gfMul(One, {i}) = {i}
    BY <1>2
  <2>6. QED
    BY <2>1, <2>2, <2>3, <2>4, <2>5
<1>3. ASSUME NEW a \in Bytes \cap S, NEW b \in Bytes \cap S PROVE Xor(a, b) \in S
  BY <1>3, XorType, MulAddsRight, BytesAre
<1> DEFINE P == {i \in 0..last : {i} \in S}
<1>4. 0..last \subseteq P
  <2>1. 0 \in P
    BY <1>1
  <2>2. ASSUME NEW i \in 0..(last - 1), i \in P PROVE i + 1 \in P
    <3>1. {i} \in S
      BY <2>2
    <3>2. {i + 1} \in S
      BY <1>2, <3>1
    <3>3. QED
      BY <3>2
  <2> HIDE DEF P
  <2>3. QED
    BY <2>1, <2>2, BoundedInduction
<1>5. \A i \in Bits : {i} \in S
  BY <1>0, <1>4
<1>6. Bytes \subseteq S
  <2> HIDE DEF S
  <2>1. QED
    BY <1>3, <1>5, BitsGenerate
<1>7. QED
  BY <1>6

(* The overflowing bit is reduced as the modulus says.                     *)
LEMMA MulReduced ==
  \A a \in Bytes : gfMul(a, Reduction) = Doubled(gfMul(a, {Width - 1}))
<1> DEFINE high == {Width - 1}
<1> DEFINE S == {a \in Bytes : gfMul(a, Reduction) = Doubled(gfMul(a, high))}
<1>1. high \in Bytes
  BY BytesAre, WidthAssumption DEF Bits
<1>2. One \in S
  <2>1. gfMul(One, Reduction) = Reduction /\ gfMul(One, high) = high
    BY <1>1, BytesAre, MulOneLeft
  <2>2. QED
    BY <2>1, Doubling, BytesAre
<1> HIDE DEF high
<1>3. ASSUME NEW a \in Bytes \cap S PROVE Doubled(a) \in S
  <2>1. gfMul(a, Reduction) = Doubled(gfMul(a, high))
    BY <1>3
  <2>2. /\ gfMul(Doubled(a), Reduction) = Doubled(gfMul(a, Reduction))
        /\ gfMul(Doubled(a), high) = Doubled(gfMul(a, high))
    BY <1>1, BytesAre, MulDoublesLeft
  <2>3. QED
    BY <2>1, <2>2, DoubledType
<1>4. ASSUME NEW a \in Bytes \cap S, NEW b \in Bytes \cap S PROVE Xor(a, b) \in S
  <2>1. /\ gfMul(a, Reduction) = Doubled(gfMul(a, high))
        /\ gfMul(b, Reduction) = Doubled(gfMul(b, high))
    BY <1>4
  <2>2. /\ gfMul(Xor(a, b), Reduction) = Xor(gfMul(a, Reduction), gfMul(b, Reduction))
        /\ gfMul(Xor(a, b), high) = Xor(gfMul(a, high), gfMul(b, high))
    BY <1>1, BytesAre, MulAddsLeft
  <2>3. gfMul(a, high) \in Bytes /\ gfMul(b, high) \in Bytes
    BY <1>1, MulType
  <2>4. QED
    BY <2>1, <2>2, <2>3, XorType, DoubledAdds
<1>5. Bytes \subseteq S
  <2> HIDE DEF S
  <2>1. QED
    BY <1>2, <1>3, <1>4, OneGenerates
<1>6. QED
  BY <1>5 DEF high

(* Doubling the second factor doubles the product, too.                    *)
LEMMA MulDoublesRight ==
  \A a, b \in Bytes : gfMul(a, Doubled(b)) = Doubled(gfMul(a, b))
<1> SUFFICES ASSUME NEW a \in Bytes
    PROVE  \A b \in Bytes : gfMul(a, Doubled(b)) = Doubled(gfMul(a, b))
  OBVIOUS
<1> DEFINE S == {b \in Bytes : gfMul(a, Doubled(b)) = Doubled(gfMul(a, b))}
<1>1. ASSUME NEW i \in Bits PROVE {i} \in S
  <2>1. {i} \in Bytes
    BY BytesAre
  <2>2. CASE i = Width - 1
    BY <2>1, <2>2, Doubling, MulReduced
  <2>3. CASE i # Width - 1
    <3>1. i \in 0..(Width - 2) /\ Width - 1 \notin {i}
      BY <2>3, WidthAssumption DEF Bits
    <3>2. Doubled({i}) = ShiftLeft({i})
      BY <3>1, Doubling
    <3>3. gfMul(a, ShiftLeft({i})) = gfMul(Doubled(a), {i})
      BY <2>1, <3>1, MulShifted
    <3>4. gfMul(Doubled(a), {i}) = Doubled(gfMul(a, {i}))
      BY <2>1, MulDoublesLeft
    <3>5. QED
      BY <2>1, <3>2, <3>3, <3>4
  <2>4. QED
    BY <2>2, <2>3
<1>2. ASSUME NEW b \in Bytes \cap S, NEW c \in Bytes \cap S PROVE Xor(b, c) \in S
  <2>1. /\ gfMul(a, Doubled(b)) = Doubled(gfMul(a, b))
        /\ gfMul(a, Doubled(c)) = Doubled(gfMul(a, c))
    BY <1>2
  <2>2. gfMul(a, Doubled(Xor(b, c))) = gfMul(a, Xor(Doubled(b), Doubled(c)))
    BY DoubledAdds
  <2>3. gfMul(a, Xor(Doubled(b), Doubled(c))) = Xor(gfMul(a, Doubled(b)), gfMul(a, Doubled(c)))
    BY DoubledType, MulAddsRight
  <2>4. Doubled(gfMul(a, Xor(b, c))) = Xor(Doubled(gfMul(a, b)), Doubled(gfMul(a, c)))
    BY MulType, MulAddsRight, DoubledAdds
  <2>5. QED
    BY <2>1, <2>2, <2>3, <2>4, XorType
<1>3. Bytes \subseteq S
  <2> HIDE DEF S
  <2>1. QED
    BY <1>1, <1>2, BitsGenerate
<1>4. QED
  BY <1>3

(* Multiplication commutes                                                 *)
THEOREM MulCommutes == \A a, b \in Bytes : gfMul(a, b) = gfMul(b, a)
<1> SUFFICES ASSUME NEW a \in Bytes PROVE \A b \in Bytes : gfMul(a, b) = gfMul(b, a)
  OBVIOUS
<1> DEFINE S == {b \in Bytes : gfMul(a, b) = gfMul(b, a)}
<1>1. One \in S
  BY MulByOne, MulOneLeft, BytesAre
<1>2. ASSUME NEW b \in Bytes \cap S PROVE Doubled(b) \in S
  <2>1. gfMul(a, b) = gfMul(b, a)
    BY <1>2
  <2>2. gfMul(a, Doubled(b)) = Doubled(gfMul(a, b)) /\ gfMul(Doubled(b), a) = Doubled(gfMul(b, a))
    BY MulDoublesLeft, MulDoublesRight
  <2>3. QED
    BY <2>1, <2>2, DoubledType
<1>3. ASSUME NEW b \in Bytes \cap S, NEW c \in Bytes \cap S PROVE Xor(b, c) \in S
  <2>1. gfMul(a, b) = gfMul(b, a) /\ gfMul(a, c) = gfMul(c, a)
    BY <1>3
  <2>2. /\ gfMul(a, Xor(b, c)) = Xor(gfMul(a, b), gfMul(a, c))
        /\ gfMul(Xor(b, c), a) = Xor(gfMul(b, a), gfMul(c, a))
    BY MulAddsLeft, MulAddsRight
  <2>3. QED
    BY <2>1, <2>2, XorType
<1>4. Bytes \subseteq S
  <2> HIDE DEF S
  <2>1. QED
    BY <1>1, <1>2, <1>3, OneGenerates
<1>5. QED
  BY <1>4

(* and associates.                                                         *)
THEOREM MulAssociates ==
  \A a, b, c \in Bytes : gfMul(gfMul(a, b), c) = gfMul(a, gfMul(b, c))
<1> SUFFICES ASSUME NEW a \in Bytes, NEW b \in Bytes
    PROVE  \A c \in Bytes : gfMul(gfMul(a, b), c) = gfMul(a, gfMul(b, c))
  OBVIOUS
<1> DEFINE S == {c \in Bytes : gfMul(gfMul(a, b), c) = gfMul(a, gfMul(b, c))}
<1>0. gfMul(a, b) \in Bytes
  BY MulType
<1>1. One \in S
  BY <1>0, MulByOne, BytesAre
<1>2. ASSUME NEW c \in Bytes \cap S PROVE Doubled(c) \in S
  <2>1. gfMul(gfMul(a, b), c) = gfMul(a, gfMul(b, c)) /\ gfMul(b, c) \in Bytes
    BY <1>2, MulType
  <2>2. gfMul(gfMul(a, b), Doubled(c)) = Doubled(gfMul(gfMul(a, b), c))
    BY <1>0, MulDoublesRight
  <2>3. gfMul(a, gfMul(b, Doubled(c))) = Doubled(gfMul(a, gfMul(b, c)))
    BY <2>1, MulDoublesRight
  <2>4. QED
    BY <2>1, <2>2, <2>3, DoubledType
<1>3. ASSUME NEW c \in Bytes \cap S, NEW d \in Bytes \cap S PROVE Xor(c, d) \in S
  <2>1. /\ gfMul(gfMul(a, b), c) = gfMul(a, gfMul(b, c)) /\ gfMul(b, c) \in Bytes
        /\ gfMul(gfMul(a, b), d) = gfMul(a, gfMul(b, d)) /\ gfMul(b, d) \in Bytes
    BY <1>3, MulType
  <2>2. gfMul(gfMul(a, b), Xor(c, d)) = Xor(gfMul(gfMul(a, b), c), gfMul(gfMul(a, b), d))
    BY <1>0, MulAddsRight
  <2>3. gfMul(a, gfMul(b, Xor(c, d))) = Xor(gfMul(a, gfMul(b, c)), gfMul(a, gfMul(b, d)))
    BY <2>1, MulAddsRight
  <2>4. QED
    BY <2>1, <2>2, <2>3, XorType
<1>4. Bytes \subseteq S
  <2> HIDE DEF S
  <2>1. QED
    BY <1>1, <1>2, <1>3, OneGenerates
<1>5. QED
  BY <1>4

(* A product of four factors, the inner two exchanged.                      *)
LEMMA MulRegroups ==
  \A a, b, c, d \in Bytes :
    gfMul(gfMul(a, b), gfMul(c, d)) = gfMul(gfMul(a, c), gfMul(b, d))
<1> SUFFICES ASSUME NEW a \in Bytes, NEW b \in Bytes, NEW c \in Bytes, NEW d \in Bytes
             PROVE  gfMul(gfMul(a, b), gfMul(c, d)) = gfMul(gfMul(a, c), gfMul(b, d))
  OBVIOUS
<1>1. gfMul(gfMul(a, b), gfMul(c, d)) = gfMul(a, gfMul(b, gfMul(c, d)))
  BY MulAssociates, MulType
<1>2. gfMul(gfMul(a, c), gfMul(b, d)) = gfMul(a, gfMul(c, gfMul(b, d)))
  BY MulAssociates, MulType
<1>3. gfMul(b, gfMul(c, d)) = gfMul(gfMul(b, c), d)
  BY MulAssociates
<1>4. gfMul(c, gfMul(b, d)) = gfMul(gfMul(c, b), d)
  BY MulAssociates
<1>5. gfMul(b, c) = gfMul(c, b)
  BY MulCommutes
<1>6. QED
  BY <1>1, <1>2, <1>3, <1>4, <1>5

----------------------------------------------------------------------------
(* Polynomials as sets of exponents.  Multiplying by x^i shifts them.       *)
Polys(n) == SUBSET (0..(n - 1))
Shifted(p, i) == {j + i : j \in p}

(* One step of the long division: the term of degree d is cancelled.        *)
Cancel(r, d) == IF d \in r THEN Xor(r, {i + d - Width : i \in {Width} \cup Reduction}) ELSE r

(* The degree that is cancelled in the i-th step, from the highest down.    *)
IsRemRun(f, p) ==
  /\ f \in [0..(Width - 1) -> SUBSET Nat]
  /\ f[0] = p
  /\ \A i \in 1..(Width - 1) : f[i] = Cancel(f[i - 1], 2 * Width - 1 - i)

(* A step of the division leaves a polynomial.                              *)
LEMMA CancelType ==
  ASSUME NEW r \in SUBSET Nat, NEW d \in Nat, d >= Width
  PROVE  Cancel(r, d) \in SUBSET Nat
<1>1. PICK w \in Nat : w = Width /\ w # 0
  BY WidthAssumption
<1>2. \A i \in {w} \cup Reduction : i + d - w \in Nat
  BY <1>1, ReductionAssumption
<1>3. QED
  BY <1>1, <1>2 DEF Cancel, Xor

(* PolyRemainder is the last step of the division.                          *)
LEMMA RemainderRuns ==
  ASSUME NEW p \in SUBSET Nat
  PROVE  \E f : IsRemRun(f, p) /\ PolyRemainder(p) = f[Width - 1]
<1>0. PICK w \in Nat \ {0}, n \in Nat : w = Width /\ n = w - 1
  BY WidthAssumption
<1> DEFINE S == SUBSET Nat
<1> DEFINE step == [z \in (1..n) \X S |-> Cancel(z[2], 2 * w - 1 - z[1])]
<1> DEFINE Rounds(g) ==
      g = [d \in w..(2 * w - 1) |-> IF d = 2 * w - 1 THEN p ELSE Cancel(g[d + 1], d)]
<1>1. \A i \in 1..n : 2 * w - 1 - i \in Nat /\ 2 * w - 1 - i >= w
  BY <1>0
<1>2. step \in Steps(n, S)
  <2>1. \A z \in (1..n) \X S : Cancel(z[2], 2 * w - 1 - z[1]) \in S
    BY <1>0, <1>1, CancelType
  <2>2. QED
    BY <2>1 DEF Steps
<1>3. PICK f : IsRun(f, n, S, p, step)
  <2> HIDE DEF step
  <2>1. QED
    BY <1>2, LoopRuns
<1>4. \A i \in 1..n : f[i] = Cancel(f[i - 1], 2 * w - 1 - i)
  <2> SUFFICES ASSUME NEW i \in 1..n PROVE f[i] = Cancel(f[i - 1], 2 * w - 1 - i)
    OBVIOUS
  <2>1. f[i - 1] \in S
    BY <1>3 DEF IsRun
  <2>2. QED
    BY <1>3, <2>1 DEF IsRun
<1> HIDE DEF step
<1> DEFINE g == [d \in w..(2 * w - 1) |-> f[2 * w - 1 - d]]
<1>5. Rounds(g)
  <2>1. ASSUME NEW d \in w..(2 * w - 1), d # 2 * w - 1 PROVE g[d] = Cancel(g[d + 1], d)
    <3>1. PICK j \in 1..n : j = 2 * w - 1 - d /\ d = 2 * w - 1 - j
                            /\ j - 1 = 2 * w - 1 - (d + 1) /\ d + 1 \in w..(2 * w - 1)
      BY <1>0, <2>1
    <3>2. f[j] = Cancel(f[j - 1], d)
      BY <1>4, <3>1
    <3>3. g[d] = f[j] /\ g[d + 1] = f[j - 1]
      BY <3>1
    <3>4. QED
      BY <3>2, <3>3
  <2>2. g[2 * w - 1] = p
    <3>1. 2 * w - 1 \in w..(2 * w - 1) /\ 2 * w - 1 - (2 * w - 1) = 0
      BY <1>0
    <3>2. QED
      BY <1>3, <3>1 DEF IsRun
  <2>3. g = [d \in w..(2 * w - 1) |-> g[d]]
    OBVIOUS
  <2> HIDE DEF g
  <2>4. \A d \in w..(2 * w - 1) : g[d] = IF d = 2 * w - 1 THEN p ELSE Cancel(g[d + 1], d)
    BY <2>1, <2>2
  <2>5. QED
    BY <2>3, <2>4, Zenon
<1> HIDE DEF g
<1> DEFINE y[d \in w..(2 * w - 1)] == IF d = 2 * w - 1 THEN p ELSE Cancel(y[d + 1], d)
<1>6. PolyRemainder(p) = y[w]
  BY <1>0, Zenon DEF PolyRemainder, Cancel
<1>7. Rounds(y)
  BY <1>5
<1> HIDE DEF y
<1>8. y[2 * w - 1] = p /\ \A d \in w..(2 * w - 2) : y[d] = Cancel(y[d + 1], d)
  <2>1. \A d \in w..(2 * w - 1) : y[d] = IF d = 2 * w - 1 THEN p ELSE Cancel(y[d + 1], d)
    BY <1>7, Zenon
  <2>2. 2 * w - 1 \in w..(2 * w - 1) /\ \A d \in w..(2 * w - 2) : d \in w..(2 * w - 1) /\ d # 2 * w - 1
    BY <1>0
  <2>3. y[2 * w - 1] = p
    BY <2>1, <2>2
  <2>4. \A d \in w..(2 * w - 2) : y[d] = Cancel(y[d + 1], d)
    BY <2>1, <2>2
  <2>5. QED
    BY <2>3, <2>4
<1> DEFINE h == [i \in 0..n |-> y[2 * w - 1 - i]]
<1>9. h[0] = p /\ h[n] = y[w]
  <2>1. 0 \in 0..n /\ n \in 0..n /\ 2 * w - 1 - 0 = 2 * w - 1 /\ 2 * w - 1 - n = w
    BY <1>0
  <2>2. QED
    BY <1>8, <2>1
<1>10. ASSUME NEW i \in 1..n PROVE h[i] = Cancel(h[i - 1], 2 * w - 1 - i)
  <2>1. PICK d \in w..(2 * w - 2) : d = 2 * w - 1 - i /\ d + 1 = 2 * w - 1 - (i - 1) /\ i - 1 \in 0..n
    BY <1>0
  <2>2. y[d] = Cancel(y[d + 1], d)
    BY <1>8
  <2>3. h[i] = y[d] /\ h[i - 1] = y[d + 1]
    BY <2>1
  <2>4. QED
    BY <2>1, <2>2, <2>3
<1>11. \A i \in 0..n : h[i] \in S
  <2>0. h[0] = p /\ p \in S
    BY <1>9
  <2> HIDE DEF h
  <2>1. Keeps(h, n, S)
    <3>1. ASSUME NEW i \in 1..n, h[i - 1] \in S PROVE h[i] \in S
      <4>1. Cancel(h[i - 1], 2 * w - 1 - i) \in S
        BY <1>0, <1>1, <3>1, CancelType
      <4>2. QED
        BY <1>10, <4>1
    <3>2. QED
      BY <2>0, <3>1 DEF Keeps
  <2>2. QED
    BY <1>0, <2>1, LoopKeeps
<1>12. h \in [0..n -> S]
  BY <1>11
<1> HIDE DEF h
<1>13. IsRemRun(h, p)
  BY <1>0, <1>9, <1>10, <1>12 DEF IsRemRun
<1>14. QED
  BY <1>0, <1>6, <1>9, <1>13

(* The terms of degree d and above are gone after its step.                 *)
LEMMA RemainderType ==
  ASSUME NEW p \in SUBSET (0..(2 * Width - 2))
  PROVE  PolyRemainder(p) \in Bytes
<1>0. PICK w \in Nat \ {0}, n \in Nat : w = Width /\ n = w - 1
  BY WidthAssumption
<1>1. PICK f : IsRemRun(f, p) /\ PolyRemainder(p) = f[n]
  <2>1. p \in SUBSET Nat
    BY <1>0
  <2>2. QED
    BY <1>0, <2>1, RemainderRuns
<1> DEFINE P == {i \in 0..n : f[i] \subseteq 0..(2 * w - 2 - i)}
<1>2. 0 \in P
  BY <1>0, <1>1 DEF IsRemRun
<1>3. ASSUME NEW i \in 0..(n - 1), i \in P PROVE i + 1 \in P
  <2>1. PICK j \in 1..n, d \in Nat : j = i + 1 /\ j - 1 = i /\ d = 2 * w - 1 - j
                                     /\ d >= w /\ d = 2 * w - 2 - i /\ d - 1 = 2 * w - 2 - j
    BY <1>0
  <2>2. f[j] = Cancel(f[i], d)
    BY <1>0, <1>1, <2>1 DEF IsRemRun
  <2>3. PICK r : r = f[i] /\ r \subseteq 0..d
    BY <1>3, <2>1
  <2>4. ASSUME NEW m \in Cancel(r, d) PROVE m \in 0..(d - 1)
    <3>1. CASE d \notin r
      <4>1. m \in r /\ m # d
        BY <2>4, <3>1 DEF Cancel
      <4>2. QED
        BY <2>1, <2>3, <4>1
    <3>2. CASE d \in r
      <4>1. m \in Xor(r, {k + d - w : k \in {w} \cup Reduction})
        BY <1>0, <2>4, <3>2 DEF Cancel
      <4>2. w + d - w = d
        BY <1>0, <2>1
      <4>3. m # d
        BY <3>2, <4>1, <4>2 DEF Xor
      <4>4. CASE m \in r
        BY <2>1, <2>3, <4>3, <4>4
      <4>5. CASE m \in {k + d - w : k \in {w} \cup Reduction}
        <5>1. PICK k \in {w} \cup Reduction : m = k + d - w
          BY <4>5
        <5>2. k \in Reduction
          BY <4>2, <4>3, <5>1
        <5>3. k \in 0..(w - 1)
          BY <1>0, <5>2, ReductionAssumption
        <5>4. QED
          BY <1>0, <2>1, <5>1, <5>3
      <4>6. QED
        BY <4>1, <4>4, <4>5 DEF Xor
    <3>3. QED
      BY <3>1, <3>2
  <2>5. QED
    BY <2>1, <2>2, <2>3, <2>4
<1>4. 0..n \subseteq P
  <2> HIDE DEF P
  <2>1. QED
    BY <1>0, <1>2, <1>3, BoundedInduction
<1>5. n \in P /\ 2 * w - 2 - n = w - 1
  BY <1>0, <1>4
<1>6. QED
  BY <1>0, <1>1, <1>5 DEF Bytes, Bits

(* A byte is its own remainder.                                             *)
LEMMA RemainderOfByte == \A p \in Bytes : PolyRemainder(p) = p
<1> SUFFICES ASSUME NEW p \in Bytes PROVE PolyRemainder(p) = p
  OBVIOUS
<1>0. PICK w \in Nat \ {0}, n \in Nat : w = Width /\ n = w - 1
  BY WidthAssumption
<1>1. PICK f : IsRemRun(f, p) /\ PolyRemainder(p) = f[n]
  <2>1. p \in SUBSET Nat
    BY <1>0 DEF Bytes, Bits
  <2>2. QED
    BY <1>0, <2>1, RemainderRuns
<1> DEFINE P == {i \in 0..n : f[i] = p}
<1>2. 0 \in P
  BY <1>0, <1>1 DEF IsRemRun
<1>3. ASSUME NEW i \in 0..(n - 1), i \in P PROVE i + 1 \in P
  <2>1. PICK j \in 1..n, d \in Nat : j = i + 1 /\ j - 1 = i /\ d = 2 * w - 1 - j /\ d >= w
    BY <1>0
  <2>2. f[j] = Cancel(f[i], d)
    BY <1>0, <1>1, <2>1 DEF IsRemRun
  <2>3. d \notin p
    BY <1>0, <2>1 DEF Bytes, Bits
  <2>4. f[j] = p
    BY <1>3, <2>2, <2>3 DEF Cancel
  <2>5. QED
    BY <2>1, <2>4
<1>4. 0..n \subseteq P
  <2> HIDE DEF P
  <2>1. QED
    BY <1>0, <1>2, <1>3, BoundedInduction
<1>5. n \in P
  BY <1>0, <1>4
<1>6. QED
  BY <1>1, <1>5

(* Every step of the division distributes over ^,                           *)
LEMMA CancelAdds ==
  \A r, s, d : Cancel(Xor(r, s), d) = Xor(Cancel(r, d), Cancel(s, d))
<1> SUFFICES ASSUME NEW r, NEW s, NEW d
             PROVE  Cancel(Xor(r, s), d) = Xor(Cancel(r, d), Cancel(s, d))
  OBVIOUS
<1>1. PICK m : m = {i + d - Width : i \in {Width} \cup Reduction}
  OBVIOUS
<1>2. \A t : Cancel(t, d) = IF d \in t THEN Xor(t, m) ELSE t
  BY <1>1 DEF Cancel
<1>3. CASE d \in r /\ d \in s
  <2>1. d \notin Xor(r, s)
    BY <1>3 DEF Xor
  <2>2. Cancel(r, d) = Xor(r, m) /\ Cancel(s, d) = Xor(s, m) /\ Cancel(Xor(r, s), d) = Xor(r, s)
    BY <1>2, <1>3, <2>1
  <2>3. Xor(Xor(r, m), Xor(s, m)) = Xor(r, s)
    BY DEF Xor
  <2>4. QED
    BY <2>2, <2>3
<1>4. CASE d \in r /\ d \notin s
  <2>1. d \in Xor(r, s)
    BY <1>4 DEF Xor
  <2>2. Cancel(r, d) = Xor(r, m) /\ Cancel(s, d) = s /\ Cancel(Xor(r, s), d) = Xor(Xor(r, s), m)
    BY <1>2, <1>4, <2>1
  <2>3. Xor(Xor(r, m), s) = Xor(Xor(r, s), m)
    BY DEF Xor
  <2>4. QED
    BY <2>2, <2>3
<1>5. CASE d \notin r /\ d \in s
  <2>1. d \in Xor(r, s)
    BY <1>5 DEF Xor
  <2>2. Cancel(r, d) = r /\ Cancel(s, d) = Xor(s, m) /\ Cancel(Xor(r, s), d) = Xor(Xor(r, s), m)
    BY <1>2, <1>5, <2>1
  <2>3. Xor(r, Xor(s, m)) = Xor(Xor(r, s), m)
    BY DEF Xor
  <2>4. QED
    BY <2>2, <2>3
<1>6. CASE d \notin r /\ d \notin s
  <2>1. d \notin Xor(r, s)
    BY <1>6 DEF Xor
  <2>2. QED
    BY <1>2, <1>6, <2>1
<1>7. QED
  BY <1>3, <1>4, <1>5, <1>6

(* and so does the remainder.                                               *)
LEMMA RemainderAdds ==
  \A p, q \in SUBSET Nat :
    PolyRemainder(Xor(p, q)) = Xor(PolyRemainder(p), PolyRemainder(q))
<1> SUFFICES ASSUME NEW p \in SUBSET Nat, NEW q \in SUBSET Nat
             PROVE  PolyRemainder(Xor(p, q)) = Xor(PolyRemainder(p), PolyRemainder(q))
  OBVIOUS
<1>0. PICK w \in Nat \ {0}, n \in Nat : w = Width /\ n = w - 1
  BY WidthAssumption
<1>1. PICK f : IsRemRun(f, p) /\ PolyRemainder(p) = f[n]
  BY <1>0, RemainderRuns
<1>2. PICK g : IsRemRun(g, q) /\ PolyRemainder(q) = g[n]
  BY <1>0, RemainderRuns
<1>3. PICK h : IsRemRun(h, Xor(p, q)) /\ PolyRemainder(Xor(p, q)) = h[n]
  <2>1. Xor(p, q) \in SUBSET Nat
    BY DEF Xor
  <2>2. QED
    BY <1>0, <2>1, RemainderRuns
<1> DEFINE P == {i \in 0..n : h[i] = Xor(f[i], g[i])}
<1>4. 0 \in P
  BY <1>0, <1>1, <1>2, <1>3 DEF IsRemRun
<1>5. ASSUME NEW i \in 0..(n - 1), i \in P PROVE i + 1 \in P
  <2>1. PICK j \in 1..n, d \in Int : j = i + 1 /\ j - 1 = i /\ d = 2 * w - 1 - j
    BY <1>0
  <2>2. f[j] = Cancel(f[i], d) /\ g[j] = Cancel(g[i], d) /\ h[j] = Cancel(h[i], d)
    BY <1>0, <1>1, <1>2, <1>3, <2>1 DEF IsRemRun
  <2>3. h[j] = Xor(f[j], g[j])
    BY <1>5, <2>2, CancelAdds
  <2>4. QED
    BY <2>1, <2>3
<1>6. 0..n \subseteq P
  <2> HIDE DEF P
  <2>1. QED
    BY <1>0, <1>4, <1>5, BoundedInduction
<1>7. n \in P
  BY <1>0, <1>6
<1>8. QED
  BY <1>1, <1>2, <1>3, <1>7

(* To shift a polynomial is to double its remainder.                        *)
LEMMA RemainderShifts ==
  ASSUME NEW p \in SUBSET (0..(2 * Width - 3)), Width # 1
  PROVE  PolyRemainder(Shifted(p, 1)) = Doubled(PolyRemainder(p))
<1>0. PICK w \in Nat \ {0, 1}, n \in Nat, last \in Nat :
        w = Width /\ n = w - 1 /\ last = n - 1 /\ 0 \in 0..last
  BY WidthAssumption
<1>a. p \in SUBSET Nat /\ p \in SUBSET (0..(2 * w - 2)) /\ Shifted(p, 1) \in SUBSET Nat
  BY <1>0 DEF Shifted
<1>1. PICK f : IsRemRun(f, p) /\ PolyRemainder(p) = f[n]
  BY <1>0, <1>a, RemainderRuns
<1>2. PICK h : IsRemRun(h, Shifted(p, 1)) /\ PolyRemainder(Shifted(p, 1)) = h[n]
  BY <1>0, <1>a, RemainderRuns
<1> DEFINE P == {i \in 0..last : h[i] = Shifted(f[i + 1], 1)}
<1>3. 0 \in P
  <2>1. PICK d : d = 2 * w - 2 /\ d = 2 * w - 1 - 1 /\ 1 \in 1..n /\ 1 - 1 = 0
    BY <1>0
  <2>2. f[1] = Cancel(p, d)
    BY <1>0, <1>1, <2>1 DEF IsRemRun
  <2>3. d \notin p
    BY <1>0, <2>1
  <2>4. f[1] = p
    BY <2>2, <2>3 DEF Cancel
  <2>5. h[0] = Shifted(p, 1)
    BY <1>2 DEF IsRemRun
  <2>6. 0 + 1 = 1
    OBVIOUS
  <2>7. QED
    BY <1>0, <2>4, <2>5, <2>6
<1>4. ASSUME NEW r \in SUBSET Nat, NEW d \in Nat, d >= w
      PROVE  Cancel(Shifted(r, 1), d + 1) = Shifted(Cancel(r, d), 1)
  <2>1. PICK m, s : m = {k + d - w : k \in {w} \cup Reduction}
                    /\ s = {k + (d + 1) - w : k \in {w} \cup Reduction}
    OBVIOUS
  <2>2. d + 1 \in Shifted(r, 1) <=> d \in r
    BY <1>4 DEF Shifted
  <2>3. s = Shifted(m, 1) /\ m \in SUBSET Nat
    <3>1. \A k \in {w} \cup Reduction : k \in Nat /\ k + d - w \in Nat
                                        /\ k + (d + 1) - w = (k + d - w) + 1
      BY <1>0, <1>4, ReductionAssumption
    <3>2. m \in SUBSET Nat
      BY <2>1, <3>1
    <3>3. s = {i + 1 : i \in m}
      BY <2>1, <3>1
    <3>4. QED
      BY <3>2, <3>3 DEF Shifted
  <2>4. Xor(Shifted(r, 1), Shifted(m, 1)) = Shifted(Xor(r, m), 1)
    <3>1. \A i : i \in Shifted(r, 1) <=> i \in Nat \ {0} /\ i - 1 \in r
      BY DEF Shifted
    <3>2. \A i : i \in Shifted(m, 1) <=> i \in Nat \ {0} /\ i - 1 \in m
      BY <2>3 DEF Shifted
    <3>3. Xor(r, m) \in SUBSET Nat /\ \A i : i \in Xor(r, m) <=> (i \in r) # (i \in m)
      BY <2>3 DEF Xor
    <3>4. \A i : i \in Shifted(Xor(r, m), 1) <=> i \in Nat \ {0} /\ i - 1 \in Xor(r, m)
      BY <3>3 DEF Shifted
    <3>5. QED
      BY <3>1, <3>2, <3>3, <3>4 DEF Xor
  <2>5. Cancel(r, d) = IF d \in r THEN Xor(r, m) ELSE r
    BY <1>0, <2>1 DEF Cancel
  <2>6. Cancel(Shifted(r, 1), d + 1) =
          IF d + 1 \in Shifted(r, 1) THEN Xor(Shifted(r, 1), s) ELSE Shifted(r, 1)
    BY <1>0, <2>1 DEF Cancel
  <2>7. QED
    BY <2>2, <2>3, <2>4, <2>5, <2>6
<1>5. ASSUME NEW i \in 0..(last - 1), i \in P PROVE i + 1 \in P
  <2>1. PICK j \in 1..n, k \in 1..n, d \in Nat :
          /\ j = i + 1 /\ j - 1 = i /\ k = i + 2 /\ k - 1 = i + 1 /\ k = j + 1
          /\ d = 2 * w - 1 - k /\ d + 1 = 2 * w - 1 - j /\ d >= w /\ j \in 0..last
    BY <1>0
  <2>2. h[j] = Cancel(h[i], d + 1) /\ f[k] = Cancel(f[i + 1], d)
    BY <1>0, <1>1, <1>2, <2>1 DEF IsRemRun
  <2>3. PICK r \in SUBSET Nat : r = f[i + 1]
    BY <1>0, <1>1, <2>1 DEF IsRemRun
  <2>4. h[j] = Shifted(f[k], 1)
    BY <1>4, <1>5, <2>1, <2>2, <2>3
  <2>5. QED
    BY <2>1, <2>4
<1>6. last \in P
  <2>1. 0..last \subseteq P
    <3> HIDE DEF P
    <3>1. QED
      BY <1>0, <1>3, <1>5, BoundedInduction
  <2>2. QED
    BY <1>0, <2>1
<1>7. h[n] = Cancel(Shifted(f[n], 1), w)
  <2>1. n \in 1..n /\ n - 1 = last /\ last + 1 = n /\ 2 * w - 1 - n = w
    BY <1>0
  <2>2. h[n] = Cancel(h[last], w)
    BY <1>0, <1>2, <2>1 DEF IsRemRun
  <2>3. QED
    BY <1>6, <2>1, <2>2
<1>8. PICK r \in Bytes : r = f[n]
  BY <1>0, <1>1, <1>a, RemainderType
<1>9. Cancel(Shifted(r, 1), w) = Doubled(r)
  <2>1. r \subseteq 0..n
    BY <1>0 DEF Bytes, Bits
  <2>2. \A k \in {w} \cup Reduction : k + w - w = k
    BY <1>0, ReductionAssumption
  <2>3. {k + w - w : k \in {w} \cup Reduction} = {w} \cup Reduction
    BY <2>2
  <2>4. Cancel(Shifted(r, 1), w) =
          IF w \in Shifted(r, 1) THEN Xor(Shifted(r, 1), {w} \cup Reduction) ELSE Shifted(r, 1)
    BY <1>0, <2>3 DEF Cancel
  <2>5. w \in Shifted(r, 1) <=> n \in r
    BY <1>0, <2>1 DEF Shifted
  <2>6. ShiftLeft(r) = Shifted(r, 1) \ {w}
    BY <1>0, <2>1 DEF ShiftLeft, Shifted
  <2>7. w \notin Reduction
    BY <1>0, ReductionAssumption
  <2>8. Doubled(r) = IF n \in r THEN Xor(ShiftLeft(r), Reduction) ELSE ShiftLeft(r)
    BY <1>0 DEF Doubled
  <2>9. CASE n \in r
    <3>1. Xor(Shifted(r, 1), {w} \cup Reduction) = Xor(ShiftLeft(r), Reduction)
      BY <2>5, <2>6, <2>7, <2>9 DEF Xor
    <3>2. QED
      BY <2>4, <2>5, <2>8, <2>9, <3>1
  <2>10. CASE n \notin r
    BY <2>4, <2>5, <2>6, <2>8, <2>10
  <2>11. QED
    BY <2>9, <2>10
<1>10. QED
  BY <1>1, <1>2, <1>7, <1>8, <1>9

----------------------------------------------------------------------------
(* What is in just one of two sets is odd in number when just one of them is. *)
LEMMA OddXor ==
  ASSUME NEW A, NEW B, IsFiniteSet(A), IsFiniteSet(B)
  PROVE  Odd(Xor(A, B)) <=> ~(Odd(A) <=> Odd(B))
<1>1. /\ Cardinality(A \ B) = Cardinality(A) - Cardinality(A \cap B)
      /\ IsFiniteSet(A \ B)
  BY FS_Difference
<1>2. /\ Cardinality(B \ A) = Cardinality(B) - Cardinality(B \cap A)
      /\ IsFiniteSet(B \ A)
  BY FS_Difference
<1>3. Cardinality((A \ B) \cup (B \ A)) =
        Cardinality(A \ B) + Cardinality(B \ A) - Cardinality((A \ B) \cap (B \ A))
  BY <1>1, <1>2, FS_Union
<1>4. Cardinality((A \ B) \cap (B \ A)) = 0
  <2>1. (A \ B) \cap (B \ A) = {}
    OBVIOUS
  <2>2. QED
    BY <2>1, FS_EmptySet
<1>5. B \cap A = A \cap B /\ IsFiniteSet(A \cap B)
  <2>1. B \cap A = A \cap B
    OBVIOUS
  <2>2. QED
    BY <2>1, FS_Intersection
<1>6. Cardinality(A) \in Nat /\ Cardinality(B) \in Nat /\ Cardinality(A \cap B) \in Nat
  BY <1>5, FS_CardinalityType
<1>7. PICK a \in Nat, b \in Nat, c \in Nat :
        a = Cardinality(A) /\ b = Cardinality(B) /\ c = Cardinality(A \cap B)
  BY <1>6
<1>8. Cardinality(Xor(A, B)) = (a - c) + (b - c) - 0
  BY <1>1, <1>2, <1>3, <1>4, <1>5, <1>7 DEF Xor
<1>9. (((a - c) + (b - c) - 0) % 2 = 1) <=> ~((a % 2 = 1) <=> (b % 2 = 1))
  OBVIOUS
<1>10. QED
  BY <1>7, <1>8, <1>9 DEF Odd

(* One element is odd in number, none is not.                               *)
LEMMA OddSmall == (\A x : Odd({x})) /\ ~Odd({})
<1>1. \A x : Cardinality({x}) = 1
  BY FS_Singleton
<1>2. Cardinality({}) = 0
  BY FS_EmptySet
<1>3. 1 % 2 = 1 /\ 0 % 2 # 1
  OBVIOUS
<1>4. QED
  BY <1>1, <1>2, <1>3 DEF Odd

(* The product of polynomials distributes over ^,                           *)
LEMMA ProductAdds ==
  \A a, b, c \in Bytes : PolyProduct(a, Xor(b, c)) = Xor(PolyProduct(a, b), PolyProduct(a, c))
<1> SUFFICES ASSUME NEW a \in Bytes, NEW b \in Bytes, NEW c \in Bytes
             PROVE  PolyProduct(a, Xor(b, c)) = Xor(PolyProduct(a, b), PolyProduct(a, c))
  OBVIOUS
<1>1. ASSUME NEW d
      PROVE  Odd({i \in a : d - i \in Xor(b, c)}) <=>
               ~(Odd({i \in a : d - i \in b}) <=> Odd({i \in a : d - i \in c}))
  <2>1. PICK A, B : A = {i \in a : d - i \in b} /\ B = {i \in a : d - i \in c}
    OBVIOUS
  <2>2. {i \in a : d - i \in Xor(b, c)} = Xor(A, B)
    BY <2>1 DEF Xor
  <2>3. IsFiniteSet(a)
    <3>1. IsFiniteSet(0..(Width - 1)) /\ a \in SUBSET (0..(Width - 1))
      BY WidthAssumption, FS_Interval DEF Bytes, Bits
    <3>2. QED
      BY <3>1, FS_Subset
  <2>4. IsFiniteSet(A) /\ IsFiniteSet(B)
    <3>1. A \in SUBSET a /\ B \in SUBSET a
      BY <2>1
    <3>2. QED
      BY <2>3, <3>1, FS_Subset
  <2>5. Odd(Xor(A, B)) <=> ~(Odd(A) <=> Odd(B))
    BY <2>4, OddXor
  <2>6. QED
    BY <2>1, <2>2, <2>5
<1>2. QED
  BY <1>1, Zenon DEF PolyProduct, Xor

(* and with a power of x it is a shift.                                     *)
LEMMA ProductShifts ==
  \A a \in Bytes, i \in Bits : PolyProduct(a, {i}) = Shifted(a, i)
<1> SUFFICES ASSUME NEW a \in Bytes, NEW i \in Bits PROVE PolyProduct(a, {i}) = Shifted(a, i)
  OBVIOUS
<1>0. PICK w \in Nat \ {0} : w = Width /\ i \in 0..(w - 1) /\ a \subseteq 0..(w - 1)
  BY WidthAssumption DEF Bytes, Bits
<1>1. ASSUME NEW d \in Int
      PROVE  Odd({j \in a : d - j \in {i}}) <=> d - i \in a
  <2>a. \A j \in a : d - j \in {i} <=> j = d - i
    BY <1>0
  <2>1. CASE d - i \in a
    <3>1. {j \in a : d - j \in {i}} = {d - i}
      BY <2>a, <2>1, Zenon
    <3>2. QED
      BY <2>1, <3>1, OddSmall
  <2>2. CASE d - i \notin a
    <3>1. {j \in a : d - j \in {i}} = {}
      BY <2>a, <2>2, Zenon
    <3>2. QED
      BY <2>2, <3>1, OddSmall
  <2>3. QED
    BY <2>1, <2>2
<1>2. PolyProduct(a, {i}) = {d \in 0..(2 * w - 2) : d - i \in a}
  BY <1>0, <1>1 DEF PolyProduct
<1>3. {d \in 0..(2 * w - 2) : d - i \in a} = Shifted(a, i)
  <2>1. \A j \in a : j \in Int /\ j + i \in 0..(2 * w - 2) /\ (j + i) - i = j
    BY <1>0
  <2>2. \A d \in 0..(2 * w - 2) : d - i \in a => d = (d - i) + i
    BY <1>0
  <2>3. QED
    BY <2>1, <2>2 DEF Shifted
<1>4. QED
  BY <1>2, <1>3

(* Multiplying by a single bit is shifting and reducing.                    *)
LEMMA MulByBit ==
  ASSUME NEW a \in Bytes
  PROVE  \A i \in Bits : PolyRemainder(Shifted(a, i)) = gfMul(a, {i})
<1>0. PICK last \in Nat : last = Width - 1 /\ Width = last + 1
  BY WidthAssumption
<1> DEFINE P == {i \in 0..last : PolyRemainder(Shifted(a, i)) = gfMul(a, {i})}
<1>a. a \subseteq 0..last
  BY <1>0 DEF Bytes, Bits
<1>1. 0 \in P
  <2>1. Shifted(a, 0) = a
    <3>1. \A j \in a : j + 0 = j
      BY <1>a
    <3>2. QED
      BY <3>1, Zenon DEF Shifted
  <2>2. PolyRemainder(a) = a
    BY RemainderOfByte
  <2>3. gfMul(a, {0}) = a
    BY MulByOne DEF One
  <2>4. QED
    BY <1>0, <2>1, <2>2, <2>3
<1>2. ASSUME NEW i \in 0..(last - 1), i \in P PROVE i + 1 \in P
  <2>1. PICK p : p = Shifted(a, i)
    OBVIOUS
  <2>2. p \in SUBSET (0..(2 * Width - 3)) /\ Width # 1
    BY <1>0, <1>a, <2>1 DEF Shifted
  <2>3. Shifted(a, i + 1) = Shifted(p, 1)
    <3>1. \A j \in a : j \in Int /\ j + (i + 1) = (j + i) + 1
      BY <1>a
    <3>2. QED
      BY <2>1, <3>1 DEF Shifted
  <2>4. PolyRemainder(Shifted(p, 1)) = Doubled(PolyRemainder(p))
    BY <2>2, RemainderShifts
  <2>5. PolyRemainder(p) = gfMul(a, {i})
    BY <1>2, <2>1
  <2>6. Doubled({i}) = {i + 1} /\ {i} \in Bytes
    <3>1. i \in 0..(Width - 2) /\ i \in Bits
      BY <1>0 DEF Bits
    <3>2. QED
      BY <3>1, Doubling, BytesAre
  <2>7. gfMul(a, Doubled({i})) = Doubled(gfMul(a, {i}))
    BY <2>6, MulDoublesRight
  <2>8. PolyRemainder(Shifted(a, i + 1)) = gfMul(a, {i + 1})
    BY <2>3, <2>4, <2>5, <2>6, <2>7
  <2>9. i + 1 \in 0..last
    BY <1>0
  <2>10. QED
    BY <2>8, <2>9
<1>3. 0..last \subseteq P
  <2> HIDE DEF P
  <2>1. QED
    BY <1>0, <1>1, <1>2, BoundedInduction
<1>4. QED
  BY <1>0, <1>3 DEF Bits

(* gfMul multiplies polynomials modulo the modulus, for any width and any   *)
(* modulus.                                                                 *)
THEOREM MulMultiplies ==
  \A a, b \in Bytes : gfMul(a, b) = PolyRemainder(PolyProduct(a, b))
<1> SUFFICES ASSUME NEW a \in Bytes
             PROVE  \A b \in Bytes : gfMul(a, b) = PolyRemainder(PolyProduct(a, b))
  OBVIOUS
<1> DEFINE S == {b \in Bytes : gfMul(a, b) = PolyRemainder(PolyProduct(a, b))}
<1>1. \A i \in Bits : {i} \in S
  BY MulByBit, ProductShifts, BytesAre
<1>2. ASSUME NEW b \in Bytes \cap S, NEW c \in Bytes \cap S PROVE Xor(b, c) \in S
  <2>1. PolyProduct(a, b) \in SUBSET Nat /\ PolyProduct(a, c) \in SUBSET Nat
    BY WidthAssumption DEF PolyProduct
  <2>2. PolyRemainder(PolyProduct(a, Xor(b, c))) =
          Xor(PolyRemainder(PolyProduct(a, b)), PolyRemainder(PolyProduct(a, c)))
    BY <2>1, ProductAdds, RemainderAdds
  <2>3. gfMul(a, Xor(b, c)) = Xor(gfMul(a, b), gfMul(a, c))
    BY MulAddsRight
  <2>4. QED
    BY <2>2, <2>3, XorType
<1>3. Bytes \subseteq S
  <2> HIDE DEF S
  <2>1. QED
    BY <1>1, <1>2, BitsGenerate
<1>4. QED
  BY <1>3

----------------------------------------------------------------------------
(* Powers are bytes, and so are inverses.                                  *)
PowerStates == [result : Bytes, base : Bytes, exp : Int]
PowerRound(r) == [result |-> IF r.exp % 2 = 1 THEN gfMul(r.result, r.base) ELSE r.result,
                  base |-> gfMul(r.base, r.base),
                  exp |-> r.exp \div 2]

IsPowerRun(f, a, exponent) ==
  /\ \A i \in 0..Width : f[i] \in PowerStates
  /\ f[0] = [result |-> One, base |-> a, exp |-> exponent]
  /\ \A i \in 1..Width : f[i] = PowerRound(f[i - 1])

(* Power is what its rounds leave in result.                                *)
LEMMA PowerRuns ==
  ASSUME NEW a \in Bytes, NEW exponent \in Int
  PROVE  \E f : IsPowerRun(f, a, exponent) /\ Power(a, exponent) = f[Width].result
<1> DEFINE start == [result |-> One, base |-> a, exp |-> exponent]
<1> DEFINE step == [z \in (1..Width) \X PowerStates |-> PowerRound(z[2])]
<1> DEFINE Rounds(g) == g = [i \in 0..Width |-> IF i = 0 THEN start ELSE PowerRound(g[i - 1])]
<1>0. Width \in Nat
  BY WidthAssumption
<1>1. start \in PowerStates
  BY BytesAre DEF PowerStates
<1>2. ASSUME NEW r \in PowerStates PROVE PowerRound(r) \in PowerStates
  <2>1. r.result \in Bytes /\ r.base \in Bytes /\ r.exp \in Int
    BY DEF PowerStates
  <2>2. gfMul(r.result, r.base) \in Bytes /\ gfMul(r.base, r.base) \in Bytes /\ r.exp \div 2 \in Int
    BY <2>1, MulType
  <2>3. QED
    BY <2>1, <2>2 DEF PowerRound, PowerStates
<1>3. step \in Steps(Width, PowerStates)
  BY <1>2 DEF Steps
<1>4. PICK f : IsRun(f, Width, PowerStates, start, step)
  <2> HIDE DEF step, start
  <2>1. QED
    BY <1>0, <1>1, <1>3, LoopRuns
<1>5. \A i \in 1..Width : f[i] = PowerRound(f[i - 1])
  <2> SUFFICES ASSUME NEW i \in 1..Width PROVE f[i] = PowerRound(f[i - 1])
    OBVIOUS
  <2>1. f[i - 1] \in PowerStates
    BY <1>0, <1>4 DEF IsRun
  <2>2. QED
    BY <1>4, <2>1 DEF IsRun
<1>6. Rounds(f)
  <2> HIDE DEF step, start
  <2>1. f = [i \in 0..Width |-> f[i]]
    BY <1>4 DEF IsRun
  <2>2. \A i \in 0..Width : f[i] = IF i = 0 THEN start ELSE PowerRound(f[i - 1])
    BY <1>0, <1>4, <1>5 DEF IsRun
  <2>3. QED
    BY <2>1, <2>2, Zenon
<1> DEFINE round[i \in 0..Width] ==
        IF i = 0 THEN [result |-> One, base |-> a, exp |-> exponent]
        ELSE LET r == round[i - 1]
             IN [result |-> IF r.exp % 2 = 1 THEN gfMul(r.result, r.base) ELSE r.result,
                 base |-> gfMul(r.base, r.base),
                 exp |-> r.exp \div 2]
<1>7. Power(a, exponent) = round[Width].result
  BY DEF Power
<1>8. Rounds(round)
  BY <1>6 DEF PowerRound
<1> HIDE DEF round
<1>9. round[0] = start /\ \A i \in 1..Width : round[i] = PowerRound(round[i - 1])
  <2> HIDE DEF start
  <2>1. QED
    BY <1>0, <1>8
<1>10. \A i \in 0..Width : round[i] \in PowerStates
  <2> HIDE DEF start
  <2>1. Keeps(round, Width, PowerStates)
    BY <1>1, <1>2, <1>9 DEF Keeps
  <2>2. QED
    BY <1>0, <2>1, LoopKeeps
<1>11. IsPowerRun(round, a, exponent)
  BY <1>9, <1>10 DEF IsPowerRun
<1>12. QED
  BY <1>7, <1>11

(* Square and multiply stays in the bytes, whatever the exponent;           *)
LEMMA PowerType ==
  ASSUME NEW a \in Bytes, NEW exponent \in Int
  PROVE  Power(a, exponent) \in Bytes
<1>1. PICK f : IsPowerRun(f, a, exponent) /\ Power(a, exponent) = f[Width].result
  BY PowerRuns
<1>2. f[Width] \in PowerStates
  BY <1>1, WidthAssumption DEF IsPowerRun
<1>3. QED
  BY <1>1, <1>2 DEF PowerStates

(* in particular, gfInv does, also of zero.                                 *)
LEMMA InvType == \A a \in Bytes : gfInv(a) \in Bytes
<1>1. 2^Width - 2 \in Int
  BY WidthAssumption
<1>2. QED
  BY <1>1, PowerType DEF gfInv

(* A product is zero only if a factor is, the modulus having no factors,    *)
LEMMA NoZeroDivisors ==
  ASSUME NEW a \in Bytes, NEW b \in Bytes, a # {}, b # {}
  PROVE  gfMul(a, b) # {}
<1>1. gfMul(a, b) = PolyRemainder(PolyProduct(a, b))
  BY MulMultiplies
<1>2. QED
  BY <1>1, PrimeAssumption

(* so a factor cancels.                                                     *)
LEMMA MulCancels ==
  ASSUME NEW a \in Bytes, NEW b \in Bytes, NEW c \in Bytes,
         a # {}, gfMul(a, b) = gfMul(a, c)
  PROVE  b = c
<1>1. gfMul(a, Xor(b, c)) = {}
  BY MulAddsRight, MulType, XorEmpty
<1>2. Xor(b, c) = {}
  BY <1>1, NoZeroDivisors, XorType
<1>3. QED
  BY <1>2, XorCancels

----------------------------------------------------------------------------
(* Sums of sequences of bytes, step by step.                               *)
IsSumRun(f, s, n) ==
  /\ \A i \in 0..n : f[i] \in Bytes
  /\ f[0] = {}
  /\ \A i \in 1..n : f[i] = Xor(f[i - 1], s[i])

(* gfSum is the last of the partial sums.                                   *)
LEMMA SumRuns ==
  ASSUME NEW n \in Nat, NEW s \in [1..n -> Bytes]
  PROVE  \E f : IsSumRun(f, s, n) /\ gfSum(s) = f[n]
<1> DEFINE step == [z \in (1..n) \X Bytes |-> Xor(z[2], s[z[1]])]
<1> DEFINE Rounds(g) == g = [i \in 0..n |-> IF i = 0 THEN {} ELSE Xor(g[i - 1], s[i])]
<1>1. \A i \in 1..n : s[i] \in Bytes
  OBVIOUS
<1>2. step \in Steps(n, Bytes)
  BY <1>1, XorType DEF Steps
<1>3. PICK f : IsRun(f, n, Bytes, {}, step)
  <2> HIDE DEF step
  <2>1. {} \in Bytes
    BY BytesAre
  <2>2. QED
    BY <1>2, <2>1, LoopRuns
<1>4. \A i \in 1..n : f[i] = Xor(f[i - 1], s[i])
  <2> SUFFICES ASSUME NEW i \in 1..n PROVE f[i] = Xor(f[i - 1], s[i])
    OBVIOUS
  <2>1. f[i - 1] \in Bytes
    BY <1>3 DEF IsRun
  <2>2. QED
    BY <1>3, <2>1 DEF IsRun
<1>5. Rounds(f)
  <2> HIDE DEF step
  <2>1. f = [i \in 0..n |-> f[i]]
    BY <1>3 DEF IsRun
  <2>2. \A i \in 0..n : f[i] = IF i = 0 THEN {} ELSE Xor(f[i - 1], s[i])
    BY <1>3, <1>4 DEF IsRun
  <2>3. QED
    BY <2>1, <2>2, Zenon
<1>6. Len(s) = n
  OBVIOUS
<1> DEFINE acc[i \in 0..n] == IF i = 0 THEN {} ELSE Xor(acc[i - 1], s[i])
<1>7. gfSum(s) = acc[n]
  BY <1>6 DEF gfSum
<1>8. Rounds(acc)
  BY <1>5
<1> HIDE DEF acc
<1>9. acc[0] = {} /\ \A i \in 1..n : acc[i] = Xor(acc[i - 1], s[i])
  <2>1. \A i \in 0..n : acc[i] = IF i = 0 THEN {} ELSE Xor(acc[i - 1], s[i])
    BY <1>8, Zenon
  <2>2. acc[0] = {}
    BY <2>1
  <2>3. \A i \in 1..n : acc[i] = Xor(acc[i - 1], s[i])
    BY <2>1
  <2>4. QED
    BY <2>2, <2>3
<1>10. \A i \in 0..n : acc[i] \in Bytes
  <2>1. acc[0] \in Bytes
    BY <1>9, BytesAre
  <2>2. Keeps(acc, n, Bytes)
    BY <1>1, <1>9, <2>1, XorType DEF Keeps
  <2>3. QED
    BY <2>2, LoopKeeps
<1>11. QED
  BY <1>7, <1>9, <1>10 DEF IsSumRun

(* A sum of bytes is a byte.                                                *)
LEMMA SumType ==
  ASSUME NEW n \in Nat, NEW s \in [1..n -> Bytes]
  PROVE  gfSum(s) \in Bytes
<1>1. PICK f : IsSumRun(f, s, n) /\ gfSum(s) = f[n]
  BY SumRuns
<1>2. QED
  BY <1>1 DEF IsSumRun

(* One more term.                                                           *)
LEMMA SumRunStep ==
  ASSUME NEW n \in Nat, NEW s, NEW f, IsSumRun(f, s, n), NEW i \in 0..(n - 1)
  PROVE  /\ i \in 0..n /\ i + 1 \in 0..n /\ i + 1 \in 1..n
         /\ f[i] \in Bytes
         /\ f[i + 1] = Xor(f[i], s[i + 1])
<1>1. PICK j \in 1..n : j = i + 1 /\ j - 1 = i
  OBVIOUS
<1>2. f[j] = Xor(f[j - 1], s[j])
  BY DEF IsSumRun
<1>3. QED
  BY <1>1, <1>2 DEF IsSumRun

(* The last term taken out,                                                *)
LEMMA SumLast ==
  ASSUME NEW n \in Nat, NEW s \in [1..(n + 1) -> Bytes], NEW t \in [1..n -> Bytes],
         \A i \in 1..n : t[i] = s[i]
  PROVE  gfSum(s) = Xor(gfSum(t), s[n + 1])
<1>1. PICK f : IsSumRun(f, s, n + 1) /\ gfSum(s) = f[n + 1]
  BY SumRuns
<1>2. PICK g : IsSumRun(g, t, n) /\ gfSum(t) = g[n]
  BY SumRuns
<1> DEFINE P == {i \in 0..n : f[i] = g[i]}
<1>3. 0 \in P
  <2>1. f[0] = {} /\ g[0] = {}
    BY <1>1, <1>2 DEF IsSumRun
  <2>2. f[0] = g[0] /\ 0 \in 0..n
    BY <2>1
  <2>3. QED
    BY <2>2
<1>4. ASSUME NEW i \in 0..(n - 1), i \in P PROVE i + 1 \in P
  <2>1. f[i + 1] = Xor(f[i], s[i + 1])
    BY <1>1, SumRunStep
  <2>2. i + 1 \in 1..n /\ g[i + 1] = Xor(g[i], t[i + 1])
    BY <1>2, SumRunStep
  <2>3. QED
    BY <1>4, <2>1, <2>2
<1>5. f[n] = g[n]
  <2> HIDE DEF P
  <2>1. 0..n \subseteq P
    BY <1>3, <1>4, BoundedInduction
  <2>2. n \in P
    BY <2>1
  <2>3. QED
    BY <2>2 DEF P
<1>6. f[n + 1] = Xor(f[n], s[n + 1])
  BY <1>1, SumRunStep
<1>7. QED
  BY <1>1, <1>2, <1>5, <1>6

(* and any term: t is s without the term at a.                             *)
LEMMA SumSplit ==
  ASSUME NEW n \in Nat, NEW s \in [1..n -> Bytes], NEW t \in [1..n -> Bytes],
         NEW a \in 1..n, t[a] = {}, \A i \in 1..n : i # a => t[i] = s[i]
  PROVE  gfSum(s) = Xor(s[a], gfSum(t))
<1>1. PICK f : IsSumRun(f, s, n) /\ gfSum(s) = f[n]
  BY SumRuns
<1>2. PICK g : IsSumRun(g, t, n) /\ gfSum(t) = g[n]
  BY SumRuns
<1> DEFINE P == {i \in 0..n : f[i] = IF i < a THEN g[i] ELSE Xor(s[a], g[i])}
<1>3. 0 \in P
  <2>1. f[0] = {} /\ g[0] = {}
    BY <1>1, <1>2 DEF IsSumRun
  <2>2. f[0] = g[0] /\ 0 < a /\ 0 \in 0..n
    BY <2>1
  <2>3. QED
    BY <2>2
<1>4. ASSUME NEW i \in 0..(n - 1), i \in P PROVE i + 1 \in P
  <2>1. f[i + 1] = Xor(f[i], s[i + 1]) /\ f[i] \in Bytes
    BY <1>1, SumRunStep
  <2>2. g[i + 1] = Xor(g[i], t[i + 1]) /\ g[i] \in Bytes /\ i + 1 \in 1..n /\ i + 1 \in 0..n
    BY <1>2, SumRunStep
  <2>3. s[a] \in Bytes /\ s[i + 1] \in Bytes
    BY <2>2
  <2>4. CASE i + 1 < a
    <3>1. f[i] = g[i] /\ t[i + 1] = s[i + 1]
      BY <1>4, <2>2, <2>4
    <3>2. QED
      BY <2>1, <2>2, <2>4, <3>1
  <2>5. CASE i + 1 = a
    <3>1. f[i] = g[i]
      BY <1>4, <2>5
    <3>2. Xor(g[i], {}) = g[i]
      BY <2>2, XorEmpty
    <3>3. g[i + 1] = g[i]
      BY <2>2, <2>5, <3>2
    <3>4. f[i + 1] = Xor(s[a], g[i])
      BY <2>1, <2>2, <2>3, <2>5, <3>1, XorCommutes
    <3>5. QED
      BY <2>2, <2>5, <3>3, <3>4
  <2>6. CASE i + 1 > a
    <3>1. f[i] = Xor(s[a], g[i]) /\ t[i + 1] = s[i + 1]
      BY <1>4, <2>2, <2>6
    <3>2. f[i + 1] = Xor(s[a], Xor(g[i], s[i + 1]))
      BY <2>1, <2>2, <2>3, <3>1, XorAssociates
    <3>3. f[i + 1] = Xor(s[a], g[i + 1])
      BY <2>2, <3>1, <3>2
    <3>4. QED
      BY <2>2, <2>6, <3>3
  <2>7. QED
    BY <2>4, <2>5, <2>6
<1>5. n \in P
  <2> HIDE DEF P
  <2>1. 0..n \subseteq P
    BY <1>3, <1>4, BoundedInduction
  <2>2. QED
    BY <2>1
<1>6. QED
  BY <1>1, <1>2, <1>5

----------------------------------------------------------------------------
(* Products of sequences of bytes, step by step.                           *)
IsProductRun(f, s, n) ==
  /\ \A i \in 0..n : f[i] \in Bytes
  /\ f[0] = One
  /\ \A i \in 1..n : f[i] = gfMul(f[i - 1], s[i])

(* gfProduct is the last of the partial products.                           *)
LEMMA ProductRuns ==
  ASSUME NEW n \in Nat, NEW s \in [1..n -> Bytes]
  PROVE  \E f : IsProductRun(f, s, n) /\ gfProduct(s) = f[n]
<1> DEFINE step == [z \in (1..n) \X Bytes |-> gfMul(z[2], s[z[1]])]
<1> DEFINE Rounds(g) == g = [i \in 0..n |-> IF i = 0 THEN One ELSE gfMul(g[i - 1], s[i])]
<1>1. \A i \in 1..n : s[i] \in Bytes
  OBVIOUS
<1>2. step \in Steps(n, Bytes)
  BY <1>1, MulType DEF Steps
<1>3. PICK f : IsRun(f, n, Bytes, One, step)
  <2> HIDE DEF step
  <2>1. One \in Bytes
    BY BytesAre
  <2>2. QED
    BY <1>2, <2>1, LoopRuns
<1>4. \A i \in 1..n : f[i] = gfMul(f[i - 1], s[i])
  <2> SUFFICES ASSUME NEW i \in 1..n PROVE f[i] = gfMul(f[i - 1], s[i])
    OBVIOUS
  <2>1. f[i - 1] \in Bytes
    BY <1>3 DEF IsRun
  <2>2. QED
    BY <1>3, <2>1 DEF IsRun
<1>5. Rounds(f)
  <2> HIDE DEF step
  <2>1. f = [i \in 0..n |-> f[i]]
    BY <1>3 DEF IsRun
  <2>2. \A i \in 0..n : f[i] = IF i = 0 THEN One ELSE gfMul(f[i - 1], s[i])
    BY <1>3, <1>4 DEF IsRun
  <2>3. QED
    BY <2>1, <2>2, Zenon
<1>6. Len(s) = n
  OBVIOUS
<1> DEFINE acc[i \in 0..n] == IF i = 0 THEN One ELSE gfMul(acc[i - 1], s[i])
<1>7. gfProduct(s) = acc[n]
  BY <1>6 DEF gfProduct
<1>8. Rounds(acc)
  BY <1>5
<1> HIDE DEF acc
<1>9. acc[0] = One /\ \A i \in 1..n : acc[i] = gfMul(acc[i - 1], s[i])
  <2>1. \A i \in 0..n : acc[i] = IF i = 0 THEN One ELSE gfMul(acc[i - 1], s[i])
    BY <1>8, Zenon
  <2>2. acc[0] = One
    BY <2>1
  <2>3. \A i \in 1..n : acc[i] = gfMul(acc[i - 1], s[i])
    BY <2>1
  <2>4. QED
    BY <2>2, <2>3
<1>10. \A i \in 0..n : acc[i] \in Bytes
  <2>1. acc[0] \in Bytes
    BY <1>9, BytesAre
  <2>2. Keeps(acc, n, Bytes)
    BY <1>1, <1>9, <2>1, MulType DEF Keeps
  <2>3. QED
    BY <2>2, LoopKeeps
<1>11. QED
  BY <1>7, <1>9, <1>10 DEF IsProductRun

(* A product of bytes is a byte.                                            *)
LEMMA ProductType ==
  ASSUME NEW n \in Nat, NEW s \in [1..n -> Bytes]
  PROVE  gfProduct(s) \in Bytes
<1>1. PICK f : IsProductRun(f, s, n) /\ gfProduct(s) = f[n]
  BY ProductRuns
<1>2. QED
  BY <1>1 DEF IsProductRun

(* One more factor.                                                         *)
LEMMA ProductRunStep ==
  ASSUME NEW n \in Nat, NEW s, NEW f, IsProductRun(f, s, n), NEW i \in 0..(n - 1)
  PROVE  /\ i \in 0..n /\ i + 1 \in 0..n /\ i + 1 \in 1..n
         /\ f[i] \in Bytes
         /\ f[i + 1] = gfMul(f[i], s[i + 1])
<1>1. PICK j \in 1..n : j = i + 1 /\ j - 1 = i
  OBVIOUS
<1>2. f[j] = gfMul(f[j - 1], s[j])
  BY DEF IsProductRun
<1>3. QED
  BY <1>1, <1>2 DEF IsProductRun

(* The last term taken out,                                                *)
LEMMA ProductLast ==
  ASSUME NEW n \in Nat, NEW s \in [1..(n + 1) -> Bytes], NEW t \in [1..n -> Bytes],
         \A i \in 1..n : t[i] = s[i]
  PROVE  gfProduct(s) = gfMul(gfProduct(t), s[n + 1])
<1>1. PICK f : IsProductRun(f, s, n + 1) /\ gfProduct(s) = f[n + 1]
  BY ProductRuns
<1>2. PICK g : IsProductRun(g, t, n) /\ gfProduct(t) = g[n]
  BY ProductRuns
<1> DEFINE P == {i \in 0..n : f[i] = g[i]}
<1>3. 0 \in P
  <2>1. f[0] = One /\ g[0] = One
    BY <1>1, <1>2 DEF IsProductRun
  <2>2. f[0] = g[0] /\ 0 \in 0..n
    BY <2>1
  <2>3. QED
    BY <2>2
<1>4. ASSUME NEW i \in 0..(n - 1), i \in P PROVE i + 1 \in P
  <2>1. f[i + 1] = gfMul(f[i], s[i + 1])
    BY <1>1, ProductRunStep
  <2>2. i + 1 \in 1..n /\ g[i + 1] = gfMul(g[i], t[i + 1])
    BY <1>2, ProductRunStep
  <2>3. QED
    BY <1>4, <2>1, <2>2
<1>5. f[n] = g[n]
  <2> HIDE DEF P
  <2>1. 0..n \subseteq P
    BY <1>3, <1>4, BoundedInduction
  <2>2. n \in P
    BY <2>1
  <2>3. QED
    BY <2>2 DEF P
<1>6. f[n + 1] = gfMul(f[n], s[n + 1])
  BY <1>1, ProductRunStep
<1>7. QED
  BY <1>1, <1>2, <1>5, <1>6

(* and any term: t is s without the term at a.                             *)
LEMMA ProductSplit ==
  ASSUME NEW n \in Nat, NEW s \in [1..n -> Bytes], NEW t \in [1..n -> Bytes],
         NEW a \in 1..n, t[a] = One, \A i \in 1..n : i # a => t[i] = s[i]
  PROVE  gfProduct(s) = gfMul(s[a], gfProduct(t))
<1>1. PICK f : IsProductRun(f, s, n) /\ gfProduct(s) = f[n]
  BY ProductRuns
<1>2. PICK g : IsProductRun(g, t, n) /\ gfProduct(t) = g[n]
  BY ProductRuns
<1> DEFINE P == {i \in 0..n : f[i] = IF i < a THEN g[i] ELSE gfMul(s[a], g[i])}
<1>3. 0 \in P
  <2>1. f[0] = One /\ g[0] = One
    BY <1>1, <1>2 DEF IsProductRun
  <2>2. f[0] = g[0] /\ 0 < a /\ 0 \in 0..n
    BY <2>1
  <2>3. QED
    BY <2>2
<1>4. ASSUME NEW i \in 0..(n - 1), i \in P PROVE i + 1 \in P
  <2>1. f[i + 1] = gfMul(f[i], s[i + 1]) /\ f[i] \in Bytes
    BY <1>1, ProductRunStep
  <2>2. g[i + 1] = gfMul(g[i], t[i + 1]) /\ g[i] \in Bytes /\ i + 1 \in 1..n /\ i + 1 \in 0..n
    BY <1>2, ProductRunStep
  <2>3. s[a] \in Bytes /\ s[i + 1] \in Bytes
    BY <2>2
  <2>4. CASE i + 1 < a
    <3>1. f[i] = g[i] /\ t[i + 1] = s[i + 1]
      BY <1>4, <2>2, <2>4
    <3>2. QED
      BY <2>1, <2>2, <2>4, <3>1
  <2>5. CASE i + 1 = a
    <3>1. f[i] = g[i]
      BY <1>4, <2>5
    <3>2. gfMul(g[i], One) = g[i]
      BY <2>2, MulByOne
    <3>3. g[i + 1] = g[i]
      BY <2>2, <2>5, <3>2
    <3>4. f[i + 1] = gfMul(s[a], g[i])
      BY <2>1, <2>2, <2>3, <2>5, <3>1, MulCommutes
    <3>5. QED
      BY <2>2, <2>5, <3>3, <3>4
  <2>6. CASE i + 1 > a
    <3>1. f[i] = gfMul(s[a], g[i]) /\ t[i + 1] = s[i + 1]
      BY <1>4, <2>2, <2>6
    <3>2. f[i + 1] = gfMul(s[a], gfMul(g[i], s[i + 1]))
      BY <2>1, <2>2, <2>3, <3>1, MulAssociates
    <3>3. f[i + 1] = gfMul(s[a], g[i + 1])
      BY <2>2, <3>1, <3>2
    <3>4. QED
      BY <2>2, <2>6, <3>3
  <2>7. QED
    BY <2>4, <2>5, <2>6
<1>5. n \in P
  <2> HIDE DEF P
  <2>1. 0..n \subseteq P
    BY <1>3, <1>4, BoundedInduction
  <2>2. QED
    BY <2>1
<1>6. QED
  BY <1>1, <1>2, <1>5

(* A sum of zeros is zero.                                                  *)
LEMMA SumOfZeros ==
  ASSUME NEW n \in Nat, NEW s \in [1..n -> Bytes], \A i \in 1..n : s[i] = {}
  PROVE  gfSum(s) = {}
<1>1. PICK f : IsSumRun(f, s, n) /\ gfSum(s) = f[n]
  BY SumRuns
<1>2. Keeps(f, n, {{}})
  BY <1>1, XorEmpty DEF IsSumRun, Keeps
<1>3. QED
  BY <1>1, <1>2, LoopKeeps

(* A product of ones is one.                                                *)
LEMMA ProductOfOnes ==
  ASSUME NEW n \in Nat, NEW s \in [1..n -> Bytes], \A i \in 1..n : s[i] = One
  PROVE  gfProduct(s) = One
<1>1. PICK f : IsProductRun(f, s, n) /\ gfProduct(s) = f[n]
  BY ProductRuns
<1>2. Keeps(f, n, {One})
  BY <1>1, MulByOne, BytesAre DEF IsProductRun, Keeps
<1>3. QED
  BY <1>1, <1>2, LoopKeeps

(* A product without a zero is not zero.                                    *)
LEMMA ProductNonzero ==
  ASSUME NEW n \in Nat, NEW s \in [1..n -> Bytes], \A i \in 1..n : s[i] # {}
  PROVE  gfProduct(s) # {}
<1>1. PICK f : IsProductRun(f, s, n) /\ gfProduct(s) = f[n]
  BY ProductRuns
<1>2. One # {}
  BY DEF One
<1>3. Keeps(f, n, Bytes \ {{}})
  <2>1. f[0] \in Bytes \ {{}}
    BY <1>1, <1>2, BytesAre DEF IsProductRun
  <2>2. ASSUME NEW i \in 1..n, f[i - 1] \in Bytes \ {{}} PROVE f[i] \in Bytes \ {{}}
    <3>1. f[i] = gfMul(f[i - 1], s[i]) /\ s[i] \in Bytes /\ s[i] # {}
      BY <1>1 DEF IsProductRun
    <3>2. QED
      BY <2>2, <3>1, MulType, NoZeroDivisors
  <2>3. QED
    BY <2>1, <2>2 DEF Keeps
<1>4. QED
  BY <1>1, <1>3, LoopKeeps

----------------------------------------------------------------------------
(* Powers of two, which the library counts as subsets.                      *)
LEMMA PowerOfTwoDoubles ==
  /\ 2^0 = 1
  /\ \A i \in Nat : 2^i \in Nat \ {0} /\ 2^(i + 1) = 2 * 2^i
<1>1. \A i \in Nat : /\ IsFiniteSet(SUBSET (1..i)) /\ Cardinality(SUBSET (1..i)) = 2^i
                     /\ 2^i \in Nat
  <2> SUFFICES ASSUME NEW i \in Nat
      PROVE  /\ IsFiniteSet(SUBSET (1..i)) /\ Cardinality(SUBSET (1..i)) = 2^i /\ 2^i \in Nat
    OBVIOUS
  <2>1. IsFiniteSet(1..i) /\ Cardinality(1..i) = i
    BY FS_Interval
  <2>2. IsFiniteSet(SUBSET (1..i)) /\ Cardinality(SUBSET (1..i)) = 2^i
    BY <2>1, FS_SUBSET
  <2>3. QED
    BY <2>2, FS_CardinalityType
<1>2. 2^0 = 1
  <2>1. SUBSET (1..0) = {{}}
    OBVIOUS
  <2>2. Cardinality({{}}) = 1
    BY FS_Singleton
  <2>3. QED
    BY <1>1, <2>1, <2>2
<1>3. ASSUME NEW i \in Nat PROVE 2^(i + 1) = 2 * 2^i
  <2> DEFINE low == SUBSET (1..i)
  <2> DEFINE high == {s \cup {i + 1} : s \in low}
  <2>1. SUBSET (1..(i + 1)) = low \cup high
    <3>1. ASSUME NEW s \in SUBSET (1..(i + 1)) PROVE s \in low \cup high
      <4>1. CASE i + 1 \in s
        <5>1. s \ {i + 1} \in low /\ s = (s \ {i + 1}) \cup {i + 1}
          BY <4>1
        <5>2. QED
          BY <5>1
      <4>2. CASE i + 1 \notin s
        BY <4>2
      <4>3. QED
        BY <4>1, <4>2
    <3>2. ASSUME NEW s \in low \cup high PROVE s \in SUBSET (1..(i + 1))
      <4>1. 1..i \subseteq 1..(i + 1) /\ i + 1 \in 1..(i + 1)
        OBVIOUS
      <4>2. QED
        BY <4>1
    <3> HIDE DEF low, high
    <3> DEFINE all == SUBSET (1..(i + 1))
    <3>3. \A s : s \in all <=> s \in low \cup high
      BY <3>1, <3>2
    <3> HIDE DEF all
    <3>4. all = low \cup high
      BY <3>3
    <3>5. QED
      BY <3>4 DEF all
  <2>2. low \cap high = {}
    OBVIOUS
  <2>3. IsFiniteSet(low) /\ Cardinality(low) = 2^i /\ 2^i \in Nat
    BY <1>1
  <2>4. IsFiniteSet(high) /\ Cardinality(high) = 2^i
    <3> DEFINE f == [s \in low |-> s \cup {i + 1}]
    <3>1. f \in [low -> high]
      OBVIOUS
    <3>2. \A s, t \in low : f[s] = f[t] => s = t
      <4> SUFFICES ASSUME NEW s \in low, NEW t \in low, f[s] = f[t] PROVE s = t
        OBVIOUS
      <4>1. s \cup {i + 1} = t \cup {i + 1} /\ i + 1 \notin s /\ i + 1 \notin t
        OBVIOUS
      <4>2. QED
        BY <4>1
    <3>3. \A t \in high : \E s \in low : f[s] = t
      OBVIOUS
    <3>4. f \in Bijection(low, high)
      BY <3>1, <3>2, <3>3 DEF Bijection, Injection, Surjection, IsInjective
    <3>5. ExistsBijection(low, high)
      BY <3>4 DEF ExistsBijection
    <3> HIDE DEF f, low, high
    <3>6. QED
      BY <2>3, <3>5, FS_Bijection
  <2> HIDE DEF low, high
  <2>5. Cardinality({}) = 0
    BY FS_EmptySet
  <2>6. Cardinality(low \cup high) = 2^i + 2^i - 0
    BY <2>2, <2>3, <2>4, <2>5, FS_Union
  <2>7. Cardinality(SUBSET (1..(i + 1))) = 2^(i + 1)
    <3>1. PICK j \in Nat : j = i + 1
      OBVIOUS
    <3>2. Cardinality(SUBSET (1..j)) = 2^j
      BY <1>1
    <3>3. QED
      BY <3>1, <3>2
  <2>8. PICK p \in Nat : p = 2^i
    BY <2>3
  <2>9. PICK q : q = 2^(i + 1)
    OBVIOUS
  <2>10. q = p + p - 0
    BY <2>1, <2>6, <2>7, <2>8, <2>9
  <2>11. p + p - 0 = 2 * p
    OBVIOUS
  <2>12. QED
    BY <2>8, <2>9, <2>10, <2>11
<1>4. \A i \in Nat : 2^i # 0
  <2> DEFINE P == {i \in Nat : 2^i # 0}
  <2>1. 0 \in P
    BY <1>2
  <2>2. ASSUME NEW i \in Nat, i \in P PROVE i + 1 \in P
    <3>1. PICK a \in Nat : a = 2^i /\ a # 0
      BY <1>1, <2>2
    <3>2. 2^(i + 1) = 2 * a
      BY <1>3, <3>1
    <3>3. 2 * a # 0
      BY <3>1
    <3>4. QED
      BY <3>2, <3>3
  <2>3. Nat \subseteq P
    <3> HIDE DEF P
    <3>1. QED
      BY <2>1, <2>2, SetInduction
  <2>4. QED
    BY <2>3
<1>5. QED
  BY <1>1, <1>2, <1>3, <1>4

----------------------------------------------------------------------------
(* Fermat: a byte other than zero to the power 2^Width - 1 is one, because  *)
(* multiplying by it permutes the bytes other than zero.                    *)
Pow(a, n) == gfProduct([i \in 1..n |-> a])

(* Powers as numbers of factors.                                            *)
LEMMA PowSteps ==
  ASSUME NEW a \in Bytes
  PROVE  /\ Pow(a, 0) = One
         /\ \A n \in Nat : Pow(a, n) \in Bytes /\ Pow(a, n + 1) = gfMul(Pow(a, n), a)
<1>1. Pow(a, 0) = One
  <2> DEFINE s == [i \in 1..0 |-> a]
  <2>1. s \in [1..0 -> Bytes] /\ \A i \in 1..0 : s[i] = One
    OBVIOUS
  <2> HIDE DEF s
  <2>2. gfProduct(s) = One
    BY <2>1, ProductOfOnes
  <2>3. QED
    BY <2>2 DEF Pow, s
<1>2. ASSUME NEW n \in Nat
      PROVE  Pow(a, n) \in Bytes /\ Pow(a, n + 1) = gfMul(Pow(a, n), a)
  <2> DEFINE s == [i \in 1..(n + 1) |-> a]
  <2> DEFINE t == [i \in 1..n |-> a]
  <2>1. /\ s \in [1..(n + 1) -> Bytes] /\ t \in [1..n -> Bytes]
        /\ s[n + 1] = a /\ \A i \in 1..n : t[i] = s[i]
    OBVIOUS
  <2> HIDE DEF s, t
  <2>2. gfProduct(s) = gfMul(gfProduct(t), s[n + 1])
    BY <2>1, ProductLast
  <2>3. gfProduct(t) \in Bytes
    BY <2>1, ProductType
  <2>4. QED
    BY <2>1, <2>2, <2>3 DEF Pow, s, t
<1>3. QED
  BY <1>1, <1>2

(* The square to the power n.                                               *)
LEMMA PowOfSquare ==
  ASSUME NEW a \in Bytes
  PROVE  \A n \in Nat : Pow(gfMul(a, a), n) = Pow(a, 2 * n)
<1>1. PICK b \in Bytes : b = gfMul(a, a)
  BY MulType
<1> DEFINE P == {n \in Nat : Pow(b, n) = Pow(a, 2 * n)}
<1>2. 0 \in P
  <2>1. 2 * 0 = 0
    OBVIOUS
  <2>2. QED
    BY <2>1, PowSteps
<1>3. ASSUME NEW n \in Nat, n \in P PROVE n + 1 \in P
  <2>1. PICK m \in Nat : m = 2 * n /\ 2 * (n + 1) = (m + 1) + 1
    OBVIOUS
  <2>2. Pow(a, m) \in Bytes /\ Pow(b, n) = Pow(a, m)
    BY <1>3, <2>1, PowSteps
  <2>3. Pow(a, (m + 1) + 1) = gfMul(gfMul(Pow(a, m), a), a)
    <3>1. m + 1 \in Nat
      BY <2>1
    <3>2. Pow(a, (m + 1) + 1) = gfMul(Pow(a, m + 1), a)
      BY <3>1, PowSteps
    <3>3. Pow(a, m + 1) = gfMul(Pow(a, m), a)
      BY PowSteps
    <3>4. QED
      BY <3>2, <3>3
  <2>4. Pow(b, n + 1) = gfMul(Pow(a, m), b)
    BY <2>2, PowSteps
  <2>5. gfMul(gfMul(Pow(a, m), a), a) = gfMul(Pow(a, m), gfMul(a, a))
    BY <2>2, MulAssociates
  <2>6. QED
    BY <1>1, <2>1, <2>3, <2>4, <2>5
<1>4. Nat \subseteq P
  <2> HIDE DEF P
  <2>1. QED
    BY <1>2, <1>3, SetInduction
<1>5. QED
  BY <1>1, <1>4

(* What a round of square and multiply keeps: the power that is left to do. *)
LEMMA PowerRoundKeeps ==
  ASSUME NEW r \in PowerStates, r.exp \in Nat
  PROVE  gfMul(PowerRound(r).result, Pow(PowerRound(r).base, PowerRound(r).exp)) =
           gfMul(r.result, Pow(r.base, r.exp))
<1>1. PICK c \in Bytes, b \in Bytes, e \in Nat : c = r.result /\ b = r.base /\ e = r.exp
  BY DEF PowerStates
<1>2. PICK m \in Nat : m = e \div 2 /\ (e % 2 = 1 => e = 2 * m + 1) /\ (e % 2 # 1 => e = 2 * m)
  <2>1. e \div 2 \in Nat /\ (e % 2 = 1 => e = 2 * (e \div 2) + 1)
                         /\ (e % 2 # 1 => e = 2 * (e \div 2))
    OBVIOUS
  <2>2. QED
    BY <2>1
<1>3. PowerRound(r).base = gfMul(b, b) /\ PowerRound(r).exp = m
  BY <1>1, <1>2 DEF PowerRound
<1>4. PowerRound(r).result = IF e % 2 = 1 THEN gfMul(c, b) ELSE c
  BY <1>1 DEF PowerRound
<1>5. PICK two \in Nat : two = 2 * m
  OBVIOUS
<1>6. PICK q \in Bytes : q = Pow(b, two) /\ Pow(gfMul(b, b), m) = q
  <2>1. Pow(b, two) \in Bytes
    BY PowSteps
  <2>2. Pow(gfMul(b, b), m) = Pow(b, two)
    BY <1>5, PowOfSquare
  <2>3. QED
    BY <2>1, <2>2
<1>7. CASE e % 2 = 1
  <2>1. e = two + 1
    BY <1>2, <1>5, <1>7
  <2>2. Pow(b, e) = gfMul(q, b)
    <3>1. Pow(b, two + 1) = gfMul(Pow(b, two), b)
      BY PowSteps
    <3>2. QED
      BY <1>6, <2>1, <3>1
  <2>3. gfMul(gfMul(c, b), q) = gfMul(c, gfMul(q, b))
    <3>1. gfMul(gfMul(c, b), q) = gfMul(c, gfMul(b, q))
      BY MulAssociates
    <3>2. gfMul(b, q) = gfMul(q, b)
      BY MulCommutes
    <3>3. QED
      BY <3>1, <3>2
  <2>4. PowerRound(r).result = gfMul(c, b)
    BY <1>4, <1>7
  <2>5. QED
    BY <1>1, <1>3, <1>6, <2>2, <2>3, <2>4
<1>8. CASE e % 2 # 1
  <2>1. e = two
    BY <1>2, <1>5, <1>8
  <2>2. PowerRound(r).result = c
    BY <1>4, <1>8
  <2>3. QED
    BY <1>1, <1>3, <1>6, <2>1, <2>2
<1>9. QED
  BY <1>7, <1>8

(* Square and multiply computes the power, for an exponent of Width bits.   *)
LEMMA PowerIsPow ==
  ASSUME NEW a \in Bytes, NEW e \in Nat, e < 2^Width
  PROVE  Power(a, e) = Pow(a, e)
<1>0. PICK w \in Nat : w = Width
  BY WidthAssumption
<1>1. PICK f : IsPowerRun(f, a, e) /\ Power(a, e) = f[w].result
  BY <1>0, PowerRuns
<1> DEFINE P == {i \in 0..w : /\ f[i].exp \in Nat /\ f[i].exp < 2^(w - i)
                              /\ gfMul(f[i].result, Pow(f[i].base, f[i].exp)) = Pow(a, e)}
<1>2. 0 \in P
  <2>1. f[0].result = One /\ f[0].base = a /\ f[0].exp = e
    BY <1>1 DEF IsPowerRun
  <2>2. w - 0 = w
    BY <1>0
  <2>3. gfMul(One, Pow(a, e)) = Pow(a, e)
    BY PowSteps, MulOneLeft
  <2>4. QED
    BY <1>0, <2>1, <2>2, <2>3
<1>3. ASSUME NEW i \in 0..(w - 1), i \in P PROVE i + 1 \in P
  <2>1. PICK j \in 1..w, k \in Nat : j = i + 1 /\ j - 1 = i /\ k = w - j /\ w - i = k + 1
    BY <1>0
  <2>2. PICK r \in PowerStates : r = f[i] /\ r.exp \in Nat
    BY <1>0, <1>1, <1>3 DEF IsPowerRun
  <2>3. f[j] = PowerRound(r)
    BY <1>0, <1>1, <2>1, <2>2 DEF IsPowerRun
  <2>4. f[j].exp \in Nat /\ f[j].exp < 2^k
    <3>1. PICK p \in Nat, x \in Nat : p = 2^k /\ 2^(k + 1) = 2 * p /\ x = r.exp
      BY <2>2, PowerOfTwoDoubles
    <3>2. x < 2 * p
      BY <1>3, <2>1, <2>2, <3>1
    <3>3. x \div 2 \in Nat /\ x \div 2 < p
      BY <3>2
    <3>4. f[j].exp = x \div 2
      BY <2>3, <3>1 DEF PowerRound
    <3>5. QED
      BY <3>1, <3>3, <3>4
  <2>5. gfMul(f[j].result, Pow(f[j].base, f[j].exp)) = Pow(a, e)
    BY <1>3, <2>2, <2>3, PowerRoundKeeps
  <2>6. j \in 0..w
    BY <1>0
  <2>7. QED
    BY <2>1, <2>4, <2>5, <2>6
<1>4. w \in P
  <2>1. 0..w \subseteq P
    <3> HIDE DEF P
    <3>1. QED
      BY <1>0, <1>2, <1>3, BoundedInduction
  <2>2. w \in 0..w
    BY <1>0
  <2> HIDE DEF P
  <2>3. QED
    BY <2>1, <2>2
<1>5. f[w] \in PowerStates /\ f[w].result \in Bytes /\ f[w].base \in Bytes
  BY <1>0, <1>1 DEF IsPowerRun, PowerStates
<1>6. f[w].exp = 0
  <2>1. w - w = 0
    BY <1>0
  <2>2. f[w].exp \in Nat /\ f[w].exp < 1
    BY <1>4, <2>1, PowerOfTwoDoubles
  <2>3. QED
    BY <2>2
<1>7. gfMul(f[w].result, Pow(f[w].base, 0)) = Pow(a, e)
  BY <1>4, <1>6
<1>8. Pow(f[w].base, 0) = One
  BY <1>5, PowSteps
<1>9. QED
  BY <1>1, <1>5, <1>7, <1>8, MulByOne

Scales(u, s, a, n) == \A i \in 1..n : u[i] = gfMul(a, s[i])

(* Scaling every factor by a scales the product by a power of a.            *)
LEMMA ProductScales ==
  ASSUME NEW n \in Nat, NEW s \in [1..n -> Bytes], NEW u \in [1..n -> Bytes],
         NEW a \in Bytes, Scales(u, s, a, n)
  PROVE  gfProduct(u) = gfMul(Pow(a, n), gfProduct(s))
<1>1. PICK f : IsProductRun(f, s, n) /\ gfProduct(s) = f[n]
  BY ProductRuns
<1>2. PICK g : IsProductRun(g, u, n) /\ gfProduct(u) = g[n]
  BY ProductRuns
<1> DEFINE P == {i \in 0..n : g[i] = gfMul(Pow(a, i), f[i])}
<1>3. 0 \in P
  <2>1. f[0] = One /\ g[0] = One
    BY <1>1, <1>2 DEF IsProductRun
  <2>2. gfMul(Pow(a, 0), One) = One
    BY PowSteps, MulByOne, BytesAre
  <2>3. QED
    BY <2>1, <2>2
<1>4. ASSUME NEW i \in 0..(n - 1), i \in P PROVE i + 1 \in P
  <2>1. PICK p \in Bytes, b \in Bytes, c \in Bytes :
          p = Pow(a, i) /\ b = f[i] /\ c = s[i + 1]
    <3>1. Pow(a, i) \in Bytes
      BY PowSteps
    <3>2. f[i] \in Bytes /\ s[i + 1] \in Bytes
      BY <1>1, ProductRunStep
    <3>3. QED
      BY <3>1, <3>2
  <2>2. f[i + 1] = gfMul(b, c)
    BY <1>1, <2>1, ProductRunStep
  <2>3. g[i + 1] = gfMul(gfMul(p, b), gfMul(a, c))
    <3>1. g[i + 1] = gfMul(g[i], u[i + 1]) /\ i + 1 \in 1..n
      BY <1>2, ProductRunStep
    <3>2. u[i + 1] = gfMul(a, c)
      BY <2>1, <3>1 DEF Scales
    <3>3. QED
      BY <1>4, <2>1, <3>1, <3>2
  <2>4. Pow(a, i + 1) = gfMul(p, a)
    BY <2>1, PowSteps
  <2>5. gfMul(gfMul(p, b), gfMul(a, c)) = gfMul(gfMul(p, a), gfMul(b, c))
    BY MulRegroups
  <2>6. i + 1 \in 0..n
    OBVIOUS
  <2>7. QED
    BY <2>2, <2>3, <2>4, <2>5, <2>6
<1>5. n \in P
  <2>1. 0..n \subseteq P
    <3> HIDE DEF P
    <3>1. QED
      BY <1>3, <1>4, BoundedInduction
  <2>2. QED
    BY <2>1
<1>6. QED
  BY <1>1, <1>2, <1>5

(* The factors of s that are in V.                                          *)
Kept(s, n, V) == [i \in 1..n |-> IF s[i] \in V THEN s[i] ELSE One]

(* Enumerations of the same bytes, each once.                               *)
Enumerates(s, n, V) ==
  /\ s \in [1..n -> Bytes]
  /\ \A i, j \in 1..n : s[i] = s[j] => i = j
  /\ \A i \in 1..n : s[i] \in V
  /\ \A v \in V : \E i \in 1..n : s[i] = v

(* One more byte kept is one more factor.                                   *)
LEMMA KeptGrows ==
  ASSUME NEW n \in Nat, NEW s, NEW V, Enumerates(s, n, V), NEW v \in V, NEW S, v \notin S
  PROVE  gfProduct(Kept(s, n, S \cup {v})) = gfMul(v, gfProduct(Kept(s, n, S)))
<1>1. s \in [1..n -> Bytes] /\ One \in Bytes
  BY BytesAre DEF Enumerates
<1>2. PICK a \in 1..n : s[a] = v
  BY DEF Enumerates
<1>3. PICK p, q : p = Kept(s, n, S \cup {v}) /\ q = Kept(s, n, S)
  OBVIOUS
<1>4. p \in [1..n -> Bytes] /\ q \in [1..n -> Bytes]
  BY <1>1, <1>3 DEF Kept
<1>5. p[a] = v /\ q[a] = One
  BY <1>2, <1>3 DEF Kept
<1>6. \A i \in 1..n : i # a => q[i] = p[i]
  <2>1. \A i \in 1..n : i # a => s[i] # v
    BY <1>2 DEF Enumerates
  <2>2. QED
    BY <1>3, <2>1 DEF Kept
<1>7. gfProduct(p) = gfMul(p[a], gfProduct(q))
  BY <1>4, <1>5, <1>6, ProductSplit
<1>8. QED
  BY <1>3, <1>5, <1>7

(* The product does not depend on the order of its factors.                 *)
LEMMA ProductPermutes ==
  ASSUME NEW n \in Nat, NEW s, NEW t, NEW V, Enumerates(s, n, V), Enumerates(t, n, V)
  PROVE  gfProduct(s) = gfProduct(t)
<1>1. s \in [1..n -> Bytes] /\ t \in [1..n -> Bytes]
  BY DEF Enumerates
<1> DEFINE First(m) == {s[i] : i \in 1..m}
<1> DEFINE P == {m \in 0..n : gfProduct(Kept(s, n, First(m))) = gfProduct(Kept(t, n, First(m)))}
<1>2. 0 \in P
  <2>1. First(0) = {}
    OBVIOUS
  <2> HIDE DEF First
  <2>2. \A u \in [1..n -> Bytes] : gfProduct(Kept(u, n, {})) = One
    <3> SUFFICES ASSUME NEW u \in [1..n -> Bytes] PROVE gfProduct(Kept(u, n, {})) = One
      OBVIOUS
    <3> DEFINE o == Kept(u, n, {})
    <3>1. o \in [1..n -> Bytes] /\ \A i \in 1..n : o[i] = One
      BY BytesAre DEF Kept
    <3> HIDE DEF o
    <3>2. gfProduct(o) = One
      BY <3>1, ProductOfOnes
    <3>3. QED
      BY <3>2 DEF o
  <2>3. gfProduct(Kept(s, n, First(0))) = gfProduct(Kept(t, n, First(0)))
    BY <1>1, <2>1, <2>2
  <2>4. 0 \in 0..n
    OBVIOUS
  <2>5. QED
    BY <2>3, <2>4
<1>3. ASSUME NEW m \in 0..(n - 1), m \in P PROVE m + 1 \in P
  <2>1. PICK j \in 1..n : j = m + 1
    OBVIOUS
  <2>2. First(j) = First(m) \cup {s[j]} /\ s[j] \notin First(m) /\ s[j] \in V
    <3>1. 1..j = (1..m) \cup {j} /\ j \notin 1..m /\ 1..m \subseteq 1..n
      BY <2>1
    <3>2. First(j) = First(m) \cup {s[j]}
      BY <3>1
    <3>3. s[j] \notin First(m)
      BY <3>1 DEF Enumerates
    <3>4. s[j] \in V
      BY DEF Enumerates
    <3>5. QED
      BY <3>2, <3>3, <3>4
  <2> DEFINE S == First(m)
  <2> DEFINE v == s[j]
  <2>3. v \in V /\ v \notin S /\ First(j) = S \cup {v}
    BY <2>2
  <2>4. gfProduct(Kept(s, n, S)) = gfProduct(Kept(t, n, S))
    BY <1>3
  <2> HIDE DEF First, S, v
  <2>5. gfProduct(Kept(s, n, S \cup {v})) = gfMul(v, gfProduct(Kept(s, n, S)))
    BY <2>3, KeptGrows
  <2>6. gfProduct(Kept(t, n, S \cup {v})) = gfMul(v, gfProduct(Kept(t, n, S)))
    BY <2>3, KeptGrows
  <2>7. j \in 0..n
    OBVIOUS
  <2>8. QED
    BY <2>1, <2>3, <2>4, <2>5, <2>6, <2>7
<1>4. n \in P
  <2>1. 0..n \subseteq P
    <3> HIDE DEF P
    <3>1. QED
      BY <1>2, <1>3, BoundedInduction
  <2>2. QED
    BY <2>1
<1>5. First(n) = V
  BY DEF Enumerates
<1>6. Kept(s, n, V) = s /\ Kept(t, n, V) = t
  BY <1>1 DEF Kept, Enumerates
<1>7. QED
  BY <1>4, <1>5, <1>6

(* The bytes other than zero can be enumerated.                             *)
LEMMA NonzeroEnumerated ==
  \E s : Enumerates(s, 2^Width - 1, Bytes \ {{}})
<1> DEFINE V == Bytes \ {{}}
<1>1. IsFiniteSet(Bits) /\ Cardinality(Bits) = Width
  <2>1. IsFiniteSet(0..(Width - 1)) /\ Cardinality(0..(Width - 1)) = Width
    BY WidthAssumption, FS_Interval
  <2>2. QED
    BY <2>1 DEF Bits
<1>2. IsFiniteSet(Bytes) /\ Cardinality(Bytes) = 2^Width
  BY <1>1, FS_SUBSET DEF Bytes
<1>3. IsFiniteSet(V) /\ Cardinality(V) = 2^Width - 1
  <2>1. {} \in Bytes
    BY BytesAre
  <2>2. QED
    BY <1>2, <2>1, FS_RemoveElement
<1>4. PICK n : n = 2^Width - 1
  OBVIOUS
<1>5. ExistsBijection(1..n, V)
  BY <1>3, <1>4, FS_CardinalityType
<1> HIDE DEF V
<1>6. PICK s : s \in Bijection(1..n, V)
  BY <1>5 DEF ExistsBijection
<1>7. Enumerates(s, n, V)
  <2>1. s \in [1..n -> V] /\ \A v \in V : \E i \in 1..n : s[i] = v
    BY <1>6 DEF Bijection, Surjection
  <2>2. \A i, j \in 1..n : s[i] = s[j] => i = j
    BY <1>6 DEF Bijection, Injection, IsInjective
  <2>3. s \in [1..n -> Bytes]
    BY <2>1 DEF V
  <2>4. QED
    BY <2>1, <2>2, <2>3 DEF Enumerates
<1>8. QED
  BY <1>4, <1>7 DEF V

(* Multiplied by a byte other than zero they are enumerated in another      *)
(* order: none is hit twice, so all are hit.                                *)
LEMMA ScaledEnumerated ==
  ASSUME NEW a \in Bytes, a # {}, NEW n \in Nat, NEW s, Enumerates(s, n, Bytes \ {{}})
  PROVE  \E u : Enumerates(u, n, Bytes \ {{}}) /\ Scales(u, s, a, n)
<1> DEFINE V == Bytes \ {{}}
<1> DEFINE u == [i \in 1..n |-> gfMul(a, s[i])]
<1>1. \A i \in 1..n : s[i] \in Bytes /\ s[i] # {}
  BY DEF Enumerates
<1>2. \A i \in 1..n : gfMul(a, s[i]) \in V
  BY <1>1, MulType, NoZeroDivisors
<1>3. u \in [1..n -> V] /\ u \in [1..n -> Bytes]
  BY <1>2
<1>4. \A i, j \in 1..n : u[i] = u[j] => i = j
  <2> SUFFICES ASSUME NEW i \in 1..n, NEW j \in 1..n, u[i] = u[j] PROVE i = j
    OBVIOUS
  <2>1. gfMul(a, s[i]) = gfMul(a, s[j])
    OBVIOUS
  <2>2. s[i] = s[j]
    BY <1>1, <2>1, MulCancels
  <2>3. QED
    BY <2>2 DEF Enumerates
<1>5. Scales(u, s, a, n)
  BY DEF Scales
<1> HIDE DEF u, V
<1>6. s \in Bijection(1..n, V)
  <2>1. s \in [1..n -> V] /\ \A v \in V : \E i \in 1..n : s[i] = v
    BY DEF Enumerates, V
  <2>2. \A i, j \in 1..n : s[i] = s[j] => i = j
    BY DEF Enumerates
  <2>3. QED
    BY <2>1, <2>2 DEF Bijection, Injection, Surjection, IsInjective
<1>7. IsFiniteSet(1..n)
  BY FS_Interval
<1>8. IsFiniteSet(V) /\ Cardinality(V) = Cardinality(1..n)
  <2>1. ExistsBijection(1..n, V)
    BY <1>6 DEF ExistsBijection
  <2>2. QED
    BY <1>7, <2>1, FS_Bijection
<1>9. u \in Injection(1..n, V)
  BY <1>3, <1>4 DEF Injection, IsInjective
<1>10. u \in Surjection(1..n, V)
  BY <1>8, <1>9, FS_Injection
<1>11. Enumerates(u, n, V)
  BY <1>3, <1>4, <1>10 DEF Enumerates, Surjection
<1>12. QED
  BY <1>5, <1>11 DEF V

Invertible == \A a \in Bytes \ {{}} : gfMul(a, gfInv(a)) = One

(* So the power is one, and gfInv, one factor short of it, an inverse:      *)
(* a^254 in the code's field.                                              *)
THEOREM GfInvInverts == Invertible
<1> SUFFICES ASSUME NEW a \in Bytes, a # {} PROVE gfMul(a, gfInv(a)) = One
  BY DEF Invertible
<1>1. PICK m \in Nat : 2^Width = m + 2 /\ 2^Width - 1 = m + 1 /\ 2^Width - 2 = m
  <2>1. PICK i \in Nat : Width = i + 1
    <3>1. Width - 1 \in Nat /\ Width = (Width - 1) + 1
      BY WidthAssumption
    <3>2. QED
      BY <3>1
  <2>2. PICK p \in Nat \ {0} : p = 2^i /\ 2^Width = 2 * p
    BY <2>1, PowerOfTwoDoubles
  <2>3. 2 * p - 2 \in Nat /\ 2 * p = (2 * p - 2) + 2 /\ 2 * p - 1 = (2 * p - 2) + 1
    OBVIOUS
  <2>4. QED
    BY <2>2, <2>3
<1>2. PICK n \in Nat : n = m + 1
  OBVIOUS
<1> DEFINE V == Bytes \ {{}}
<1>3. PICK s : Enumerates(s, n, V)
  BY <1>1, <1>2, NonzeroEnumerated
<1>4. PICK u : Enumerates(u, n, V) /\ Scales(u, s, a, n)
  BY <1>3, ScaledEnumerated
<1>5. s \in [1..n -> Bytes] /\ u \in [1..n -> Bytes] /\ \A i \in 1..n : s[i] # {}
  BY <1>3, <1>4 DEF Enumerates
<1> HIDE DEF V
<1>6. gfProduct(u) = gfMul(Pow(a, n), gfProduct(s))
  BY <1>4, <1>5, ProductScales
<1>7. gfProduct(u) = gfProduct(s)
  BY <1>3, <1>4, ProductPermutes
<1>8. PICK e \in Bytes, p \in Bytes : e = gfProduct(s) /\ e # {} /\ p = Pow(a, n)
  <2>1. gfProduct(s) \in Bytes /\ gfProduct(s) # {}
    BY <1>5, ProductType, ProductNonzero
  <2>2. Pow(a, n) \in Bytes
    BY PowSteps
  <2>3. QED
    BY <2>1, <2>2
<1>9. p = One
  <2>1. gfMul(e, p) = gfMul(e, One)
    <3>1. gfMul(p, e) = e
      BY <1>6, <1>7, <1>8
    <3>2. gfMul(e, p) = gfMul(p, e) /\ gfMul(e, One) = e
      BY MulCommutes, MulByOne
    <3>3. QED
      BY <3>1, <3>2
  <2>2. QED
    BY <1>8, <2>1, MulCancels, BytesAre
<1>10. gfInv(a) = Pow(a, m)
  <2>1. m < 2^Width
    BY <1>1
  <2>2. Power(a, m) = Pow(a, m)
    BY <2>1, PowerIsPow
  <2>3. QED
    BY <1>1, <2>2 DEF gfInv
<1>11. gfMul(Pow(a, m), a) = One
  BY <1>2, <1>8, <1>9, PowSteps
<1>12. QED
  BY <1>10, <1>11, PowSteps, MulCommutes

(* One is its own inverse.                                                  *)
LEMMA InvOfOne == gfInv(One) = One
<1>1. One \in Bytes /\ One # {}
  BY BytesAre DEF One
<1>2. gfMul(One, gfInv(One)) = One
  BY <1>1, GfInvInverts DEF Invertible
<1>3. QED
  BY <1>1, <1>2, MulOneLeft, InvType

(* Dividing a factor out of a product, under gfInv.                         *)
LEMMA InvOfProduct ==
  ASSUME NEW a \in Bytes, NEW b \in Bytes, a # {}, b # {}
  PROVE  gfMul(a, gfInv(gfMul(a, b))) = gfInv(b)
<1> DEFINE p == gfMul(a, b)
<1> DEFINE q == gfInv(p)
<1>1. p \in Bytes /\ p # {} /\ q \in Bytes /\ gfInv(b) \in Bytes
  BY MulType, NoZeroDivisors, InvType
<1>2. gfMul(p, q) = One /\ gfMul(b, gfInv(b)) = One
  BY <1>1, GfInvInverts DEF Invertible
<1>3. p = gfMul(b, a)
  BY MulCommutes
<1> HIDE DEF p, q
<1>4. gfMul(p, q) = gfMul(b, gfMul(a, q))
  BY <1>1, <1>3, MulAssociates
<1>5. gfMul(a, q) = gfInv(b)
  BY <1>1, <1>2, <1>4, MulType, MulCancels
<1>6. QED
  BY <1>5 DEF p, q

----------------------------------------------------------------------------
(* Sums add,                                                               *)
LEMMA SumAdds ==
  ASSUME NEW n \in Nat, NEW s \in [1..n -> Bytes], NEW t \in [1..n -> Bytes],
         NEW u \in [1..n -> Bytes], \A i \in 1..n : u[i] = Xor(s[i], t[i])
  PROVE  gfSum(u) = Xor(gfSum(s), gfSum(t))
<1>1. PICK f : IsSumRun(f, s, n) /\ gfSum(s) = f[n]
  BY SumRuns
<1>2. PICK g : IsSumRun(g, t, n) /\ gfSum(t) = g[n]
  BY SumRuns
<1>3. PICK h : IsSumRun(h, u, n) /\ gfSum(u) = h[n]
  BY SumRuns
<1> DEFINE P == {i \in 0..n : h[i] = Xor(f[i], g[i])}
<1>4. 0 \in P
  <2>1. f[0] = {} /\ g[0] = {} /\ h[0] = {}
    BY <1>1, <1>2, <1>3 DEF IsSumRun
  <2>2. h[0] = Xor(f[0], g[0]) /\ 0 \in 0..n
    BY <2>1, XorEmpty
  <2>3. QED
    BY <2>2
<1>5. ASSUME NEW i \in 0..(n - 1), i \in P PROVE i + 1 \in P
  <2>1. f[i + 1] = Xor(f[i], s[i + 1])
    BY <1>1, SumRunStep
  <2>2. g[i + 1] = Xor(g[i], t[i + 1])
    BY <1>2, SumRunStep
  <2>3. h[i + 1] = Xor(h[i], u[i + 1]) /\ i + 1 \in 1..n /\ i + 1 \in 0..n
    BY <1>3, SumRunStep
  <2>4. h[i + 1] = Xor(Xor(f[i], g[i]), Xor(s[i + 1], t[i + 1]))
    BY <1>5, <2>3
  <2>5. h[i + 1] = Xor(f[i + 1], g[i + 1])
    BY <2>1, <2>2, <2>4, XorRegroups
  <2>6. QED
    BY <2>3, <2>5
<1>6. n \in P
  <2> HIDE DEF P
  <2>1. 0..n \subseteq P
    BY <1>4, <1>5, BoundedInduction
  <2>2. QED
    BY <2>1
<1>7. QED
  BY <1>1, <1>2, <1>3, <1>6

(* and a common factor is taken out of a sum.                              *)
LEMMA SumScales ==
  ASSUME NEW n \in Nat, NEW c \in Bytes, NEW s \in [1..n -> Bytes], NEW u \in [1..n -> Bytes],
         \A i \in 1..n : u[i] = gfMul(c, s[i])
  PROVE  gfSum(u) = gfMul(c, gfSum(s))
<1>1. PICK f : IsSumRun(f, s, n) /\ gfSum(s) = f[n]
  BY SumRuns
<1>2. PICK h : IsSumRun(h, u, n) /\ gfSum(u) = h[n]
  BY SumRuns
<1> DEFINE P == {i \in 0..n : h[i] = gfMul(c, f[i])}
<1>3. 0 \in P
  <2>1. f[0] = {} /\ h[0] = {}
    BY <1>1, <1>2 DEF IsSumRun
  <2>2. h[0] = gfMul(c, f[0]) /\ 0 \in 0..n
    BY <2>1, MulByEmpty
  <2>3. QED
    BY <2>2
<1>4. ASSUME NEW i \in 0..(n - 1), i \in P PROVE i + 1 \in P
  <2>1. f[i + 1] = Xor(f[i], s[i + 1]) /\ f[i] \in Bytes
    BY <1>1, SumRunStep
  <2>2. h[i + 1] = Xor(h[i], u[i + 1]) /\ i + 1 \in 1..n /\ i + 1 \in 0..n
    BY <1>2, SumRunStep
  <2>3. h[i + 1] = Xor(gfMul(c, f[i]), gfMul(c, s[i + 1])) /\ s[i + 1] \in Bytes
    BY <1>4, <2>2
  <2>4. h[i + 1] = gfMul(c, f[i + 1])
    BY <2>1, <2>3, MulAddsRight
  <2>5. QED
    BY <2>2, <2>4
<1>5. n \in P
  <2> HIDE DEF P
  <2>1. 0..n \subseteq P
    BY <1>3, <1>4, BoundedInduction
  <2>2. QED
    BY <2>1
<1>6. QED
  BY <1>1, <1>2, <1>5

----------------------------------------------------------------------------
(* Interpolation.  Through nodes x[1], ..., x[n], all different, the         *)
(* divided difference of the values g over the nodes in S is the sum of      *)
(* each g[i] over the product of the differences of x[i] to the others.      *)
Nodes(x, n) == x \in [1..n -> Bytes] /\ \A i, j \in 1..n : x[i] = x[j] => i = j

Factors(x, n, S, i) == [j \in 1..n |-> IF j \in S \ {i} THEN Xor(x[i], x[j]) ELSE One]
Denominator(x, n, S, i) == gfProduct(Factors(x, n, S, i))
Terms(x, n, S, g) ==
  [i \in 1..n |-> IF i \in S THEN gfMul(g[i], gfInv(Denominator(x, n, S, i))) ELSE {}]
Difference(x, n, S, g) == gfSum(Terms(x, n, S, g))

(* The differences of one node to the others are bytes other than zero,     *)
LEMMA FactorsType ==
  ASSUME NEW n \in Nat, NEW x, Nodes(x, n), NEW S, NEW i \in 1..n
  PROVE  /\ Factors(x, n, S, i) \in [1..n -> Bytes]
         /\ \A j \in 1..n : Factors(x, n, S, i)[j] # {}
<1>1. \A j \in 1..n : x[j] \in Bytes /\ (j # i => x[i] # x[j])
  BY DEF Nodes
<1>2. One \in Bytes /\ One # {}
  BY BytesAre DEF One
<1>3. \A j \in 1..n : j # i => Xor(x[i], x[j]) \in Bytes /\ Xor(x[i], x[j]) # {}
  BY <1>1, XorType, XorCancels
<1>4. QED
  BY <1>2, <1>3 DEF Factors

(* and so is their product: interpolation never divides by zero.            *)
LEMMA DenominatorType ==
  ASSUME NEW n \in Nat, NEW x, Nodes(x, n), NEW S, NEW i \in 1..n
  PROVE  Denominator(x, n, S, i) \in Bytes /\ Denominator(x, n, S, i) # {}
BY FactorsType, ProductType, ProductNonzero DEF Denominator

(* The factor of one node taken out.                                       *)
LEMMA DenominatorSplit ==
  ASSUME NEW n \in Nat, NEW x, Nodes(x, n), NEW S, NEW a \in S, a \in 1..n,
         NEW i \in 1..n, i # a
  PROVE  Denominator(x, n, S, i) = gfMul(Xor(x[i], x[a]), Denominator(x, n, S \ {a}, i))
<1> DEFINE s == Factors(x, n, S, i)
<1> DEFINE t == Factors(x, n, S \ {a}, i)
<1>1. s \in [1..n -> Bytes] /\ t \in [1..n -> Bytes]
  BY FactorsType
<1>2. s[a] = Xor(x[i], x[a]) /\ t[a] = One /\ \A j \in 1..n : j # a => t[j] = s[j]
  BY DEF Factors
<1> HIDE DEF s, t
<1>3. gfProduct(s) = gfMul(s[a], gfProduct(t))
  BY <1>1, <1>2, ProductSplit
<1>4. QED
  BY <1>2, <1>3 DEF s, t, Denominator

(* The terms of a divided difference are bytes,                             *)
LEMMA TermsType ==
  ASSUME NEW n \in Nat, NEW x, Nodes(x, n), NEW S, NEW g \in [1..n -> Bytes]
  PROVE  Terms(x, n, S, g) \in [1..n -> Bytes]
<1>1. \A i \in 1..n : gfMul(g[i], gfInv(Denominator(x, n, S, i))) \in Bytes
  <2> SUFFICES ASSUME NEW i \in 1..n
      PROVE  gfMul(g[i], gfInv(Denominator(x, n, S, i))) \in Bytes
    OBVIOUS
  <2>1. g[i] \in Bytes /\ gfInv(Denominator(x, n, S, i)) \in Bytes
    BY DenominatorType, InvType
  <2>2. QED
    BY <2>1, MulType
<1>2. {} \in Bytes
  BY BytesAre
<1>3. QED
  BY <1>1, <1>2 DEF Terms

(* and so is their sum.                                                     *)
LEMMA DifferenceType ==
  ASSUME NEW n \in Nat, NEW x, Nodes(x, n), NEW S, NEW g \in [1..n -> Bytes]
  PROVE  Difference(x, n, S, g) \in Bytes
BY TermsType, SumType DEF Difference

(* Differences are linear in the values.                                   *)
Adds(u, g, h, n) == \A i \in 1..n : u[i] = Xor(g[i], h[i])

(* Divided differences are linear: they add                                 *)
LEMMA DifferenceAdds ==
  ASSUME NEW n \in Nat, NEW x, Nodes(x, n), NEW S,
         NEW g \in [1..n -> Bytes], NEW h \in [1..n -> Bytes], NEW u \in [1..n -> Bytes],
         Adds(u, g, h, n)
  PROVE  Difference(x, n, S, u) = Xor(Difference(x, n, S, g), Difference(x, n, S, h))
<1>1. ASSUME NEW i \in 1..n
      PROVE  Terms(x, n, S, u)[i] = Xor(Terms(x, n, S, g)[i], Terms(x, n, S, h)[i])
  <2>1. PICK v \in Bytes : v = gfInv(Denominator(x, n, S, i))
    BY DenominatorType, InvType
  <2>2. /\ Terms(x, n, S, u)[i] = IF i \in S THEN gfMul(u[i], v) ELSE {}
        /\ Terms(x, n, S, g)[i] = IF i \in S THEN gfMul(g[i], v) ELSE {}
        /\ Terms(x, n, S, h)[i] = IF i \in S THEN gfMul(h[i], v) ELSE {}
    BY <2>1 DEF Terms
  <2>3. gfMul(u[i], v) = Xor(gfMul(g[i], v), gfMul(h[i], v))
    BY <2>1, MulAddsLeft DEF Adds
  <2>4. QED
    BY <2>2, <2>3, XorEmpty
<1>2. /\ Terms(x, n, S, u) \in [1..n -> Bytes] /\ Terms(x, n, S, g) \in [1..n -> Bytes]
      /\ Terms(x, n, S, h) \in [1..n -> Bytes]
  BY TermsType
<1>3. QED
  BY <1>1, <1>2, SumAdds DEF Difference

(* and they scale.                                                          *)
LEMMA DifferenceScales ==
  ASSUME NEW n \in Nat, NEW x, Nodes(x, n), NEW S, NEW c \in Bytes,
         NEW g \in [1..n -> Bytes], NEW u \in [1..n -> Bytes],
         \A i \in 1..n : u[i] = gfMul(c, g[i])
  PROVE  Difference(x, n, S, u) = gfMul(c, Difference(x, n, S, g))
<1>1. ASSUME NEW i \in 1..n PROVE Terms(x, n, S, u)[i] = gfMul(c, Terms(x, n, S, g)[i])
  <2>1. PICK v \in Bytes : v = gfInv(Denominator(x, n, S, i))
    BY DenominatorType, InvType
  <2>2. /\ Terms(x, n, S, u)[i] = IF i \in S THEN gfMul(u[i], v) ELSE {}
        /\ Terms(x, n, S, g)[i] = IF i \in S THEN gfMul(g[i], v) ELSE {}
    BY <2>1 DEF Terms
  <2>3. gfMul(u[i], v) = gfMul(c, gfMul(g[i], v))
    BY <2>1, MulAssociates
  <2>4. QED
    BY <2>2, <2>3, MulByEmpty
<1>2. Terms(x, n, S, u) \in [1..n -> Bytes] /\ Terms(x, n, S, g) \in [1..n -> Bytes]
  BY TermsType
<1>3. QED
  BY <1>1, <1>2, SumScales DEF Difference

(* Values that vanish at a node, by its factor, lose the node.             *)
LEMMA DifferenceLosesNode ==
  ASSUME NEW n \in Nat, NEW x, Nodes(x, n), NEW S, NEW a \in S, a \in 1..n,
         NEW g \in [1..n -> Bytes], NEW u \in [1..n -> Bytes],
         \A i \in 1..n : u[i] = gfMul(Xor(x[i], x[a]), g[i])
  PROVE  Difference(x, n, S, u) = Difference(x, n, S \ {a}, g)
<1>1. ASSUME NEW i \in 1..n PROVE Terms(x, n, S, u)[i] = Terms(x, n, S \ {a}, g)[i]
  <2>1. /\ Terms(x, n, S, u)[i] =
             IF i \in S THEN gfMul(u[i], gfInv(Denominator(x, n, S, i))) ELSE {}
        /\ Terms(x, n, S \ {a}, g)[i] =
             IF i \in S \ {a} THEN gfMul(g[i], gfInv(Denominator(x, n, S \ {a}, i))) ELSE {}
    BY DEF Terms
  <2>2. CASE i \notin S
    BY <2>1, <2>2
  <2>3. CASE i = a
    <3>1. gfInv(Denominator(x, n, S, i)) \in Bytes /\ g[i] \in Bytes
      BY DenominatorType, InvType
    <3>2. Xor(x[i], x[a]) = {}
      BY <2>3, XorEmpty
    <3>3. u[i] = {}
      BY <3>1, <3>2, MulByEmpty
    <3>4. gfMul(u[i], gfInv(Denominator(x, n, S, i))) = {}
      BY <3>1, <3>3, MulByEmpty
    <3>5. QED
      BY <2>1, <2>3, <3>4
  <2>4. CASE i \in S /\ i # a
    <3> DEFINE d == Denominator(x, n, S \ {a}, i)
    <3> DEFINE c == Xor(x[i], x[a])
    <3>1. d \in Bytes /\ d # {}
      BY DenominatorType
    <3>2. c \in Bytes /\ c # {} /\ g[i] \in Bytes
      BY <2>4, XorType, XorCancels DEF Nodes
    <3>3. Denominator(x, n, S, i) = gfMul(c, d)
      BY <2>4, DenominatorSplit
    <3> HIDE DEF c, d
    <3>4. PICK v \in Bytes : v = gfInv(gfMul(c, d))
      BY <3>1, <3>2, MulType, InvType
    <3>5. gfMul(c, v) = gfInv(d)
      BY <3>1, <3>2, <3>4, InvOfProduct
    <3>6. gfMul(gfMul(c, g[i]), v) = gfMul(gfMul(g[i], c), v)
      BY <3>2, MulCommutes
    <3>7. gfMul(gfMul(g[i], c), v) = gfMul(g[i], gfMul(c, v))
      BY <3>2, <3>4, MulAssociates
    <3>8. u[i] = gfMul(c, g[i])
      BY DEF c
    <3>9. gfMul(u[i], gfInv(Denominator(x, n, S, i))) = gfMul(g[i], gfInv(d))
      BY <3>3, <3>4, <3>5, <3>6, <3>7, <3>8
    <3>10. QED
      BY <2>1, <2>4, <3>9 DEF d
  <2>5. QED
    BY <2>2, <2>3, <2>4
<1>2. Terms(x, n, S, u) = Terms(x, n, S \ {a}, g)
  <2>1. PICK s \in [1..n -> Bytes] : s = Terms(x, n, S, u)
    BY TermsType
  <2>2. PICK t \in [1..n -> Bytes] : t = Terms(x, n, S \ {a}, g)
    BY TermsType
  <2>3. \A i \in 1..n : s[i] = t[i]
    BY <1>1, <2>1, <2>2
  <2>4. s = t
    BY <2>3
  <2>5. QED
    BY <2>1, <2>2, <2>4
<1>3. QED
  BY <1>2 DEF Difference

(* So the values times their nodes: a step of Horner's rule.               *)
TimesNodes(u, g, x, n) == \A i \in 1..n : u[i] = gfMul(g[i], x[i])

(* The rule of the product with the node: the difference of x * g in terms  *)
(* of those of g.                                                           *)
LEMMA DifferenceTimesNode ==
  ASSUME NEW n \in Nat, NEW x, Nodes(x, n), NEW S, NEW a \in S, a \in 1..n,
         NEW g \in [1..n -> Bytes], NEW u \in [1..n -> Bytes], TimesNodes(u, g, x, n)
  PROVE  Difference(x, n, S, u) =
           Xor(gfMul(x[a], Difference(x, n, S, g)), Difference(x, n, S \ {a}, g))
<1>0. x \in [1..n -> Bytes]
  BY DEF Nodes
<1> DEFINE v == [i \in 1..n |-> gfMul(x[a], g[i])]
<1> DEFINE w == [i \in 1..n |-> gfMul(Xor(x[i], x[a]), g[i])]
<1>1. v \in [1..n -> Bytes] /\ w \in [1..n -> Bytes]
  BY <1>0, XorType, MulType
<1>2. ASSUME NEW i \in 1..n PROVE u[i] = Xor(v[i], w[i])
  <2>1. x[i] \in Bytes /\ x[a] \in Bytes /\ g[i] \in Bytes
    BY <1>0
  <2>2. w[i] = Xor(gfMul(x[i], g[i]), gfMul(x[a], g[i]))
    BY <2>1, MulAddsLeft
  <2>3. u[i] = gfMul(x[i], g[i])
    BY <2>1, MulCommutes DEF TimesNodes
  <2>4. PICK p, q : p = gfMul(x[i], g[i]) /\ q = gfMul(x[a], g[i])
    OBVIOUS
  <2>5. Xor(q, Xor(p, q)) = p
    BY DEF Xor
  <2>6. v[i] = q /\ w[i] = Xor(p, q)
    BY <2>2, <2>4
  <2>7. QED
    BY <2>3, <2>4, <2>5, <2>6
<1>3. /\ \A i \in 1..n : v[i] = gfMul(x[a], g[i])
      /\ \A i \in 1..n : w[i] = gfMul(Xor(x[i], x[a]), g[i])
  OBVIOUS
<1> HIDE DEF v, w
<1>4. Difference(x, n, S, u) = Xor(Difference(x, n, S, v), Difference(x, n, S, w))
  <2>1. Adds(u, v, w, n)
    BY <1>2 DEF Adds
  <2>2. QED
    BY <1>1, <2>1, DifferenceAdds
<1>5. Difference(x, n, S, v) = gfMul(x[a], Difference(x, n, S, g))
  BY <1>0, <1>1, <1>3, DifferenceScales
<1>6. Difference(x, n, S, w) = Difference(x, n, S \ {a}, g)
  BY <1>1, <1>3, DifferenceLosesNode
<1>7. QED
  BY <1>4, <1>5, <1>6

(* The difference over one node is the value at it, over more of a constant *)
(* nothing.                                                                *)
LEMMA DifferenceOfOne ==
  ASSUME NEW n \in Nat, NEW x, Nodes(x, n), NEW a \in 1..n,
         NEW g \in [1..n -> Bytes]
  PROVE  Difference(x, n, {a}, g) = g[a]
<1> DEFINE s == Terms(x, n, {a}, g)
<1> DEFINE t == [i \in 1..n |-> {}]
<1>1. Denominator(x, n, {a}, a) = One
  <2> DEFINE f == Factors(x, n, {a}, a)
  <2>1. \A i \in 1..n : f[i] = One
    BY DEF Factors
  <2>2. f \in [1..n -> Bytes]
    BY FactorsType
  <2> HIDE DEF f
  <2>3. gfProduct(f) = One
    BY <2>1, <2>2, ProductOfOnes
  <2>4. QED
    BY <2>3 DEF f, Denominator
<1>2. s[a] = g[a]
  <2>1. s[a] = gfMul(g[a], gfInv(Denominator(x, n, {a}, a)))
    BY DEF Terms
  <2>2. s[a] = gfMul(g[a], One)
    BY <1>1, <2>1, InvOfOne
  <2>3. QED
    BY <2>2, MulByOne
<1>3. s \in [1..n -> Bytes] /\ t \in [1..n -> Bytes] /\ t[a] = {}
  BY TermsType, BytesAre
<1>4. \A i \in 1..n : i # a => t[i] = s[i]
  BY DEF Terms
<1>5. gfSum(t) = {}
  <2>1. \A i \in 1..n : t[i] = {}
    OBVIOUS
  <2> HIDE DEF t
  <2>2. QED
    BY <1>3, <2>1, SumOfZeros
<1> HIDE DEF s, t
<1>6. gfSum(s) = Xor(s[a], gfSum(t))
  BY <1>3, <1>4, SumSplit
<1>7. gfSum(s) = g[a]
  BY <1>2, <1>5, <1>6, XorEmpty
<1>8. QED
  BY <1>7 DEF s, Difference

(* Of a constant: the recurrence of divided differences.                   *)
LEMMA DifferenceOfOnes ==
  ASSUME NEW n \in Nat, NEW x, Nodes(x, n), NEW S,
         NEW a \in 1..n, NEW b \in 1..n, a \in S, b \in S, a # b,
         NEW ones \in [1..n -> Bytes], \A i \in 1..n : ones[i] = One
  PROVE  gfMul(Xor(x[a], x[b]), Difference(x, n, S, ones)) =
           Xor(Difference(x, n, S \ {a}, ones), Difference(x, n, S \ {b}, ones))
<1>0. x \in [1..n -> Bytes] /\ \A i, j \in 1..n : x[i] = x[j] => i = j
  BY DEF Nodes
<1>1. PICK c \in Bytes : c = Xor(x[a], x[b]) /\ c # {}
  BY <1>0, XorType, XorCancels
<1> DEFINE v == [i \in 1..n |-> Xor(x[i], x[a])]
<1> DEFINE w == [i \in 1..n |-> Xor(x[i], x[b])]
<1> DEFINE u == [i \in 1..n |-> c]
<1>2. v \in [1..n -> Bytes] /\ w \in [1..n -> Bytes] /\ u \in [1..n -> Bytes]
  BY <1>0, XorType
<1>3. ASSUME NEW i \in 1..n
      PROVE  /\ v[i] = gfMul(Xor(x[i], x[a]), ones[i])
             /\ w[i] = gfMul(Xor(x[i], x[b]), ones[i])
             /\ u[i] = gfMul(c, ones[i])
             /\ u[i] = Xor(v[i], w[i])
  <2>1. ones[i] = One /\ v[i] \in Bytes /\ w[i] \in Bytes
    BY <1>2
  <2>2. gfMul(v[i], One) = v[i] /\ gfMul(w[i], One) = w[i] /\ gfMul(c, One) = c
    BY <1>1, <2>1, MulByOne
  <2>3. PICK p, q, r : p = x[i] /\ q = x[a] /\ r = x[b]
    OBVIOUS
  <2>4. Xor(Xor(p, q), Xor(p, r)) = Xor(q, r)
    BY DEF Xor
  <2>5. u[i] = Xor(v[i], w[i])
    BY <1>1, <2>3, <2>4
  <2>6. QED
    BY <2>1, <2>2, <2>5
<1> HIDE DEF u, v, w
<1>4. Difference(x, n, S, u) = Xor(Difference(x, n, S, v), Difference(x, n, S, w))
  <2>1. Adds(u, v, w, n)
    BY <1>3 DEF Adds
  <2>2. QED
    BY <1>2, <2>1, DifferenceAdds
<1>5. Difference(x, n, S, u) = gfMul(c, Difference(x, n, S, ones))
  <2>1. \A i \in 1..n : u[i] = gfMul(c, ones[i])
    BY <1>3
  <2>2. QED
    BY <1>1, <1>2, <2>1, DifferenceScales
<1>6. Difference(x, n, S, v) = Difference(x, n, S \ {a}, ones)
  <2>1. \A i \in 1..n : v[i] = gfMul(Xor(x[i], x[a]), ones[i])
    BY <1>3
  <2>2. QED
    BY <1>2, <2>1, DifferenceLosesNode
<1>7. Difference(x, n, S, w) = Difference(x, n, S \ {b}, ones)
  <2>1. \A i \in 1..n : w[i] = gfMul(Xor(x[i], x[b]), ones[i])
    BY <1>3
  <2>2. QED
    BY <1>2, <2>1, DifferenceLosesNode
<1>8. QED
  BY <1>1, <1>4, <1>5, <1>6, <1>7

(* A constant has no difference over two nodes or more.                     *)
LEMMA DifferenceOfConstant ==
  ASSUME NEW n \in Nat, NEW x, Nodes(x, n)
  PROVE  \A lo, hi \in 1..n : lo < hi =>
           Difference(x, n, lo..hi, [i \in 1..n |-> One]) = {}
<1>0. x \in [1..n -> Bytes] /\ \A i, j \in 1..n : x[i] = x[j] => i = j
  BY DEF Nodes
<1> DEFINE ones == [i \in 1..n |-> One]
<1>1. ones \in [1..n -> Bytes] /\ \A i \in 1..n : ones[i] = One
  BY BytesAre
<1> DEFINE P == {d \in Nat : \A lo, hi \in 1..n : hi = lo + d + 1 =>
                    Difference(x, n, lo..hi, ones) = {}}
<1> HIDE DEF ones
<1>2. ASSUME NEW lo \in 1..n, NEW hi \in 1..n, lo < hi,
             Difference(x, n, (lo + 1)..hi, ones) = Difference(x, n, lo..(hi - 1), ones)
      PROVE  Difference(x, n, lo..hi, ones) = {}
  <2> DEFINE S == lo..hi
  <2>1. lo \in S /\ hi \in S /\ lo # hi
    BY <1>2
  <2>2. S \ {lo} = (lo + 1)..hi /\ S \ {hi} = lo..(hi - 1)
    BY <1>2
  <2> HIDE DEF S
  <2>3. Difference(x, n, S \ {lo}, ones) = Difference(x, n, S \ {hi}, ones)
    BY <1>2, <2>2
  <2>4. gfMul(Xor(x[lo], x[hi]), Difference(x, n, S, ones)) =
          Xor(Difference(x, n, S \ {lo}, ones), Difference(x, n, S \ {hi}, ones))
    BY <1>1, <2>1, DifferenceOfOnes
  <2>5. gfMul(Xor(x[lo], x[hi]), Difference(x, n, S, ones)) = {}
    BY <2>3, <2>4, XorEmpty
  <2>6. Xor(x[lo], x[hi]) \in Bytes /\ Xor(x[lo], x[hi]) # {}
    BY <1>0, <2>1, XorType, XorCancels
  <2>7. Difference(x, n, S, ones) = {}
    BY <1>1, <2>5, <2>6, DifferenceType, NoZeroDivisors
  <2>8. QED
    BY <2>7 DEF S
<1>3. 0 \in P
  <2> SUFFICES ASSUME NEW lo \in 1..n, NEW hi \in 1..n, hi = lo + 0 + 1
      PROVE  Difference(x, n, lo..hi, ones) = {}
    OBVIOUS
  <2>1. (lo + 1)..hi = {hi} /\ lo..(hi - 1) = {lo} /\ lo < hi
    OBVIOUS
  <2>2. Difference(x, n, {hi}, ones) = One /\ Difference(x, n, {lo}, ones) = One
    BY <1>1, DifferenceOfOne
  <2>3. QED
    BY <1>2, <2>1, <2>2
<1>4. ASSUME NEW d \in Nat, d \in P PROVE d + 1 \in P
  <2> SUFFICES ASSUME NEW lo \in 1..n, NEW hi \in 1..n, hi = lo + (d + 1) + 1
      PROVE  Difference(x, n, lo..hi, ones) = {}
    OBVIOUS
  <2>1. PICK lo1 \in 1..n, hi1 \in 1..n :
          lo1 = lo + 1 /\ hi1 = hi - 1 /\ hi = lo1 + d + 1 /\ hi1 = lo + d + 1 /\ lo < hi
    OBVIOUS
  <2>2. Difference(x, n, lo1..hi, ones) = {} /\ Difference(x, n, lo..hi1, ones) = {}
    BY <1>4, <2>1
  <2>3. QED
    BY <1>2, <2>1, <2>2
<1>5. Nat \subseteq P
  <2> HIDE DEF P
  <2>1. QED
    BY <1>3, <1>4, SetInduction
<1>6. ASSUME NEW lo \in 1..n, NEW hi \in 1..n, lo < hi
      PROVE  Difference(x, n, lo..hi, ones) = {}
  <2>1. PICK d \in Nat : d = hi - lo - 1 /\ hi = lo + d + 1
    BY <1>6
  <2>2. d \in P
    BY <1>5
  <2>3. QED
    BY <2>1, <2>2
<1>7. QED
  BY <1>6 DEF ones

----------------------------------------------------------------------------
(* Horner's rule as a loop from the highest coefficient down.                *)
IsEvalRun(f, c, k, x) ==
  /\ \A i \in 0..k : f[i] \in Bytes
  /\ f[0] = {}
  /\ \A i \in 1..k : f[i] = Xor(gfMul(f[i - 1], x), c[k - i])

(* gfEval is the last round of Horner's rule.                               *)
LEMMA EvalRuns ==
  ASSUME NEW k \in Nat, NEW c \in [0..(k - 1) -> Bytes], NEW x \in Bytes
  PROVE  \E f : IsEvalRun(f, c, k, x) /\ gfEval(c, x) = f[k]
<1> DEFINE step == [z \in (1..k) \X Bytes |-> Xor(gfMul(z[2], x), c[k - z[1]])]
<1> DEFINE Rounds(g) ==
      g = [i \in 0..k |-> IF i = k THEN {} ELSE Xor(gfMul(g[i + 1], x), c[i])]
<1>1. \A i \in 1..k : k - i \in 0..(k - 1) /\ c[k - i] \in Bytes
  OBVIOUS
<1>2. step \in Steps(k, Bytes)
  BY <1>1, XorType, MulType DEF Steps
<1>3. PICK f : IsRun(f, k, Bytes, {}, step)
  <2> HIDE DEF step
  <2>1. {} \in Bytes
    BY BytesAre
  <2>2. QED
    BY <1>2, <2>1, LoopRuns
<1>4. \A i \in 1..k : f[i] = Xor(gfMul(f[i - 1], x), c[k - i])
  <2> SUFFICES ASSUME NEW i \in 1..k PROVE f[i] = Xor(gfMul(f[i - 1], x), c[k - i])
    OBVIOUS
  <2>1. f[i - 1] \in Bytes
    BY <1>3 DEF IsRun
  <2>2. QED
    BY <1>3, <2>1 DEF IsRun
<1> HIDE DEF step
<1> DEFINE g == [i \in 0..k |-> f[k - i]]
<1>5. Rounds(g)
  <2>1. ASSUME NEW i \in 0..k, i # k PROVE g[i] = Xor(gfMul(g[i + 1], x), c[i])
    <3>1. PICK j \in 1..k : j = k - i /\ k - j = i /\ j - 1 = k - (i + 1) /\ i + 1 \in 0..k
      BY <2>1
    <3>2. f[j] = Xor(gfMul(f[j - 1], x), c[k - j])
      BY <1>4
    <3>3. g[i] = f[j] /\ g[i + 1] = f[j - 1]
      BY <3>1
    <3>4. QED
      BY <3>1, <3>2, <3>3
  <2>2. g[k] = {}
    BY <1>3 DEF IsRun
  <2>3. g = [i \in 0..k |-> g[i]]
    OBVIOUS
  <2> HIDE DEF g
  <2>4. \A i \in 0..k : g[i] = IF i = k THEN {} ELSE Xor(gfMul(g[i + 1], x), c[i])
    BY <2>1, <2>2
  <2>5. QED
    BY <2>3, <2>4, Zenon
<1> HIDE DEF g
<1>6. Cardinality(DOMAIN c) = k
  <2>1. DOMAIN c = 0..(k - 1)
    OBVIOUS
  <2>2. Cardinality(0..(k - 1)) = k
    BY FS_Interval
  <2>3. QED
    BY <2>1, <2>2
<1> DEFINE y[i \in 0..k] == IF i = k THEN {} ELSE Xor(gfMul(y[i + 1], x), c[i])
<1>7. gfEval(c, x) = y[0]
  BY <1>6 DEF gfEval
<1>8. Rounds(y)
  BY <1>5
<1> HIDE DEF y
<1>9. y[k] = {} /\ \A i \in 0..(k - 1) : y[i] = Xor(gfMul(y[i + 1], x), c[i])
  <2>1. \A i \in 0..k : y[i] = IF i = k THEN {} ELSE Xor(gfMul(y[i + 1], x), c[i])
    BY <1>8, Zenon
  <2>2. y[k] = {}
    BY <2>1
  <2>3. \A i \in 0..(k - 1) : y[i] = Xor(gfMul(y[i + 1], x), c[i])
    BY <2>1
  <2>4. QED
    BY <2>2, <2>3
<1> DEFINE h == [i \in 0..k |-> y[k - i]]
<1>10. h[0] = {} /\ h[k] = y[0]
  BY <1>9
<1>11. ASSUME NEW i \in 1..k PROVE h[i] = Xor(gfMul(h[i - 1], x), c[k - i])
  <2>1. PICK j \in 0..(k - 1) : j = k - i /\ j + 1 = k - (i - 1) /\ i - 1 \in 0..k
    OBVIOUS
  <2>2. y[j] = Xor(gfMul(y[j + 1], x), c[j])
    BY <1>9
  <2>3. h[i] = y[j] /\ h[i - 1] = y[j + 1]
    BY <2>1
  <2>4. QED
    BY <2>1, <2>2, <2>3
<1> HIDE DEF h
<1>12. \A i \in 0..k : h[i] \in Bytes
  <2>1. h[0] \in Bytes
    BY <1>10, BytesAre
  <2>2. Keeps(h, k, Bytes)
    <3>1. ASSUME NEW i \in 1..k, h[i - 1] \in Bytes PROVE h[i] \in Bytes
      BY <1>1, <1>11, <3>1, XorType, MulType
    <3>2. QED
      BY <2>1, <3>1 DEF Keeps
  <2>3. QED
    BY <2>2, LoopKeeps
<1>13. IsEvalRun(h, c, k, x)
  BY <1>10, <1>11, <1>12 DEF IsEvalRun
<1>14. QED
  BY <1>7, <1>10, <1>13

(* A polynomial takes a byte to a byte.                                     *)
LEMMA EvalType ==
  ASSUME NEW k \in Nat, NEW c \in [0..(k - 1) -> Bytes], NEW x \in Bytes
  PROVE  gfEval(c, x) \in Bytes
<1>1. PICK f : IsEvalRun(f, c, k, x) /\ gfEval(c, x) = f[k]
  BY EvalRuns
<1>2. QED
  BY <1>1 DEF IsEvalRun

HornerStep(f, c, k, x, i) ==
  /\ i \in 0..k /\ i + 1 \in 0..k
  /\ f[i] \in Bytes
  /\ f[i + 1] = Xor(gfMul(f[i], x), c[k - i - 1])
  /\ k - i - 1 \in 0..(k - 1)

(* One round of Horner's rule.                                              *)
LEMMA EvalRunStep ==
  ASSUME NEW k \in Nat, NEW c, NEW x, NEW f, IsEvalRun(f, c, k, x), NEW i \in 0..(k - 1)
  PROVE  HornerStep(f, c, k, x, i)
<1>1. PICK j \in 1..k : j = i + 1 /\ j - 1 = i /\ k - j = k - i - 1
  OBVIOUS
<1>2. f[j] = Xor(gfMul(f[j - 1], x), c[k - j])
  BY DEF IsEvalRun
<1>3. QED
  BY <1>1, <1>2 DEF IsEvalRun, HornerStep

(* The value at zero is the constant term,                                 *)
LEMMA EvalAtZero ==
  ASSUME NEW k \in Nat \ {0}, NEW c \in [0..(k - 1) -> Bytes]
  PROVE  gfEval(c, {}) = c[0]
<1>1. PICK f : IsEvalRun(f, c, k, {}) /\ gfEval(c, {}) = f[k]
  BY EvalRuns, BytesAre
<1>2. PICK i \in 0..(k - 1) : i + 1 = k /\ k - i - 1 = 0
  OBVIOUS
<1>3. f[i] \in Bytes /\ f[i + 1] = Xor(gfMul(f[i], {}), c[k - i - 1])
  <2>1. HornerStep(f, c, k, {}, i)
    BY <1>1, EvalRunStep
  <2>2. QED
    BY <2>1 DEF HornerStep
<1>4. f[i + 1] = c[0]
  BY <1>2, <1>3, MulByEmpty, XorEmpty
<1>5. QED
  BY <1>1, <1>2, <1>4

(* values add as the coefficients do,                                      *)
AddUp(u, c, d, k) ==
  /\ k \in Nat
  /\ u \in [0..(k - 1) -> Bytes] /\ c \in [0..(k - 1) -> Bytes] /\ d \in [0..(k - 1) -> Bytes]
  /\ \A i \in 0..(k - 1) : u[i] = Xor(c[i], d[i])

(* The value of a sum is the sum of the values,                             *)
LEMMA EvalAdds ==
  ASSUME NEW k, NEW c, NEW d, NEW u, AddUp(u, c, d, k), NEW x \in Bytes
  PROVE  gfEval(u, x) = Xor(gfEval(c, x), gfEval(d, x))
<1>0. k \in Nat
  BY DEF AddUp
<1>1. PICK f : IsEvalRun(f, c, k, x) /\ gfEval(c, x) = f[k]
  BY EvalRuns DEF AddUp
<1>2. PICK g : IsEvalRun(g, d, k, x) /\ gfEval(d, x) = g[k]
  BY EvalRuns DEF AddUp
<1>3. PICK h : IsEvalRun(h, u, k, x) /\ gfEval(u, x) = h[k]
  BY EvalRuns DEF AddUp
<1> DEFINE P == {i \in 0..k : h[i] = Xor(f[i], g[i])}
<1>4. 0 \in P
  <2>1. f[0] = {} /\ g[0] = {} /\ h[0] = {}
    BY <1>1, <1>2, <1>3 DEF IsEvalRun
  <2>2. h[0] = Xor(f[0], g[0]) /\ 0 \in 0..k
    BY <1>0, <2>1, XorEmpty
  <2>3. QED
    BY <2>2
<1>5. ASSUME NEW i \in 0..(k - 1), i \in P PROVE i + 1 \in P
  <2>1. /\ f[i] \in Bytes /\ f[i + 1] = Xor(gfMul(f[i], x), c[k - i - 1])
        /\ k - i - 1 \in 0..(k - 1)
    <3>1. HornerStep(f, c, k, x, i)
      BY <1>0, <1>1, EvalRunStep
    <3>2. QED
      BY <3>1 DEF HornerStep
  <2>2. g[i] \in Bytes /\ g[i + 1] = Xor(gfMul(g[i], x), d[k - i - 1])
    <3>1. HornerStep(g, d, k, x, i)
      BY <1>0, <1>2, EvalRunStep
    <3>2. QED
      BY <3>1 DEF HornerStep
  <2>3. i + 1 \in 0..k /\ h[i + 1] = Xor(gfMul(h[i], x), u[k - i - 1])
    <3>1. HornerStep(h, u, k, x, i)
      BY <1>0, <1>3, EvalRunStep
    <3>2. QED
      BY <3>1 DEF HornerStep
  <2>4. gfMul(h[i], x) = Xor(gfMul(f[i], x), gfMul(g[i], x))
    BY <1>5, <2>1, <2>2, MulAddsLeft
  <2>5. u[k - i - 1] = Xor(c[k - i - 1], d[k - i - 1])
    BY <2>1 DEF AddUp
  <2>6. PICK p, q, r, s : p = gfMul(f[i], x) /\ q = gfMul(g[i], x)
                          /\ r = c[k - i - 1] /\ s = d[k - i - 1]
    OBVIOUS
  <2>7. h[i + 1] = Xor(f[i + 1], g[i + 1])
    BY <2>1, <2>2, <2>3, <2>4, <2>5, <2>6, XorRegroups
  <2>8. QED
    BY <2>3, <2>7
<1>6. k \in P
  <2> HIDE DEF P
  <2>1. 0..k \subseteq P
    BY <1>0, <1>4, <1>5, BoundedInduction
  <2>2. QED
    BY <1>0, <2>1
<1>7. QED
  BY <1>1, <1>2, <1>3, <1>6

(* and scale with them;                                                    *)
ScaledBy(u, c, a, k) == \A i \in 0..(k - 1) : u[i] = gfMul(a, c[i])

(* and a factor of all coefficients is one of the value.                    *)
LEMMA EvalScales ==
  ASSUME NEW k \in Nat, NEW c \in [0..(k - 1) -> Bytes], NEW a \in Bytes,
         NEW u \in [0..(k - 1) -> Bytes], ScaledBy(u, c, a, k),
         NEW x \in Bytes
  PROVE  gfEval(u, x) = gfMul(a, gfEval(c, x))
<1>1. PICK f : IsEvalRun(f, c, k, x) /\ gfEval(c, x) = f[k]
  BY EvalRuns
<1>2. PICK h : IsEvalRun(h, u, k, x) /\ gfEval(u, x) = h[k]
  BY EvalRuns
<1> DEFINE P == {i \in 0..k : h[i] = gfMul(a, f[i])}
<1>3. 0 \in P
  <2>1. f[0] = {} /\ h[0] = {}
    BY <1>1, <1>2 DEF IsEvalRun
  <2>2. h[0] = gfMul(a, f[0]) /\ 0 \in 0..k
    BY <2>1, MulByEmpty
  <2>3. QED
    BY <2>2
<1>4. ASSUME NEW i \in 0..(k - 1), i \in P PROVE i + 1 \in P
  <2>1. /\ f[i] \in Bytes /\ f[i + 1] = Xor(gfMul(f[i], x), c[k - i - 1])
        /\ k - i - 1 \in 0..(k - 1)
    <3>1. HornerStep(f, c, k, x, i)
      BY <1>1, EvalRunStep
    <3>2. QED
      BY <3>1 DEF HornerStep
  <2>2. i + 1 \in 0..k /\ h[i + 1] = Xor(gfMul(h[i], x), u[k - i - 1])
    <3>1. HornerStep(h, u, k, x, i)
      BY <1>2, EvalRunStep
    <3>2. QED
      BY <3>1 DEF HornerStep
  <2>3. gfMul(h[i], x) = gfMul(a, gfMul(f[i], x))
    BY <1>4, <2>1, MulAssociates
  <2>4. u[k - i - 1] = gfMul(a, c[k - i - 1]) /\ c[k - i - 1] \in Bytes
    BY <2>1 DEF ScaledBy
  <2>5. gfMul(f[i], x) \in Bytes
    BY <2>1, MulType
  <2>6. gfMul(a, Xor(gfMul(f[i], x), c[k - i - 1])) =
          Xor(gfMul(a, gfMul(f[i], x)), gfMul(a, c[k - i - 1]))
    BY <2>4, <2>5, MulAddsRight
  <2>7. h[i + 1] = gfMul(a, f[i + 1])
    BY <2>1, <2>2, <2>3, <2>4, <2>6
  <2>8. QED
    BY <2>2, <2>7
<1>5. k \in P
  <2> HIDE DEF P
  <2>1. 0..k \subseteq P
    BY <1>3, <1>4, BoundedInduction
  <2>2. QED
    BY <2>1
<1>6. QED
  BY <1>1, <1>2, <1>5

(* moving the coefficients one place up multiplies by the point.           *)
LEMMA EvalShifts ==
  ASSUME NEW k \in Nat \ {0}, NEW c \in [0..(k - 1) -> Bytes], c[k - 1] = {},
         NEW u \in [0..(k - 1) -> Bytes], u[0] = {}, \A i \in 1..(k - 1) : u[i] = c[i - 1],
         NEW x \in Bytes
  PROVE  gfEval(u, x) = gfMul(gfEval(c, x), x)
<1>1. PICK f : IsEvalRun(f, c, k, x) /\ gfEval(c, x) = f[k]
  BY EvalRuns
<1>2. PICK h : IsEvalRun(h, u, k, x) /\ gfEval(u, x) = h[k]
  BY EvalRuns
<1> DEFINE last == k - 1
<1>0. last \in Nat /\ last \in 0..(k - 1) /\ last + 1 = k /\ 0 \in 0..(k - 1) /\ 0 + 1 = 1
  OBVIOUS
<1> HIDE DEF last
<1> DEFINE P == {i \in 0..last : h[i] = f[i + 1]}
<1>3. 0 \in P
  <2>1. f[0] = {} /\ h[0] = {}
    BY <1>1, <1>2 DEF IsEvalRun
  <2>2. f[0 + 1] = Xor(gfMul(f[0], x), c[k - 0 - 1])
    <3>1. HornerStep(f, c, k, x, 0)
      BY <1>0, <1>1, EvalRunStep
    <3>2. QED
      BY <3>1 DEF HornerStep
  <2>3. gfMul({}, x) = {} /\ k - 0 - 1 = k - 1
    BY MulByEmpty
  <2>4. f[0 + 1] = {}
    BY <2>1, <2>2, <2>3, XorEmpty
  <2>5. h[0] = f[0 + 1] /\ 0 \in 0..last
    BY <1>0, <2>1, <2>4
  <2>6. QED
    BY <2>5
<1>4. ASSUME NEW i \in 0..(last - 1), i \in P PROVE i + 1 \in P
  <2>0. i \in 0..(k - 1) /\ i + 1 \in 0..(k - 1) /\ i + 1 \in 0..last
    BY <1>0
  <2>1. h[i + 1] = Xor(gfMul(h[i], x), u[k - i - 1])
    <3>1. HornerStep(h, u, k, x, i)
      BY <1>2, <2>0, EvalRunStep
    <3>2. QED
      BY <3>1 DEF HornerStep
  <2>2. f[(i + 1) + 1] = Xor(gfMul(f[i + 1], x), c[k - (i + 1) - 1])
    <3>1. HornerStep(f, c, k, x, i + 1)
      BY <1>1, <2>0, EvalRunStep
    <3>2. QED
      BY <3>1 DEF HornerStep
  <2>3. PICK j \in 1..(k - 1) : j = k - i - 1 /\ j - 1 = k - (i + 1) - 1
    BY <1>0, <2>0
  <2>4. u[j] = c[j - 1]
    OBVIOUS
  <2>5. h[i + 1] = f[(i + 1) + 1]
    BY <1>4, <2>1, <2>2, <2>3, <2>4
  <2>6. QED
    BY <2>0, <2>5
<1>5. last \in P
  <2> HIDE DEF P
  <2>1. 0..last \subseteq P
    BY <1>0, <1>3, <1>4, BoundedInduction
  <2>2. QED
    BY <1>0, <2>1
<1>6. h[last] = f[k]
  BY <1>0, <1>5
<1>7. h[last + 1] = Xor(gfMul(h[last], x), u[k - last - 1])
  <2>1. HornerStep(h, u, k, x, last)
    BY <1>0, <1>2, EvalRunStep
  <2>2. QED
    BY <2>1 DEF HornerStep
<1>8. k - last - 1 = 0
  BY <1>0
<1>9. h[k] = gfMul(f[k], x)
  BY <1>0, <1>6, <1>7, <1>8, XorEmpty
<1>10. QED
  BY <1>1, <1>2, <1>9
----------------------------------------------------------------------------
(* The values of a polynomial with k coefficients have no divided            *)
(* difference over more than k nodes.                                       *)
Values(c, x, n) == [i \in 1..n |-> gfEval(c, x[i])]

(* One step of Horner's rule at every node at once.                         *)
LEMMA DifferenceOfStep ==
  ASSUME NEW n \in Nat, NEW x, Nodes(x, n), NEW lo \in 1..n, NEW hi \in 1..n,
         lo < hi, NEW g \in [1..n -> Bytes], NEW u \in [1..n -> Bytes], NEW d \in Bytes,
         \A i \in 1..n : u[i] = Xor(gfMul(g[i], x[i]), d),
         Difference(x, n, lo..hi, g) = {}, Difference(x, n, (lo + 1)..hi, g) = {}
  PROVE  Difference(x, n, lo..hi, u) = {}
<1>0. x \in [1..n -> Bytes]
  BY DEF Nodes
<1> DEFINE v == [i \in 1..n |-> gfMul(g[i], x[i])]
<1> DEFINE w == [i \in 1..n |-> d]
<1> DEFINE ones == [i \in 1..n |-> One]
<1>1. v \in [1..n -> Bytes] /\ w \in [1..n -> Bytes] /\ ones \in [1..n -> Bytes]
  BY <1>0, MulType, BytesAre
<1>2. Adds(u, v, w, n)
  BY DEF Adds
<1>3. TimesNodes(v, g, x, n)
  BY DEF TimesNodes
<1>4. \A i \in 1..n : w[i] = gfMul(d, ones[i])
  BY MulByOne
<1>5. Difference(x, n, lo..hi, ones) = {}
  BY DifferenceOfConstant
<1> HIDE DEF v, w, ones
<1> DEFINE S == lo..hi
<1>6. lo \in S /\ S \ {lo} = (lo + 1)..hi
  OBVIOUS
<1>7. Difference(x, n, S, g) = {} /\ Difference(x, n, S, ones) = {}
  BY <1>5
<1>8. Difference(x, n, S \ {lo}, g) = {}
  BY <1>6
<1> HIDE DEF S
<1>9. Difference(x, n, S, v) = {}
  <2>1. Difference(x, n, S, v) =
          Xor(gfMul(x[lo], Difference(x, n, S, g)), Difference(x, n, S \ {lo}, g))
    BY <1>1, <1>3, <1>6, DifferenceTimesNode
  <2>2. x[lo] \in Bytes
    BY <1>0
  <2>3. gfMul(x[lo], {}) = {} /\ Xor({}, {}) = {}
    BY <2>2, MulByEmpty, XorEmpty
  <2>4. QED
    BY <1>7, <1>8, <2>1, <2>3
<1>10. Difference(x, n, S, w) = {}
  <2>1. Difference(x, n, S, w) = gfMul(d, Difference(x, n, S, ones))
    BY <1>1, <1>4, DifferenceScales
  <2>2. QED
    BY <1>7, <2>1, MulByEmpty
<1>11. Difference(x, n, S, u) = Xor(Difference(x, n, S, v), Difference(x, n, S, w))
  BY <1>1, <1>2, DifferenceAdds
<1>12. Difference(x, n, S, u) = {}
  BY <1>9, <1>10, <1>11, XorEmpty
<1>13. QED
  BY <1>12 DEF S

(* Zero everywhere has no difference.                                       *)
LEMMA DifferenceOfZeros ==
  ASSUME NEW n \in Nat, NEW x, Nodes(x, n), NEW S,
         NEW g \in [1..n -> Bytes], \A i \in 1..n : g[i] = {}
  PROVE  Difference(x, n, S, g) = {}
<1>1. {} \in Bytes
  BY BytesAre
<1>2. \A i \in 1..n : g[i] = gfMul({}, g[i])
  BY MulByEmpty
<1>3. Difference(x, n, S, g) = gfMul({}, Difference(x, n, S, g))
  BY <1>1, <1>2, DifferenceScales
<1>4. QED
  BY <1>3, DifferenceType, MulByEmpty

(* A polynomial of degree below k has no difference over more than k nodes. *)
LEMMA DifferenceOfPolynomial ==
  ASSUME NEW n \in Nat, NEW x, Nodes(x, n),
         NEW k \in Nat, NEW c \in [0..(k - 1) -> Bytes],
         NEW lo \in 1..n, NEW hi \in 1..n, hi - lo >= k
  PROVE  Difference(x, n, lo..hi, Values(c, x, n)) = {}
<1>0. x \in [1..n -> Bytes]
  BY DEF Nodes
<1> DEFINE Run(f, i) == IsEvalRun(f, c, k, x[i]) /\ gfEval(c, x[i]) = f[k]
<1> DEFINE run == [i \in 1..n |-> CHOOSE f : Run(f, i)]
<1>1. ASSUME NEW i \in 1..n PROVE Run(run[i], i)
  <2>1. x[i] \in Bytes
    BY <1>0
  <2>2. \E f : Run(f, i)
    BY <2>1, EvalRuns
  <2>3. run[i] = CHOOSE f : Run(f, i)
    OBVIOUS
  <2>4. QED
    BY <2>2, <2>3, Zenon
<1> HIDE DEF run
<1> DEFINE V(m) == [i \in 1..n |-> run[i][m]]
<1>2. ASSUME NEW m \in 0..k PROVE V(m) \in [1..n -> Bytes]
  BY <1>1 DEF IsEvalRun
<1> DEFINE P == {m \in 0..k : \A a, b \in 1..n :
                   b - a >= m => Difference(x, n, a..b, V(m)) = {}}
<1>3. 0 \in P
  <2>1. V(0) \in [1..n -> Bytes] /\ \A i \in 1..n : V(0)[i] = {}
    BY <1>1, <1>2 DEF IsEvalRun
  <2> HIDE DEF V
  <2>2. \A a, b \in 1..n : Difference(x, n, a..b, V(0)) = {}
    BY <2>1, DifferenceOfZeros
  <2>3. QED
    BY <2>2
<1>4. ASSUME NEW m \in 0..(k - 1), m \in P PROVE m + 1 \in P
  <2>0. m \in 0..k /\ m + 1 \in 0..k /\ k - m - 1 \in 0..(k - 1) /\ c[k - m - 1] \in Bytes
    OBVIOUS
  <2> SUFFICES ASSUME NEW a \in 1..n, NEW b \in 1..n, b - a >= m + 1
      PROVE  Difference(x, n, a..b, V(m + 1)) = {}
    BY <2>0
  <2>1. ASSUME NEW i \in 1..n PROVE V(m + 1)[i] = Xor(gfMul(V(m)[i], x[i]), c[k - m - 1])
    <3>1. IsEvalRun(run[i], c, k, x[i])
      BY <1>1
    <3>2. HornerStep(run[i], c, k, x[i], m)
      BY <3>1, EvalRunStep
    <3>3. run[i][m + 1] = Xor(gfMul(run[i][m], x[i]), c[k - m - 1])
      BY <3>2 DEF HornerStep
    <3>4. QED
      BY <3>3
  <2>2. Difference(x, n, a..b, V(m)) = {}
    <3> HIDE DEF V
    <3>1. QED
      BY <1>4
  <2>3. Difference(x, n, (a + 1)..b, V(m)) = {}
    <3>1. PICK a1 \in 1..n : a1 = a + 1 /\ b - a1 >= m
      OBVIOUS
    <3>2. Difference(x, n, a1..b, V(m)) = {}
      BY <1>4, <3>1
    <3>3. QED
      BY <3>1, <3>2
  <2>4. V(m) \in [1..n -> Bytes] /\ V(m + 1) \in [1..n -> Bytes] /\ a < b
    BY <1>2, <2>0
  <2> HIDE DEF V
  <2>5. QED
    BY <2>0, <2>1, <2>2, <2>3, <2>4, DifferenceOfStep
<1>5. k \in P
  <2> HIDE DEF P
  <2>1. 0..k \subseteq P
    BY <1>3, <1>4, BoundedInduction
  <2>2. QED
    BY <2>1
<1>6. V(k) = Values(c, x, n)
  BY <1>1 DEF Values
<1>7. Difference(x, n, lo..hi, V(k)) = {}
  BY <1>5
<1>8. QED
  BY <1>6, <1>7
----------------------------------------------------------------------------
(* Lagrange's formula at zero, for nonzero nodes: zero is taken as one more  *)
(* node, and the divided difference over all of them solved for its term.    *)
Numerators(x, m, i) == [j \in 1..m |-> IF j = i THEN One ELSE x[j]]
OtherNodes(x, m, i) == [j \in 1..m |-> IF j = i THEN One ELSE Xor(x[i], x[j])]
Lagrange(x, m, i) ==
  gfMul(gfProduct(Numerators(x, m, i)), gfInv(gfProduct(OtherNodes(x, m, i))))

Nonzero(x, m) == \A i \in 1..m : x[i] # {}
WithZero(x, m) == [i \in 1..(m + 1) |-> IF i = m + 1 THEN {} ELSE x[i]]

(* What combineRaw computes on the way are bytes, the denominators not      *)
(* zero.                                                                    *)
LEMMA LagrangeTypes ==
  ASSUME NEW m \in Nat, NEW x, Nodes(x, m), Nonzero(x, m), NEW i \in 1..m
  PROVE  /\ Numerators(x, m, i) \in [1..m -> Bytes]
         /\ OtherNodes(x, m, i) \in [1..m -> Bytes]
         /\ \A j \in 1..m : Numerators(x, m, i)[j] # {} /\ OtherNodes(x, m, i)[j] # {}
         /\ gfProduct(Numerators(x, m, i)) \in Bytes
         /\ gfProduct(OtherNodes(x, m, i)) \in Bytes
         /\ gfProduct(OtherNodes(x, m, i)) # {}
         /\ Lagrange(x, m, i) \in Bytes
<1>1. \A j \in 1..m : x[j] \in Bytes /\ x[j] # {} /\ (j # i => x[i] # x[j])
  BY DEF Nodes, Nonzero
<1>2. One \in Bytes /\ One # {}
  BY BytesAre DEF One
<1>3. \A j \in 1..m : j # i => Xor(x[i], x[j]) \in Bytes /\ Xor(x[i], x[j]) # {}
  BY <1>1, XorType, XorCancels
<1>4. /\ Numerators(x, m, i) \in [1..m -> Bytes]
      /\ \A j \in 1..m : Numerators(x, m, i)[j] # {}
  BY <1>1, <1>2 DEF Numerators
<1>5. /\ OtherNodes(x, m, i) \in [1..m -> Bytes]
      /\ \A j \in 1..m : OtherNodes(x, m, i)[j] # {}
  BY <1>2, <1>3 DEF OtherNodes
<1>6. gfProduct(Numerators(x, m, i)) \in Bytes
  BY <1>4, ProductType
<1>7. gfProduct(OtherNodes(x, m, i)) \in Bytes /\ gfProduct(OtherNodes(x, m, i)) # {}
  BY <1>5, ProductType, ProductNonzero
<1>8. Lagrange(x, m, i) \in Bytes
  BY <1>6, <1>7, InvType, MulType DEF Lagrange
<1>9. QED
  BY <1>4, <1>5, <1>6, <1>7, <1>8

(* Zero is one more node, since no share is at zero.                        *)
LEMMA WithZeroNodes ==
  ASSUME NEW m \in Nat, NEW x, Nodes(x, m), Nonzero(x, m)
  PROVE  /\ Nodes(WithZero(x, m), m + 1)
         /\ WithZero(x, m)[m + 1] = {}
         /\ \A i \in 1..m : WithZero(x, m)[i] = x[i]
<1>1. x \in [1..m -> Bytes] /\ \A i, j \in 1..m : x[i] = x[j] => i = j
  BY DEF Nodes
<1>2. {} \in Bytes
  BY BytesAre
<1> DEFINE z == WithZero(x, m)
<1>3. z[m + 1] = {} /\ \A i \in 1..m : z[i] = x[i]
  BY DEF WithZero
<1>4. z \in [1..(m + 1) -> Bytes]
  BY <1>1, <1>2 DEF WithZero
<1> HIDE DEF z
<1>5. ASSUME NEW i \in 1..(m + 1), NEW j \in 1..(m + 1), z[i] = z[j] PROVE i = j
  BY <1>1, <1>3, <1>5 DEF Nonzero
<1>6. Nodes(z, m + 1)
  BY <1>4, <1>5 DEF Nodes
<1>7. QED
  BY <1>3, <1>6 DEF z

(* The denominators over all nodes, from those over the nonzero ones.       *)
LEMMA DenominatorOfZero ==
  ASSUME NEW m \in Nat, NEW x, Nodes(x, m), Nonzero(x, m), NEW i \in 1..m
  PROVE  Denominator(WithZero(x, m), m + 1, 1..(m + 1), m + 1) =
           gfMul(x[i], gfProduct(Numerators(x, m, i)))
<1>0. x \in [1..m -> Bytes] /\ x[i] \in Bytes
  BY DEF Nodes
<1> DEFINE z == WithZero(x, m)
<1> DEFINE s == Factors(z, m + 1, 1..(m + 1), m + 1)
<1>1. Nodes(z, m + 1) /\ m + 1 \in 1..(m + 1)
  BY WithZeroNodes
<1>2. z[m + 1] = {} /\ \A j \in 1..m : z[j] = x[j]
  BY WithZeroNodes
<1> HIDE DEF z
<1>3. s \in [1..(m + 1) -> Bytes]
  BY <1>1, FactorsType
<1>4. s[m + 1] = One /\ \A j \in 1..m : x[j] = s[j]
  BY <1>2, XorEmpty DEF Factors
<1>5. gfProduct(s) = gfMul(gfProduct(x), s[m + 1])
  <2> HIDE DEF s
  <2>1. QED
    BY <1>0, <1>3, <1>4, ProductLast
<1>6. gfProduct(s) = gfProduct(x)
  BY <1>0, <1>4, <1>5, ProductType, MulByOne
<1> DEFINE t == Numerators(x, m, i)
<1>7. t[i] = One /\ \A j \in 1..m : j # i => t[j] = x[j]
  BY DEF Numerators
<1>8. t \in [1..m -> Bytes]
  BY LagrangeTypes
<1> HIDE DEF t
<1>9. gfProduct(x) = gfMul(x[i], gfProduct(t))
  BY <1>0, <1>7, <1>8, ProductSplit
<1>10. QED
  BY <1>6, <1>9 DEF Denominator, z, s, t

(* Seen from a share, the nodes with zero among them.                       *)
LEMMA DenominatorOfNode ==
  ASSUME NEW m \in Nat, NEW x, Nodes(x, m), Nonzero(x, m), NEW i \in 1..m
  PROVE  Denominator(WithZero(x, m), m + 1, 1..(m + 1), i) =
           gfMul(x[i], gfProduct(OtherNodes(x, m, i)))
<1>0. x \in [1..m -> Bytes] /\ x[i] \in Bytes
  BY DEF Nodes
<1> DEFINE z == WithZero(x, m)
<1> DEFINE s == Factors(z, m + 1, 1..(m + 1), i)
<1> DEFINE t == OtherNodes(x, m, i)
<1>1. Nodes(z, m + 1) /\ i \in 1..(m + 1)
  BY WithZeroNodes
<1>2. z[m + 1] = {} /\ \A j \in 1..m : z[j] = x[j]
  BY WithZeroNodes
<1> HIDE DEF z
<1>3. s \in [1..(m + 1) -> Bytes]
  BY <1>1, FactorsType
<1>4. t \in [1..m -> Bytes] /\ gfProduct(t) \in Bytes
  BY LagrangeTypes
<1>5. s[m + 1] = x[i]
  <2>1. m + 1 \in 1..(m + 1) /\ m + 1 \in (1..(m + 1)) \ {i}
    OBVIOUS
  <2>2. s[m + 1] = Xor(z[i], z[m + 1])
    BY <2>1 DEF Factors
  <2>3. QED
    BY <1>2, <2>2, XorEmpty
<1>6. \A j \in 1..m : t[j] = s[j]
  BY <1>2 DEF Factors, OtherNodes
<1> HIDE DEF s, t
<1>7. gfProduct(s) = gfMul(gfProduct(t), s[m + 1])
  BY <1>3, <1>4, <1>6, ProductLast
<1>8. gfProduct(s) = gfMul(x[i], gfProduct(t))
  BY <1>0, <1>4, <1>5, <1>7, MulCommutes
<1>9. QED
  BY <1>8 DEF Denominator, z, s, t

LagrangeTerms(u, c, x, m) ==
  \A i \in 1..m : u[i] = gfMul(gfEval(c, x[i]), Lagrange(x, m, i))

(* Interpolation at zero recovers the constant term, from as many values as *)
(* there are coefficients or more.                                         *)
THEOREM Interpolation ==
  ASSUME NEW m \in Nat, NEW x, Nodes(x, m), Nonzero(x, m),
         NEW k \in 1..m, NEW c \in [0..(k - 1) -> Bytes],
         NEW u \in [1..m -> Bytes], LagrangeTerms(u, c, x, m)
  PROVE  gfSum(u) = c[0]
<1>0. x \in [1..m -> Bytes] /\ k \in Nat /\ k \in Nat \ {0}
  BY DEF Nodes
<1> DEFINE z == WithZero(x, m)
<1> DEFINE S == 1..(m + 1)
<1> DEFINE g == Values(c, z, m + 1)
<1> DEFINE s == Terms(z, m + 1, S, g)
<1> DEFINE N == Denominator(z, m + 1, S, m + 1)
<1> DEFINE t == [i \in 1..m |-> s[i]]
<1>1. Nodes(z, m + 1) /\ m + 1 \in 1..(m + 1)
  BY WithZeroNodes
<1>2. z[m + 1] = {} /\ \A i \in 1..m : z[i] = x[i]
  BY WithZeroNodes
<1>3. z \in [1..(m + 1) -> Bytes]
  BY <1>1 DEF Nodes
<1>4. N \in Bytes /\ N # {}
  BY <1>1, DenominatorType
<1>5. \A i \in 1..m : N = gfMul(x[i], gfProduct(Numerators(x, m, i)))
  BY DenominatorOfZero
<1>6. \A i \in 1..m : Denominator(z, m + 1, S, i) = gfMul(x[i], gfProduct(OtherNodes(x, m, i)))
  BY DenominatorOfNode
<1>7. Difference(z, m + 1, S, g) = {}
  <2>1. 1 \in 1..(m + 1) /\ (m + 1) - 1 >= k
    OBVIOUS
  <2> HIDE DEF z
  <2>2. QED
    BY <1>0, <1>1, <2>1, DifferenceOfPolynomial
<1> HIDE DEF z
<1>8. g \in [1..(m + 1) -> Bytes]
  BY <1>0, <1>3, EvalType DEF Values
<1>9. g[m + 1] = c[0] /\ \A i \in 1..m : g[i] = gfEval(c, x[i])
  <2>1. gfEval(c, {}) = c[0]
    BY <1>0, EvalAtZero
  <2>2. \A i \in 1..(m + 1) : g[i] = gfEval(c, z[i])
    BY DEF Values
  <2> HIDE DEF g
  <2>3. g[m + 1] = c[0]
    BY <1>1, <1>2, <2>1, <2>2
  <2>4. ASSUME NEW i \in 1..m PROVE g[i] = gfEval(c, x[i])
    <3>1. i \in 1..(m + 1)
      OBVIOUS
    <3>2. QED
      BY <1>2, <2>2, <3>1
  <2>5. QED
    BY <2>3, <2>4
<1> HIDE DEF g
<1>10. s \in [1..(m + 1) -> Bytes]
  BY <1>1, <1>8, TermsType
<1>11. /\ s[m + 1] = gfMul(c[0], gfInv(N))
       /\ \A i \in 1..m : s[i] = gfMul(gfEval(c, x[i]), gfInv(Denominator(z, m + 1, S, i)))
  BY <1>9 DEF Terms
<1>12. gfSum(s) = {}
  BY <1>7 DEF Difference
<1> HIDE DEF s, N
<1>13. t \in [1..m -> Bytes] /\ \A i \in 1..m : t[i] = s[i]
  BY <1>10
<1> HIDE DEF t
<1>14. gfSum(s) = Xor(gfSum(t), s[m + 1])
  BY <1>10, <1>13, SumLast
<1>15. gfSum(t) = gfMul(c[0], gfInv(N))
  BY <1>11, <1>12, <1>14, XorCancels
<1>16. \A i \in 1..m : u[i] = gfMul(N, t[i])
  <2> SUFFICES ASSUME NEW i \in 1..m PROVE u[i] = gfMul(N, t[i])
    OBVIOUS
  <2>1. PICK p \in Bytes, q \in Bytes, d \in Bytes, f \in Bytes :
          /\ p = x[i] /\ p # {} /\ q = gfProduct(Numerators(x, m, i))
          /\ d = gfProduct(OtherNodes(x, m, i)) /\ d # {} /\ f = gfEval(c, x[i])
    <3>1. x[i] \in Bytes /\ x[i] # {}
      BY <1>0 DEF Nonzero
    <3>2. gfEval(c, x[i]) \in Bytes
      BY <1>0, <3>1, EvalType
    <3>3. /\ gfProduct(Numerators(x, m, i)) \in Bytes
          /\ gfProduct(OtherNodes(x, m, i)) \in Bytes
          /\ gfProduct(OtherNodes(x, m, i)) # {}
      BY LagrangeTypes
    <3>4. QED
      BY <3>1, <3>2, <3>3
  <2>2. PICK v \in Bytes : v = gfInv(gfMul(p, d))
    BY MulType, InvType
  <2>3. gfMul(p, v) = gfInv(d)
    BY <2>1, <2>2, InvOfProduct
  <2>4. t[i] = gfMul(f, v)
    BY <1>6, <1>11, <1>13, <2>1, <2>2
  <2>5. N = gfMul(q, p)
    BY <1>5, <2>1, MulCommutes
  <2>6. gfMul(gfMul(q, p), gfMul(f, v)) = gfMul(f, gfMul(q, gfMul(p, v)))
    <3>1. PICK w \in Bytes : w = gfMul(q, p)
      BY MulType
    <3>2. gfMul(w, gfMul(f, v)) = gfMul(gfMul(w, f), v)
      BY MulAssociates
    <3>3. gfMul(w, f) = gfMul(f, w)
      BY MulCommutes
    <3>4. gfMul(gfMul(f, w), v) = gfMul(f, gfMul(w, v))
      BY <3>1, MulAssociates
    <3>5. gfMul(w, v) = gfMul(q, gfMul(p, v))
      BY <3>1, MulAssociates
    <3>6. QED
      BY <3>1, <3>2, <3>3, <3>4, <3>5
  <2>7. Lagrange(x, m, i) = gfMul(q, gfInv(d))
    BY <2>1 DEF Lagrange
  <2>8. QED
    BY <2>1, <2>3, <2>4, <2>5, <2>6, <2>7 DEF LagrangeTerms
<1>17. gfSum(u) = gfMul(N, gfSum(t))
  BY <1>4, <1>13, <1>16, SumScales
<1>18. gfMul(N, gfMul(c[0], gfInv(N))) = c[0]
  <2>1. PICK b \in Bytes, v \in Bytes : b = c[0] /\ v = gfInv(N)
    BY <1>0, <1>4, InvType
  <2>2. gfMul(N, v) = One
    BY <1>4, <2>1, GfInvInverts DEF Invertible
  <2>3. gfMul(N, gfMul(b, v)) = gfMul(gfMul(b, v), N)
    BY <1>4, <2>1, MulType, MulCommutes
  <2>4. gfMul(gfMul(b, v), N) = gfMul(b, gfMul(v, N))
    BY <1>4, MulAssociates
  <2>5. gfMul(v, N) = gfMul(N, v)
    BY <1>4, MulCommutes
  <2>6. QED
    BY <2>1, <2>2, <2>3, <2>4, <2>5, MulByOne
<1>19. QED
  BY <1>15, <1>17, <1>18
----------------------------------------------------------------------------
(* Through fewer points than a polynomial has coefficients it is not fixed:  *)
(* some polynomial vanishes at the first m of them with any constant term.   *)
Vanishes(q, a, x, k, m) ==
  /\ q \in [0..(k - 1) -> Bytes]
  /\ q[0] = a
  /\ \A j \in (m + 1)..(k - 1) : q[j] = {}
  /\ \A i \in 1..m : gfEval(q, x[i]) = {}

(* Another root: the polynomial times (x - root), scaled to keep its        *)
(* constant term.                                                           *)
LEMMA VanishingStep ==
  ASSUME NEW k \in Nat \ {0}, NEW a \in Bytes,
         NEW x \in [1..(k - 1) -> Bytes], Nonzero(x, k - 1),
         NEW m \in 0..(k - 2), NEW q, Vanishes(q, a, x, k, m)
  PROVE  \E p : Vanishes(p, a, x, k, m + 1)
<1>1. /\ q \in [0..(k - 1) -> Bytes] /\ q[0] = a
      /\ \A j \in (m + 1)..(k - 1) : q[j] = {}
      /\ \A i \in 1..m : gfEval(q, x[i]) = {}
  BY DEF Vanishes
<1>2. PICK node \in Bytes, v \in Bytes :
        node = x[m + 1] /\ v = gfInv(node) /\ gfMul(node, v) = One
  <2>1. m + 1 \in 1..(k - 1)
    OBVIOUS
  <2>2. x[m + 1] \in Bytes /\ x[m + 1] # {}
    BY <2>1 DEF Nonzero
  <2>3. gfInv(x[m + 1]) \in Bytes /\ gfMul(x[m + 1], gfInv(x[m + 1])) = One
    BY <2>2, InvType, GfInvInverts DEF Invertible
  <2>4. QED
    BY <2>2, <2>3
<1> DEFINE w == [j \in 0..(k - 1) |-> IF j = 0 THEN {} ELSE q[j - 1]]
<1> DEFINE d == [j \in 0..(k - 1) |-> gfMul(v, w[j])]
<1> DEFINE p == [j \in 0..(k - 1) |-> Xor(q[j], d[j])]
<1>3. /\ w \in [0..(k - 1) -> Bytes] /\ w[0] = {}
      /\ \A j \in 1..(k - 1) : w[j] = q[j - 1]
  <2>1. {} \in Bytes
    BY BytesAre
  <2>2. \A j \in 0..(k - 1) : j # 0 => q[j - 1] \in Bytes
    BY <1>1
  <2>3. QED
    BY <2>1, <2>2
<1> HIDE DEF w
<1>4. d \in [0..(k - 1) -> Bytes] /\ \A j \in 0..(k - 1) : d[j] = gfMul(v, w[j])
  BY <1>3, MulType
<1> HIDE DEF d
<1>5. p \in [0..(k - 1) -> Bytes] /\ \A j \in 0..(k - 1) : p[j] = Xor(q[j], d[j])
  BY <1>1, <1>4, XorType
<1> HIDE DEF p
<1>6. p[0] = a
  <2>1. 0 \in 0..(k - 1)
    OBVIOUS
  <2>2. d[0] = gfMul(v, w[0]) /\ p[0] = Xor(q[0], d[0])
    BY <1>4, <1>5, <2>1
  <2>3. d[0] = {}
    BY <1>3, <2>2, MulByEmpty
  <2>4. QED
    BY <1>1, <2>2, <2>3, XorEmpty
<1>7. ASSUME NEW j \in ((m + 1) + 1)..(k - 1) PROVE p[j] = {}
  <2>1. j \in 1..(k - 1) /\ j \in (m + 1)..(k - 1) /\ j - 1 \in (m + 1)..(k - 1) /\ j \in 0..(k - 1)
    OBVIOUS
  <2>2. q[j] = {} /\ w[j] = {}
    BY <1>1, <1>3, <2>1
  <2>3. d[j] = {}
    BY <1>4, <2>1, <2>2, MulByEmpty
  <2>4. QED
    BY <1>5, <2>1, <2>2, <2>3, XorEmpty
<1>8. ASSUME NEW i \in 1..(m + 1) PROVE gfEval(p, x[i]) = {}
  <2>1. PICK z \in Bytes : z = x[i]
    <3>1. i \in 1..(k - 1)
      OBVIOUS
    <3>2. QED
      BY <3>1
  <2>2. PICK e \in Bytes : e = gfEval(q, z)
    BY <1>1, EvalType
  <2>3. gfEval(w, z) = gfMul(e, z)
    <3>1. q[k - 1] = {}
      BY <1>1
    <3>2. QED
      BY <1>1, <1>3, <2>2, <3>1, EvalShifts
  <2>4. gfEval(d, z) = gfMul(v, gfMul(e, z))
    <3>1. ScaledBy(d, w, v, k)
      BY <1>4 DEF ScaledBy
    <3>2. k \in Nat /\ w \in [0..(k - 1) -> Bytes] /\ d \in [0..(k - 1) -> Bytes]
      BY <1>3, <1>4
    <3> gfEval(d, z) = gfMul(v, gfEval(w, z))
      BY <3>1, <3>2, EvalScales
    <3>3. QED
      BY <2>3
  <2>5. gfEval(p, z) = Xor(e, gfMul(v, gfMul(e, z)))
    <3>1. AddUp(p, q, d, k)
      BY <1>1, <1>4, <1>5 DEF AddUp
    <3>2. gfEval(p, z) = Xor(gfEval(q, z), gfEval(d, z))
      BY <3>1, EvalAdds
    <3>3. QED
      BY <2>2, <2>4, <3>2
  <2>6. CASE i \in 1..m
    <3>1. e = {}
      BY <1>1, <2>1, <2>2, <2>6
    <3>2. gfMul(v, gfMul(e, z)) = {}
      BY <3>1, MulByEmpty
    <3>3. QED
      BY <2>1, <2>5, <3>1, <3>2, XorEmpty
  <2>7. CASE i = m + 1
    <3>1. z = node
      BY <1>2, <2>1, <2>7
    <3>2. PICK y \in Bytes : y = gfMul(e, z)
      BY MulType
    <3>3. gfMul(v, y) = gfMul(y, v)
      BY MulCommutes
    <3>4. gfMul(gfMul(e, z), v) = gfMul(e, gfMul(z, v))
      BY MulAssociates
    <3>5. gfMul(v, gfMul(e, z)) = e
      BY <1>2, <3>1, <3>2, <3>3, <3>4, MulByOne
    <3>6. QED
      BY <2>1, <2>5, <3>5, XorEmpty
  <2>8. QED
    BY <2>6, <2>7
<1>9. Vanishes(p, a, x, k, m + 1)
  BY <1>5, <1>6, <1>7, <1>8 DEF Vanishes
<1>10. QED
  BY <1>9

(* Fewer than k shares leave room for a polynomial that is zero at each of  *)
(* them and a at 0.                                                         *)
THEOREM VanishingPolynomial ==
  ASSUME NEW k \in Nat \ {0}, NEW a \in Bytes,
         NEW x \in [1..(k - 1) -> Bytes], Nonzero(x, k - 1)
  PROVE  \E q : Vanishes(q, a, x, k, k - 1)
<1> DEFINE last == k - 1
<1>0. last \in Nat /\ last - 1 = k - 2
  OBVIOUS
<1> DEFINE P == {m \in 0..last : \E q : Vanishes(q, a, x, k, m)}
<1>1. 0 \in P
  <2> DEFINE q == [j \in 0..(k - 1) |-> IF j = 0 THEN a ELSE {}]
  <2>1. q \in [0..(k - 1) -> Bytes] /\ q[0] = a
    BY BytesAre
  <2>2. \A j \in (0 + 1)..(k - 1) : q[j] = {}
    OBVIOUS
  <2>3. 1..0 = {}
    OBVIOUS
  <2> HIDE DEF q
  <2>4. Vanishes(q, a, x, k, 0)
    BY <2>1, <2>2, <2>3 DEF Vanishes
  <2>5. QED
    BY <1>0, <2>4
<1>2. ASSUME NEW m \in 0..(last - 1), m \in P PROVE m + 1 \in P
  <2>1. PICK q : Vanishes(q, a, x, k, m)
    BY <1>2
  <2>2. \E p : Vanishes(p, a, x, k, m + 1)
    BY <1>0, <2>1, VanishingStep
  <2>3. QED
    BY <1>0, <2>2
<1> HIDE DEF last
<1>3. last \in P
  <2> HIDE DEF P
  <2>1. 0..last \subseteq P
    BY <1>0, <1>1, <1>2, BoundedInduction
  <2>2. QED
    BY <1>0, <2>1
<1>4. QED
  BY <1>3 DEF last
=============================================================================
