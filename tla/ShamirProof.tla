---------------------------- MODULE ShamirProof ----------------------------
(***************************************************************************)
(* Proofs about Shamir, in every field, for any threshold, any number of     *)
(* shares and any number of shares pasted: what Split returns is well        *)
(* formed, Combine accepts exactly the quorums of a split and then returns   *)
(* the secret, and fewer shares are explained by every secret of the length  *)
(* by equally many draws.                                                   *)
(***************************************************************************)
EXTENDS Shamir, FieldProof

(* A set of natural numbers has a least element,                            *)
LEMMA Least ==
  ASSUME NEW S \in SUBSET Nat, S # {}
  PROVE  Min(S) \in S
<1>1. PICK x \in S : \A y \in S : x <= y
  BY LeastElement
<1>2. QED
  BY <1>1 DEF Min

(* so Combine reports an error exactly when it finds one.                   *)
LEMMA CombineAccepts ==
  ASSUME NEW shares, DOMAIN shares \subseteq Nat
  PROVE  /\ Combine(shares).error = "none" <=>
              /\ ~(Len(shares) < 2)
              /\ \A i \in DOMAIN shares : ShareError(shares, i) = "none"
              /\ ~(Len(shares) < shares[1].k)
         /\ Combine(shares).error # "none" => Combine(shares).secret = <<>>
         /\ Combine(shares).error = "none" => Combine(shares).secret = combineRaw(shares)
<1> DEFINE bad == {i \in DOMAIN shares : ShareError(shares, i) # "none"}
<1>1. bad # {} => ShareError(shares, Min(bad)) # "none"
  <2>1. bad \in SUBSET Nat
    OBVIOUS
  <2>2. QED
    BY <2>1, Least
<1>2. Combine(shares) =
        IF Len(shares) < 2 THEN Failed("too few")
        ELSE IF bad # {} THEN Failed(ShareError(shares, Min(bad)))
        ELSE IF Len(shares) < shares[1].k THEN Failed("too few")
        ELSE [error |-> "none", secret |-> combineRaw(shares)]
  BY DEF Combine
<1>3. \A e : Failed(e).error = e /\ Failed(e).secret = <<>>
  BY DEF Failed
<1>4. bad = {} <=> \A i \in DOMAIN shares : ShareError(shares, i) = "none"
  OBVIOUS
<1> HIDE DEF bad
<1>5. CASE Len(shares) < 2
  <2>1. Combine(shares) = Failed("too few")
    BY <1>2, <1>5
  <2>2. Combine(shares).error = "too few" /\ Combine(shares).secret = <<>>
    BY <1>3, <2>1
  <2>3. QED
    BY <1>5, <2>2
<1>6. CASE ~(Len(shares) < 2) /\ bad # {}
  BY <1>1, <1>2, <1>3, <1>4, <1>6
<1>7. CASE ~(Len(shares) < 2) /\ bad = {} /\ Len(shares) < shares[1].k
  BY <1>2, <1>3, <1>7
<1>8. CASE ~(Len(shares) < 2) /\ bad = {} /\ ~(Len(shares) < shares[1].k)
  BY <1>2, <1>4, <1>8
<1>9. QED
  BY <1>5, <1>6, <1>7, <1>8

(* Quotient and remainder of numbers.                                       *)
LEMMA DivisionBounds ==
  ASSUME NEW x \in Nat, NEW d \in Nat \ {0}
  PROVE  /\ x \div d \in Nat /\ x % d \in Nat /\ x % d < d
         /\ x = d * (x \div d) + (x % d)
OBVIOUS

(* Shifting a number by one more place is halving it once more.             *)
LEMMA Halving ==
  ASSUME NEW x \in Nat, NEW a \in Nat \ {0}
  PROVE  x \div (2 * a) = (x \div a) \div 2
<1>1. PICK q \in Nat, r \in Nat : q = x \div a /\ x = a * q + r /\ r < a
  BY DivisionBounds
<1>2. PICK h \in Nat, b \in {0, 1} : h = q \div 2 /\ q = 2 * h + b
  OBVIOUS
<1>3. a * q = (2 * a) * h + a * b
  BY <1>2
<1>4. PICK g \in Nat, s \in Nat : g = x \div (2 * a) /\ x = (2 * a) * g + s /\ s < 2 * a
  <2>1. 2 * a \in Nat \ {0}
    OBVIOUS
  <2>2. QED
    BY <2>1, DivisionBounds
<1>5. a * b + r < 2 * a /\ a * b + r >= 0
  BY <1>1, <1>2
<1>6. PICK c \in Nat, t \in Nat : c = 2 * a /\ t = a * b + r /\ t < c /\ s < c
                                  /\ c * h + t = c * g + s
  <2>1. PICK c \in Nat, t \in Nat : c = 2 * a /\ t = a * b + r
    BY <1>5
  <2>2. x = c * h + t
    <3>1. PICK u \in Int, v \in Int, w \in Int : u = a * q /\ v = (2 * a) * h /\ w = a * b
      OBVIOUS
    <3>2. u = v + w /\ x = u + r /\ t = w + r
      BY <1>1, <1>3, <2>1, <3>1
    <3>3. x = v + t
      BY <3>2
    <3>4. QED
      BY <2>1, <3>1, <3>3
  <2>3. x = c * g + s
    BY <1>4, <2>1
  <2>4. QED
    BY <1>4, <1>5, <2>1, <2>2, <2>3
<1>7. h = g
  <2>1. CASE h < g
    <3>1. c * g >= c * h + c
      BY <2>1
    <3>2. QED
      BY <1>6, <3>1
  <2>2. CASE g < h
    <3>1. c * h >= c * g + c
      BY <2>2
    <3>2. QED
      BY <1>6, <3>1
  <2>3. QED
    BY <2>1, <2>2
<1>8. QED
  BY <1>2, <1>1, <1>4, <1>7

(* Different coordinates are different points of the field,                *)
LEMMA PointInjective ==
  ASSUME NEW x \in 0..MaxX, NEW y \in 0..MaxX, Point(x) = Point(y)
  PROVE  x = y
<1>1. PICK size \in Nat \ {0} : size = 2^Width /\ MaxX = size - 1
  BY PowerOfTwoDoubles, WidthAssumption DEF MaxX
<1>2. x \in Nat /\ y \in Nat /\ x < size /\ y < size
  BY <1>1
<1> DEFINE P == {j \in 0..Width : x \div 2^(Width - j) = y \div 2^(Width - j)}
<1>3. 0 \in P
  <2>1. x \div size = 0 /\ y \div size = 0
    BY <1>2
  <2>2. Width - 0 = Width /\ 0 \in 0..Width
    BY WidthAssumption
  <2>3. QED
    BY <1>1, <2>1, <2>2
<1>4. ASSUME NEW j \in 0..(Width - 1), j \in P PROVE j + 1 \in P
  <2>1. PICK i \in Nat : i = Width - (j + 1) /\ i + 1 = Width - j /\ i \in Bits
                         /\ j + 1 \in 0..Width
    BY WidthAssumption DEF Bits
  <2>2. PICK a \in Nat \ {0} : a = 2^i /\ 2^(i + 1) = 2 * a
    BY PowerOfTwoDoubles
  <2>3. PICK u \in Nat, v \in Nat : u = x \div a /\ v = y \div a
    BY <1>2, DivisionBounds
  <2>4. u \div 2 = v \div 2
    <3>1. x \div (2 * a) = u \div 2 /\ y \div (2 * a) = v \div 2
      BY <1>2, <2>3, Halving
    <3>2. x \div 2^(i + 1) = y \div 2^(i + 1)
      BY <1>4, <2>1
    <3>3. QED
      BY <2>2, <3>1, <3>2
  <2>5. u % 2 = 1 <=> v % 2 = 1
    <3>1. i \in Point(x) <=> u % 2 = 1
      BY <2>1, <2>2, <2>3 DEF Point
    <3>2. i \in Point(y) <=> v % 2 = 1
      BY <2>1, <2>2, <2>3 DEF Point
    <3>3. QED
      BY <3>1, <3>2
  <2>6. u = v
    BY <2>4, <2>5
  <2>7. QED
    BY <2>1, <2>2, <2>3, <2>6
<1>5. Width \in P
  <2> HIDE DEF P
  <2>1. 0..Width \subseteq P
    BY <1>3, <1>4, BoundedInduction, WidthAssumption
  <2>2. QED
    BY <2>1, WidthAssumption
<1>6. x \div 1 = y \div 1
  <2>1. Width - Width = 0
    BY WidthAssumption
  <2>2. QED
    BY <1>5, <2>1, PowerOfTwoDoubles
<1>7. QED
  BY <1>2, <1>6

(* and no coordinate but zero is the point zero, where the secret is.       *)
LEMMA PointTypes ==
  /\ \A x : Point(x) \in Bytes
  /\ \A x \in 1..MaxX : Point(x) # {}
<1>1. \A x : Point(x) \in Bytes
  BY DEF Point, Bytes
<1>2. Point(0) = {}
  <2> SUFFICES ASSUME NEW i \in Bits, (0 \div 2^i) % 2 = 1 PROVE FALSE
    BY DEF Point
  <2>1. i \in Nat
    BY WidthAssumption DEF Bits
  <2>2. PICK a \in Nat \ {0} : a = 2^i
    BY <2>1, PowerOfTwoDoubles
  <2>3. 0 \div a = 0
    OBVIOUS
  <2>4. QED
    BY <2>2, <2>3
<1>3. ASSUME NEW x \in 1..MaxX PROVE Point(x) # {}
  <2>1. MaxX \in Int
    BY WidthAssumption DEF MaxX
  <2>2. x \in 0..MaxX /\ 0 \in 0..MaxX /\ x # 0
    BY <2>1
  <2>3. QED
    BY <1>2, <2>2, PointInjective
<1>4. QED
  BY <1>1, <1>3

----------------------------------------------------------------------------
(* The inductive invariant: a split comes from a call that Split accepts    *)
(* and from some draw of its coefficients; nothing is pasted before; what is*)
(* pasted can be, and the result is that of the pasted shares.              *)
SplitSound ==
  /\ <<split.secret, split.n, split.k>> \in Calls
  /\ SplitError(split.secret, split.n, split.k) = "none"
  /\ \E draw \in Draws(Len(split.secret), split.k) :
       split.shares = splitRaw(split.secret, draw, split.n, split.k)

SInv ==
  /\ split = None => pasted = <<>> /\ result = None
  /\ split # None => SplitSound /\ pasted \in Seq(Pasteable)
  /\ refused \in {None, "empty secret", "invalid threshold", "too many shares"}
  /\ result = None \/ result = Combine(pasted)

(* It holds before the split,                                              *)
LEMMA InitSInv == Init => SInv
BY DEF Init, SInv

(* and is inductive.                                                       *)
LEMMA NextSInv == SInv /\ [Next]_vars => SInv'
<1> SUFFICES ASSUME SInv, [Next]_vars PROVE SInv'
  OBVIOUS
<1>1. ASSUME UNCHANGED split PROVE SplitSound' = SplitSound /\ Pasteable' = Pasteable
  BY <1>1 DEF SplitSound, Pasteable
<1>2. ASSUME NEW call \in Calls, SplitOk(call[1], call[2], call[3]) PROVE SInv'
  <2>1. PICK draw \in Draws(Len(call[1]), call[3]) :
          split' = [secret |-> call[1], n |-> call[2], k |-> call[3],
                      shares |-> splitRaw(call[1], draw, call[2], call[3])]
    BY <1>2 DEF SplitOk
  <2>2. /\ split'.secret = call[1] /\ split'.n = call[2] /\ split'.k = call[3]
        /\ split'.shares = splitRaw(call[1], draw, call[2], call[3])
    BY <2>1
  <2>3. <<call[1], call[2], call[3]>> = call
    BY CallsAssumption
  <2>4. SplitSound'
    BY <1>2, <2>2, <2>3 DEF SplitSound, SplitOk
  <2>5. pasted' = <<>> /\ result' = None /\ refused' = None
    BY <1>2 DEF SplitOk, SInv
  <2>6. pasted' \in Seq(Pasteable')
    BY <2>5
  <2>7. QED
    BY <2>4, <2>5, <2>6 DEF SInv
<1>3. ASSUME NEW call \in Calls, SplitRefused(call[1], call[2], call[3]) PROVE SInv'
  BY <1>3 DEF SplitRefused, SplitError, SInv
<1>4. ASSUME NEW s \in Pasteable, split # None, Paste(s) PROVE SInv'
  <2>1. pasted' \in Seq(Pasteable)
    <3>1. PICK some : some = Pasteable
      OBVIOUS
    <3>2. pasted \in Seq(some) /\ s \in some /\ pasted' = Append(pasted, s)
      BY <1>4, <3>1 DEF Paste, SInv
    <3>3. pasted' \in Seq(some)
      BY <3>2
    <3>4. QED
      BY <3>1, <3>3
  <2>2. QED
    BY <1>1, <1>4, <2>1 DEF Paste, SInv
<1>5. ASSUME split # None, CallCombine PROVE SInv'
  BY <1>1, <1>5 DEF CallCombine, SInv
<1>6. CASE Retry
  <2>1. pasted' = <<>> /\ result' = None /\ UNCHANGED <<split, refused>>
    BY <1>6 DEF Retry
  <2>2. pasted' \in Seq(Pasteable')
    BY <2>1
  <2>3. QED
    BY <1>1, <2>1, <2>2 DEF SInv
<1>7. CASE UNCHANGED vars
  BY <1>1, <1>7 DEF vars, SInv
<1>8. QED
  BY <1>2, <1>3, <1>4, <1>5, <1>6, <1>7 DEF Next

----------------------------------------------------------------------------
(* What Split returns: n shares that decode, told apart by their            *)
(* coordinates alone.                                                      *)
LEMMA ShareShape ==
  ASSUME SplitSound
  PROVE  /\ split.k \in Nat /\ split.n \in Nat /\ Len(split.secret) \in Nat \ {0}
         /\ 2 <= split.k /\ split.k <= split.n
         /\ \A s \in split.shares :
              /\ s = encodeShare(s.k, s.x, s.body)
              /\ s.k = split.k /\ s.x \in 1..split.n
              /\ DOMAIN s.body = 1..Len(split.secret) /\ Len(s.body) = Len(split.secret)
              /\ decodeError(s) = "none"
         /\ \A s, t \in split.shares : s.x = t.x => s = t
         /\ IsFiniteSet(split.shares) /\ Cardinality(split.shares) = split.n
<1>1. split.secret \in Seq(Bytes) /\ split.n \in Nat /\ split.k \in Nat
  BY CallsAssumption DEF SplitSound
<1>2. PICK secret \in Seq(Bytes), n \in Nat, k \in Nat :
        secret = split.secret /\ n = split.n /\ k = split.k
  BY <1>1
<1> PICK draw \in Draws(Len(secret), k) : split.shares = splitRaw(secret, draw, n, k)
  BY <1>2 DEF SplitSound
<1>3. /\ secret # <<>> /\ ~(k < 2 \/ k > n) /\ ~(n > MaxX)
      /\ MaxX \in Int
  <2>1. SplitError(secret, n, k) = "none"
    BY <1>2 DEF SplitSound
  <2>2. MaxX \in Int
    BY WidthAssumption DEF MaxX
  <2>3. QED
    BY <2>1, <2>2 DEF SplitError
<1>4. Len(secret) \in Nat \ {0}
  BY <1>2, <1>3
<1> DEFINE body(x) == Body(secret, draw, k, x)
<1> DEFINE share(x) == encodeShare(k, x, body(x))
<1>5. split.shares = {share(x) : x \in 1..n}
  BY DEF splitRaw
<1>6. ASSUME NEW x \in 1..n
      PROVE  /\ share(x).k = k /\ share(x).x = x /\ share(x).body = body(x)
             /\ share(x).chk = shareChecksum(k, x, body(x))
             /\ DOMAIN body(x) = 1..Len(secret) /\ Len(body(x)) = Len(secret)
             /\ body(x) # <<>>
  <2>1. DOMAIN body(x) = 1..Len(secret) /\ Len(body(x)) = Len(secret)
    BY <1>4 DEF Body
  <2>2. body(x) # <<>>
    BY <1>4, <2>1
  <2> HIDE DEF body
  <2>3. QED
    BY <2>1, <2>2 DEF encodeShare
<1> HIDE DEF body
<1>7. ASSUME NEW x \in 1..n PROVE decodeError(share(x)) = "none"
  <2>1. ~(k < 2 \/ k > MaxX \/ x < 1 \/ x > MaxX)
    BY <1>3
  <2>2. QED
    BY <1>6, <2>1 DEF decodeError
<1>8. ASSUME NEW s \in split.shares
      PROVE  /\ s = encodeShare(s.k, s.x, s.body)
             /\ s.k = k /\ s.x \in 1..n
             /\ DOMAIN s.body = 1..Len(secret) /\ Len(s.body) = Len(secret)
             /\ decodeError(s) = "none"
             /\ s = share(s.x)
  <2>1. PICK x \in 1..n : s = share(x)
    BY <1>5
  <2>2. s.k = k /\ s.x = x /\ s.body = body(x)
    BY <1>6, <2>1
  <2>3. QED
    BY <1>6, <1>7, <2>1, <2>2
<1>9. IsFiniteSet(split.shares) /\ Cardinality(split.shares) = n
  <2> DEFINE numbered == [x \in 1..n |-> share(x)]
  <2>1. numbered \in Bijection(1..n, split.shares)
    <3>1. numbered \in [1..n -> split.shares]
      BY <1>5
    <3>2. \A x, y \in 1..n : numbered[x] = numbered[y] => x = y
      BY <1>6
    <3>3. \A s \in split.shares : \E x \in 1..n : numbered[x] = s
      BY <1>5
    <3>4. QED
      BY <3>1, <3>2, <3>3 DEF Bijection, Injection, Surjection, IsInjective
  <2>2. IsFiniteSet(1..n) /\ Cardinality(1..n) = n
    <3>1. ~(1 > n) /\ n - 1 + 1 = n
      BY <1>3
    <3>2. QED
      BY <3>1, FS_Interval
  <2>3. ExistsBijection(1..n, split.shares)
    BY <2>1 DEF ExistsBijection
  <2>4. QED
    BY <2>2, <2>3, FS_Bijection
<1>10. QED
  BY <1>2, <1>3, <1>4, <1>8, <1>9

(* A byte that was flipped is another byte.                                *)
LEMMA FlipChanges == \A byte : Xor(byte, One) # byte
<1> SUFFICES ASSUME NEW byte, Xor(byte, One) = byte PROVE FALSE
  OBVIOUS
<1>1. 0 \in byte <=> 0 \notin Xor(byte, One)
  BY DEF Xor, One
<1>2. QED
  BY <1>1

(* The checksum finds every mistyped field.                                *)
LEMMA MistypedFound ==
  ASSUME SplitSound, NEW s \in split.shares, NEW t \in Mistyped(s)
  PROVE  decodeError(t) # "none"
<1>1. /\ s = encodeShare(s.k, s.x, s.body) /\ s.k \in Nat /\ s.x \in Nat
      /\ 1 \in DOMAIN s.body
  BY ShareShape
<1>2. PICK k \in Nat, x \in Nat : s.k = k /\ s.x = x
  BY <1>1
<1> PICK body : s.body = body
  OBVIOUS
<1>3. /\ s = [k |-> k, x |-> x, body |-> body, chk |-> <<k, x, body>>]
      /\ 1 \in DOMAIN body
  BY <1>1, <1>2 DEF encodeShare, shareChecksum
<1>4. t.chk = <<k, x, body>> /\ <<t.k, t.x, t.body>> # <<k, x, body>>
  <2>1. CASE t = [s EXCEPT !.x = s.x + 1]
    <3>1. t.chk = <<k, x, body>> /\ t.x = x + 1
      BY <1>3, <2>1
    <3>2. QED
      BY <3>1
  <2>2. CASE t = [s EXCEPT !.k = s.k + 1]
    <3>1. t.chk = <<k, x, body>> /\ t.k = k + 1
      BY <1>3, <2>2
    <3>2. QED
      BY <3>1
  <2>3. CASE t = [s EXCEPT !.body[1] = Xor(@, One)]
    <3>1. t.chk = <<k, x, body>> /\ t.body = [body EXCEPT ![1] = Xor(body[1], One)]
      BY <1>3, <2>3
    <3>2. t.body[1] # body[1]
      BY <1>3, <3>1, FlipChanges
    <3>3. QED
      BY <3>1, <3>2
  <2>4. QED
    BY <2>1, <2>2, <2>3 DEF Mistyped
<1>5. QED
  BY <1>4 DEF decodeError, shareChecksum

(* Of one split, only its own shares decode.                               *)
LEMMA OnlyGenuineDecode ==
  ASSUME SplitSound, NEW s \in Pasteable, s \notin Strangers, decodeError(s) = "none"
  PROVE  s \in split.shares
<1>1. decodeError(Malformed) # "none"
  BY DEF decodeError, Malformed
<1>2. QED
  BY <1>1, MistypedFound DEF Pasteable

----------------------------------------------------------------------------
(* A quorum has nothing that Combine refuses.                              *)
LEMMA QuorumAccepted ==
  ASSUME SplitSound, pasted \in Seq(Pasteable), Quorate
  PROVE  Combine(pasted).error = "none"
<1>1. /\ split.k \in Nat /\ 2 <= split.k
      /\ \A s \in split.shares : /\ s.k = split.k /\ decodeError(s) = "none"
                                 /\ Len(s.body) = Len(split.secret)
      /\ \A s, t \in split.shares : s.x = t.x => s = t
  BY ShareShape
<1>2. /\ DOMAIN pasted = 1..Len(pasted) /\ Len(pasted) \in Nat /\ Len(pasted) >= split.k
      /\ \A i \in DOMAIN pasted : pasted[i] \in split.shares
      /\ \A i, j \in DOMAIN pasted : pasted[i] = pasted[j] => i = j
  BY DEF Quorate, Genuine, Distinct
<1>3. 1 \in DOMAIN pasted
  BY <1>1, <1>2
<1>4. ASSUME NEW i \in DOMAIN pasted PROVE ShareError(pasted, i) = "none"
  <2>1. ~\E j \in 1..(i - 1) : pasted[j].x = pasted[i].x
    <3> SUFFICES ASSUME NEW j \in 1..(i - 1), pasted[j].x = pasted[i].x PROVE FALSE
      OBVIOUS
    <3>1. j \in DOMAIN pasted /\ j # i
      BY <1>2
    <3>2. QED
      BY <1>1, <1>2, <3>1
  <2>2. QED
    BY <1>1, <1>2, <1>3, <2>1 DEF ShareError
<1>5. ~(Len(pasted) < 2) /\ ~(Len(pasted) < pasted[1].k)
  BY <1>1, <1>2, <1>3
<1>6. DOMAIN pasted \subseteq Nat
  BY <1>2
<1>7. QED
  BY <1>4, <1>5, <1>6, CombineAccepts

(* And of one split it accepts nothing else.                               *)
LEMMA OnlyQuorumsAccepted ==
  ASSUME SplitSound, pasted \in Seq(Pasteable), OfOneSplit, Combine(pasted).error = "none"
  PROVE  Quorate
<1>1. DOMAIN pasted = 1..Len(pasted) /\ Len(pasted) \in Nat
  OBVIOUS
<1>2. /\ ~(Len(pasted) < 2) /\ ~(Len(pasted) < pasted[1].k)
      /\ \A i \in DOMAIN pasted : ShareError(pasted, i) = "none"
  BY <1>1, CombineAccepts
<1>3. ASSUME NEW i \in DOMAIN pasted PROVE pasted[i] \in split.shares
  <2>1. decodeError(pasted[i]) = "none"
    BY <1>2 DEF ShareError
  <2>2. pasted[i] \in Pasteable /\ pasted[i] \notin Strangers
    BY <1>1 DEF OfOneSplit
  <2>3. QED
    BY <2>1, <2>2, OnlyGenuineDecode
<1>4. ASSUME NEW i \in DOMAIN pasted, NEW j \in DOMAIN pasted, j < i
      PROVE  pasted[i] # pasted[j]
  <2>1. j \in 1..(i - 1)
    BY <1>1, <1>4
  <2>2. ~\E h \in 1..(i - 1) : pasted[h].x = pasted[i].x
    BY <1>2 DEF ShareError
  <2>3. QED
    BY <2>1, <2>2
<1>5. ASSUME NEW i \in DOMAIN pasted, NEW j \in DOMAIN pasted, pasted[i] = pasted[j]
      PROVE  i = j
  <2>1. ~(i < j) /\ ~(j < i) /\ i \in Nat /\ j \in Nat
    BY <1>1, <1>4, <1>5
  <2>2. QED
    BY <2>1
<1>6. Len(pasted) >= split.k
  <2>1. 1 \in DOMAIN pasted
    BY <1>1, <1>2
  <2>2. pasted[1].k = split.k /\ split.k \in Nat
    BY <1>3, <2>1, ShareShape
  <2>3. QED
    BY <1>1, <1>2, <2>2
<1>7. QED
  BY <1>3, <1>5, <1>6 DEF Quorate, Genuine, Distinct

----------------------------------------------------------------------------
(* A byte and its draw are the coefficients of a polynomial, the byte last. *)
LEMMA CoefficientsType ==
  ASSUME NEW byte \in Bytes, NEW k \in Nat \ {0}, NEW coeffs \in [1..(k - 1) -> Bytes]
  PROVE  /\ Coefficients(byte, coeffs, k) \in [0..(k - 1) -> Bytes]
         /\ Coefficients(byte, coeffs, k)[0] = byte
         /\ \A j \in 1..(k - 1) : Coefficients(byte, coeffs, k)[j] = coeffs[j]
BY DEF Coefficients

(* The i-th term of combineRaw's sum is that of Lagrange's formula.         *)
LEMMA BasisIsLagrange ==
  ASSUME NEW m \in Nat, NEW shares, DOMAIN shares = 1..m,
         NEW x, x = [i \in 1..m |-> Point(shares[i].x)], NEW i \in 1..m
  PROVE  Basis(shares, i) = Lagrange(x, m, i)
<1>1. \A j \in 1..m : x[j] = Point(shares[j].x)
  OBVIOUS
<1>2. [j \in DOMAIN shares |-> IF j = i THEN One ELSE Point(shares[j].x)] =
        Numerators(x, m, i)
  BY <1>1 DEF Numerators
<1>3. [j \in DOMAIN shares |->
         IF j = i THEN One ELSE Xor(Point(shares[i].x), Point(shares[j].x))] =
        OtherNodes(x, m, i)
  BY <1>1 DEF OtherNodes
<1>4. QED
  BY <1>2, <1>3, Zenon DEF Basis, Lagrange

(* Shares at m different coordinates, at least as many as the polynomials   *)
(* have coefficients, interpolate to the constant terms.                    *)
SharesOf(shares, m, secret, draw, k) ==
  /\ DOMAIN shares = 1..m
  /\ \A i \in 1..m : /\ shares[i].x \in 1..MaxX
                     /\ shares[i].body = Body(secret, draw, k, shares[i].x)
  /\ \A i, j \in 1..m : shares[i].x = shares[j].x => i = j

(* The interpolation of any m >= k shares, in any order, is the secret that *)
(* was split.                                                               *)
LEMMA SharesInterpolate ==
  ASSUME NEW secret \in Seq(Bytes), NEW k \in Nat \ {0}, NEW draw \in Draws(Len(secret), k),
         NEW m \in Nat, m >= k, NEW shares, SharesOf(shares, m, secret, draw, k)
  PROVE  combineRaw(shares) = secret
<1>0. /\ DOMAIN shares = 1..m
      /\ \A i \in 1..m : /\ shares[i].x \in 1..MaxX
                         /\ shares[i].body = Body(secret, draw, k, shares[i].x)
      /\ \A i, j \in 1..m : shares[i].x = shares[j].x => i = j
  BY DEF SharesOf
<1> DEFINE x == [i \in 1..m |-> Point(shares[i].x)]
<1>1. \A i \in 1..m : x[i] = Point(shares[i].x) /\ x[i] \in Bytes /\ x[i] # {}
  BY <1>0, PointTypes
<1>2. Nonzero(x, m)
  BY <1>1 DEF Nonzero
<1>3. Nodes(x, m)
  <2>1. MaxX \in Int
    BY WidthAssumption DEF MaxX
  <2>2. ASSUME NEW i \in 1..m, NEW j \in 1..m, x[i] = x[j] PROVE i = j
    <3>1. shares[i].x \in 0..MaxX /\ shares[j].x \in 0..MaxX
      BY <1>0, <2>1
    <3>2. Point(shares[i].x) = Point(shares[j].x)
      BY <2>2
    <3>3. shares[i].x = shares[j].x
      BY <3>1, <3>2, PointInjective
    <3>4. QED
      BY <1>0, <3>3
  <2>3. x \in [1..m -> Bytes]
    BY <1>1
  <2>4. QED
    BY <2>2, <2>3 DEF Nodes
<1>4. \A i \in 1..m : Basis(shares, i) = Lagrange(x, m, i)
  BY <1>0, BasisIsLagrange
<1> HIDE DEF x
<1>5. ASSUME NEW b \in 1..Len(secret)
      PROVE  gfSum([i \in 1..m |-> gfMul(shares[i].body[b], Basis(shares, i))]) = secret[b]
  <2>1. PICK byte \in Bytes, coeffs \in [1..(k - 1) -> Bytes] :
          byte = secret[b] /\ coeffs = draw[b]
    BY DEF Draws
  <2>2. PICK c \in [0..(k - 1) -> Bytes] : c = Coefficients(byte, coeffs, k) /\ c[0] = byte
    BY CoefficientsType
  <2>3. ASSUME NEW i \in 1..m PROVE shares[i].body[b] = gfEval(c, x[i])
    <3>1. Body(secret, draw, k, shares[i].x)[b] = gfEval(c, Point(shares[i].x))
      BY <2>1, <2>2 DEF Body
    <3>2. QED
      BY <1>0, <1>1, <3>1
  <2> DEFINE u == [i \in 1..m |-> gfMul(shares[i].body[b], Basis(shares, i))]
  <2>4. \A i \in 1..m : u[i] = gfMul(gfEval(c, x[i]), Lagrange(x, m, i))
    BY <1>4, <2>3
  <2>5. \A i \in 1..m : gfEval(c, x[i]) \in Bytes /\ Lagrange(x, m, i) \in Bytes
    BY <1>1, <1>2, <1>3, EvalType, LagrangeTypes
  <2>6. u \in [1..m -> Bytes]
    <3>1. \A i \in 1..m : u[i] \in Bytes
      BY <2>4, <2>5, MulType
    <3>2. QED
      BY <3>1
  <2> HIDE DEF u
  <2>7. gfSum(u) = c[0]
    <3>1. k \in 1..m
      OBVIOUS
    <3>2. LagrangeTerms(u, c, x, m)
      BY <2>4 DEF LagrangeTerms
    <3>3. QED
      BY <1>2, <1>3, <2>6, <3>1, <3>2, Interpolation
  <2>8. QED
    BY <2>1, <2>2, <2>7 DEF u
<1>6. Len(shares[1].body) = Len(secret)
  <2>1. 1 \in 1..m
    OBVIOUS
  <2>2. shares[1].body = Body(secret, draw, k, shares[1].x)
    BY <1>0, <2>1
  <2>3. QED
    BY <2>2 DEF Body
<1>7. combineRaw(shares) =
        [b \in 1..Len(secret) |->
          gfSum([i \in 1..m |-> gfMul(shares[i].body[b], Basis(shares, i))])]
  <2>1. ASSUME NEW b
        PROVE  [i \in DOMAIN shares |->
                  gfMul(shares[i].body[b], [h \in DOMAIN shares |-> Basis(shares, h)][i])] =
               [i \in 1..m |-> gfMul(shares[i].body[b], Basis(shares, i))]
    BY <1>0
  <2>2. QED
    BY <1>6, <2>1, Zenon DEF combineRaw
<1>8. combineRaw(shares) = [b \in 1..Len(secret) |-> secret[b]]
  BY <1>5, <1>7
<1>9. secret = [b \in 1..Len(secret) |-> secret[b]]
  OBVIOUS
<1>10. QED
  BY <1>8, <1>9

(* So a quorum of the split gives the secret back.                         *)
LEMMA QuorumReconstructs ==
  ASSUME SplitSound, pasted \in Seq(Pasteable), Quorate
  PROVE  combineRaw(pasted) = split.secret
<1>1. split.secret \in Seq(Bytes) /\ split.n \in Nat /\ split.k \in Nat
  BY CallsAssumption DEF SplitSound
<1>2. PICK secret \in Seq(Bytes), n \in Nat, k \in Nat :
        secret = split.secret /\ n = split.n /\ k = split.k
  BY <1>1
<1>3. PICK draw \in Draws(Len(secret), k) : split.shares = splitRaw(secret, draw, n, k)
  BY <1>2 DEF SplitSound
<1>4. 2 <= k /\ n <= MaxX /\ MaxX \in Int
  <2>1. SplitError(secret, n, k) = "none"
    BY <1>2 DEF SplitSound
  <2>2. MaxX \in Int
    BY WidthAssumption DEF MaxX
  <2>3. secret # <<>> /\ ~(k < 2 \/ k > n) /\ ~(n > MaxX)
    BY <2>1 DEF SplitError
  <2>4. QED
    BY <2>2, <2>3
<1>5. PICK shares : shares = pasted
  OBVIOUS
<1>6. PICK m \in Nat : m = Len(shares) /\ DOMAIN shares = 1..m /\ m >= k
  BY <1>2, <1>5 DEF Quorate
<1>7. ASSUME NEW i \in 1..m
      PROVE  /\ shares[i].x \in 1..MaxX
             /\ shares[i].body = Body(secret, draw, k, shares[i].x)
             /\ shares[i] \in split.shares
  <2>1. shares[i] \in split.shares
    BY <1>5, <1>6 DEF Quorate, Genuine
  <2>2. PICK x \in 1..n : shares[i] = encodeShare(k, x, Body(secret, draw, k, x))
    BY <1>3, <2>1 DEF splitRaw
  <2>3. PICK body : body = Body(secret, draw, k, x)
    OBVIOUS
  <2>4. shares[i].x = x /\ shares[i].body = body
    BY <2>2, <2>3 DEF encodeShare
  <2>5. x \in 1..MaxX
    BY <1>4
  <2>6. QED
    BY <2>1, <2>3, <2>4, <2>5
<1>8. ASSUME NEW i \in 1..m, NEW j \in 1..m, shares[i].x = shares[j].x PROVE i = j
  <2>1. shares[i] = shares[j]
    BY <1>7, <1>8, ShareShape
  <2>2. QED
    BY <1>5, <1>6, <2>1 DEF Quorate, Distinct
<1>9. combineRaw(shares) = secret
  <2>1. k \in Nat \ {0}
    BY <1>4
  <2>2. SharesOf(shares, m, secret, draw, k)
    BY <1>6, <1>7, <1>8 DEF SharesOf
  <2>3. QED
    BY <1>6, <2>1, <2>2, SharesInterpolate
<1>10. QED
  BY <1>2, <1>5, <1>9

----------------------------------------------------------------------------
(* There are finitely many draws: each is known by the bits of its bytes.   *)
LEMMA DrawsFinite ==
  ASSUME NEW len \in Nat, NEW k \in Nat
  PROVE  IsFiniteSet(Draws(len, k))
<1> DEFINE Places == (1..len) \X (1..(k - 1))
<1> DEFINE bitsOf == [draw \in Draws(len, k) |->
                       {z \in Places \X Bits : z[2] \in draw[z[1][1]][z[1][2]]}]
<1>1. IsFiniteSet(SUBSET (Places \X Bits))
  <2>1. IsFiniteSet(1..len) /\ IsFiniteSet(1..(k - 1))
    BY FS_Interval
  <2>2. IsFiniteSet(Bits)
    BY FS_Interval, WidthAssumption DEF Bits
  <2>3. IsFiniteSet(Places)
    BY <2>1, FS_Product
  <2> HIDE DEF Places
  <2>4. IsFiniteSet(Places \X Bits)
    BY <2>2, <2>3, FS_Product
  <2>5. QED
    BY <2>4, FS_SUBSET
<1>2. bitsOf \in [Draws(len, k) -> SUBSET (Places \X Bits)]
  OBVIOUS
<1>3. ASSUME NEW c \in Draws(len, k), NEW d \in Draws(len, k), bitsOf[c] = bitsOf[d]
      PROVE  c = d
  <2>1. ASSUME NEW b \in 1..len PROVE c[b] = d[b]
    <3>1. PICK p \in [1..(k - 1) -> Bytes], q \in [1..(k - 1) -> Bytes] : p = c[b] /\ q = d[b]
      BY DEF Draws
    <3>2. ASSUME NEW j \in 1..(k - 1) PROVE p[j] = q[j]
      <4>1. p[j] \subseteq Bits /\ q[j] \subseteq Bits
        BY DEF Bytes
      <4>2. ASSUME NEW i \in Bits PROVE i \in p[j] <=> i \in q[j]
        <5>1. PICK z : z = <<<<b, j>>, i>>
          OBVIOUS
        <5>2. z \in Places \X Bits /\ z[2] = i /\ z[1][1] = b /\ z[1][2] = j
          BY <5>1
        <5>3. z \in bitsOf[c] <=> i \in c[b][j]
          BY <5>2
        <5>4. z \in bitsOf[d] <=> i \in d[b][j]
          BY <5>2
        <5>5. QED
          BY <1>3, <3>1, <5>3, <5>4
      <4>3. QED
        BY <4>1, <4>2
    <3>3. p = q
      BY <3>2
    <3>4. QED
      BY <3>1, <3>3
  <2>2. PICK range : c \in [1..len -> range] /\ d \in [1..len -> range]
    BY DEF Draws
  <2>3. QED
    BY <2>1, <2>2
<1> HIDE DEF bitsOf
<1>4. bitsOf \in Injection(Draws(len, k), SUBSET (Places \X Bits))
  BY <1>2, <1>3 DEF Injection, IsInjective
<1>5. QED
  BY <1>1, <1>4, FS_Injection

(* A mask: polynomials that change one secret into another and are zero at  *)
(* the shares that are known.                                              *)
IsMask(mask, one, two, k, known) ==
  /\ mask \in [1..Len(one) -> [0..(k - 1) -> Bytes]]
  /\ \A b \in 1..Len(one) :
       /\ mask[b][0] = Xor(one[b], two[b])
       /\ \A s \in known : gfEval(mask[b], Point(s.x)) = {}

Masked(draw, mask, len, k) ==
  [b \in 1..len |-> [j \in 1..(k - 1) |-> Xor(draw[b][j], mask[b][j])]]

Explains(draw, secret, k, known) ==
  /\ draw \in Draws(Len(secret), k)
  /\ \A s \in known : Body(secret, draw, k, s.x) = s.body

(* Masking a draw twice gives it back.                                     *)
LEMMA MaskedTwice ==
  ASSUME NEW len \in Nat, NEW k \in Nat \ {0}, NEW draw \in Draws(len, k),
         NEW mask \in [1..len -> [0..(k - 1) -> Bytes]]
  PROVE  /\ Masked(draw, mask, len, k) \in Draws(len, k)
         /\ Masked(Masked(draw, mask, len, k), mask, len, k) = draw
<1>1. ASSUME NEW b \in 1..len, NEW j \in 1..(k - 1)
      PROVE  draw[b][j] \in Bytes /\ mask[b][j] \in Bytes
  <2>1. draw[b] \in [1..(k - 1) -> Bytes] /\ mask[b] \in [0..(k - 1) -> Bytes]
    BY DEF Draws
  <2>2. j \in 0..(k - 1)
    OBVIOUS
  <2>3. QED
    BY <2>1, <2>2
<1>2. ASSUME NEW b \in 1..len, NEW j \in 1..(k - 1)
      PROVE  Xor(draw[b][j], mask[b][j]) \in Bytes
  BY <1>1, XorType
<1>3. Masked(draw, mask, len, k) \in Draws(len, k)
  BY <1>2 DEF Masked, Draws
<1>4. PICK d \in Draws(len, k) :
        /\ d = Masked(draw, mask, len, k)
        /\ \A b \in 1..len : \A j \in 1..(k - 1) : d[b][j] = Xor(draw[b][j], mask[b][j])
  BY <1>3 DEF Masked
<1>5. PICK e \in Draws(len, k) :
        /\ e = Masked(d, mask, len, k)
        /\ \A b \in 1..len : \A j \in 1..(k - 1) : e[b][j] = Xor(d[b][j], mask[b][j])
  <2>1. ASSUME NEW b \in 1..len, NEW j \in 1..(k - 1)
        PROVE  Xor(d[b][j], mask[b][j]) \in Bytes
    BY <1>1, <1>2, <1>4, XorType
  <2>2. Masked(d, mask, len, k) \in Draws(len, k)
    BY <2>1 DEF Masked, Draws
  <2>3. QED
    BY <2>2 DEF Masked
<1>6. ASSUME NEW b \in 1..len PROVE e[b] = draw[b]
  <2>1. PICK p \in [1..(k - 1) -> Bytes], q \in [1..(k - 1) -> Bytes] :
          p = e[b] /\ q = draw[b]
    BY DEF Draws
  <2>2. ASSUME NEW j \in 1..(k - 1) PROVE p[j] = q[j]
    <3>1. PICK u, v : u = draw[b][j] /\ v = mask[b][j]
      OBVIOUS
    <3>2. Xor(Xor(u, v), v) = u
      BY DEF Xor
    <3>3. QED
      BY <1>4, <1>5, <2>1, <3>1, <3>2
  <2>3. p = q
    BY <2>2
  <2>4. QED
    BY <2>1, <2>3
<1>7. e = draw
  <2>1. PICK range : e \in [1..len -> range] /\ draw \in [1..len -> range]
    BY DEF Draws
  <2>2. QED
    BY <1>6, <2>1
<1>8. QED
  BY <1>3, <1>4, <1>5, <1>7

(* A mask is added to the values of a polynomial.                          *)
MaskedBy(z, e, y, c, q, k) ==
  /\ y \in Bytes /\ z \in Bytes /\ k \in Nat \ {0}
  /\ c \in [1..(k - 1) -> Bytes] /\ e \in [1..(k - 1) -> Bytes]
  /\ q \in [0..(k - 1) -> Bytes]
  /\ q[0] = Xor(y, z)
  /\ \A j \in 1..(k - 1) : e[j] = Xor(c[j], q[j])

(* Share for share, the masked draw differs by the value of the mask.       *)
LEMMA MaskedValue ==
  ASSUME NEW k, NEW y, NEW z, NEW c, NEW e, NEW q, MaskedBy(z, e, y, c, q, k),
         NEW p \in Bytes
  PROVE  gfEval(Coefficients(z, e, k), p) =
           Xor(gfEval(Coefficients(y, c, k), p), gfEval(q, p))
<1>1. PICK f \in [0..(k - 1) -> Bytes] :
        /\ f = Coefficients(y, c, k) /\ f[0] = y
        /\ \A j \in 1..(k - 1) : f[j] = c[j]
  BY CoefficientsType DEF MaskedBy
<1>2. PICK g \in [0..(k - 1) -> Bytes] :
        /\ g = Coefficients(z, e, k) /\ g[0] = z
        /\ \A j \in 1..(k - 1) : g[j] = e[j]
  BY CoefficientsType DEF MaskedBy
<1>3. ASSUME NEW j \in 0..(k - 1) PROVE g[j] = Xor(f[j], q[j])
  <2>1. CASE j = 0
    <3>1. Xor(y, Xor(y, z)) = z
      BY DEF Xor
    <3>2. QED
      BY <1>1, <1>2, <2>1, <3>1 DEF MaskedBy
  <2>2. CASE j \in 1..(k - 1)
    BY <1>1, <1>2, <2>2 DEF MaskedBy
  <2>3. QED
    BY <2>1, <2>2 DEF MaskedBy
<1>4. AddUp(g, f, q, k) /\ k \in Nat
  BY <1>3 DEF AddUp, MaskedBy
<1>5. gfEval(g, p) = Xor(gfEval(f, p), gfEval(q, p))
  BY <1>4, EvalAdds
<1>6. QED
  BY <1>1, <1>2, <1>5

(* A masked draw explains the same shares, of the other secret.             *)
LEMMA MaskedExplains ==
  ASSUME NEW one \in Seq(Bytes), NEW two \in Seq(Bytes), Len(two) = Len(one),
         NEW k \in Nat \ {0}, NEW known, NEW mask, IsMask(mask, one, two, k, known),
         NEW draw, Explains(draw, one, k, known)
  PROVE  Explains(Masked(draw, mask, Len(one), k), two, k, known)
<1>0. PICK len \in Nat : len = Len(one) /\ len = Len(two)
  OBVIOUS
<1>1. PICK d : d = Masked(draw, mask, len, k) /\ d \in Draws(len, k)
  BY <1>0, MaskedTwice DEF IsMask, Explains
<1>2. draw \in Draws(len, k) /\ mask \in [1..len -> [0..(k - 1) -> Bytes]]
  BY <1>0 DEF IsMask, Explains
<1>3. ASSUME NEW s \in known, NEW b \in 1..len
      PROVE  gfEval(Coefficients(two[b], d[b], k), Point(s.x)) =
               gfEval(Coefficients(one[b], draw[b], k), Point(s.x))
  <2>1. PICK y \in Bytes, z \in Bytes, c \in [1..(k - 1) -> Bytes],
             e \in [1..(k - 1) -> Bytes], q \in [0..(k - 1) -> Bytes] :
          y = one[b] /\ z = two[b] /\ c = draw[b] /\ e = d[b] /\ q = mask[b]
    <3>1. one[b] \in Bytes /\ two[b] \in Bytes
      BY <1>0
    <3>2. draw[b] \in [1..(k - 1) -> Bytes] /\ d[b] \in [1..(k - 1) -> Bytes]
      BY <1>1, <1>2 DEF Draws
    <3>3. mask[b] \in [0..(k - 1) -> Bytes]
      BY <1>2
    <3>4. QED
      BY <3>1, <3>2, <3>3
  <2>2. q[0] = Xor(y, z) /\ gfEval(q, Point(s.x)) = {}
    BY <1>0, <2>1 DEF IsMask
  <2>3. MaskedBy(z, e, y, c, q, k)
    <3>1. \A j \in 1..(k - 1) : e[j] = Xor(c[j], q[j])
      BY <1>1, <2>1 DEF Masked
    <3>2. QED
      BY <2>2, <3>1 DEF MaskedBy
  <2>4. PICK p \in Bytes : p = Point(s.x)
    BY PointTypes
  <2>5. gfEval(q, p) = {}
    BY <2>2, <2>4
  <2>6. gfEval(Coefficients(z, e, k), p) =
          Xor(gfEval(Coefficients(y, c, k), p), gfEval(q, p))
    BY <2>3, MaskedValue
  <2>7. QED
    BY <2>1, <2>4, <2>5, <2>6, XorEmpty
<1>4. ASSUME NEW s \in known PROVE Body(two, d, k, s.x) = s.body
  <2>1. Body(two, d, k, s.x) = Body(one, draw, k, s.x)
    BY <1>0, <1>3 DEF Body
  <2>2. QED
    BY <2>1 DEF Explains
<1>5. QED
  BY <1>0, <1>1, <1>4 DEF Explains

(* Fewer shares than the threshold leave room for a mask between any two    *)
(* secrets of the same length.                                             *)
LEMMA MaskExists ==
  ASSUME NEW one \in Seq(Bytes), NEW two \in Seq(Bytes), Len(two) = Len(one),
         NEW k \in Nat \ {0}, NEW known, IsFiniteSet(known), Cardinality(known) = k - 1,
         \A s \in known : s.x \in 1..MaxX
  PROVE  \E mask : IsMask(mask, one, two, k, known)
<1>1. PICK share \in Bijection(1..(k - 1), known) : TRUE
  BY FS_CardinalityType DEF ExistsBijection
<1>2. /\ share \in [1..(k - 1) -> known]
      /\ \A s \in known : \E i \in 1..(k - 1) : share[i] = s
  BY <1>1 DEF Bijection, Surjection, Injection
<1> DEFINE x == [i \in 1..(k - 1) |-> Point(share[i].x)]
<1>3. \A i \in 1..(k - 1) : x[i] \in Bytes /\ x[i] # {}
  BY <1>2, PointTypes
<1>4. x \in [1..(k - 1) -> Bytes] /\ Nonzero(x, k - 1)
  BY <1>3 DEF Nonzero
<1>5. \A s \in known : \E i \in 1..(k - 1) : x[i] = Point(s.x)
  BY <1>2
<1> HIDE DEF x
<1> DEFINE change(b) == Xor(one[b], two[b])
<1> DEFINE mask == [b \in 1..Len(one) |-> CHOOSE q : Vanishes(q, change(b), x, k, k - 1)]
<1>6. ASSUME NEW b \in 1..Len(one) PROVE Vanishes(mask[b], change(b), x, k, k - 1)
  <2>1. one[b] \in Bytes /\ two[b] \in Bytes
    OBVIOUS
  <2>2. PICK y \in Bytes : y = change(b)
    BY <2>1, XorType
  <2>3. \E q : Vanishes(q, y, x, k, k - 1)
    BY <1>4, VanishingPolynomial
  <2>4. mask[b] = CHOOSE q : Vanishes(q, y, x, k, k - 1)
    BY <2>2
  <2>5. QED
    BY <2>2, <2>3, <2>4, Zenon
<1> HIDE DEF mask
<1>7. ASSUME NEW b \in 1..Len(one)
      PROVE  /\ mask[b] \in [0..(k - 1) -> Bytes]
             /\ mask[b][0] = change(b)
             /\ \A i \in 1..(k - 1) : gfEval(mask[b], x[i]) = {}
  BY <1>6 DEF Vanishes
<1>8. mask \in [1..Len(one) -> [0..(k - 1) -> Bytes]]
  BY <1>7 DEF mask
<1>9. IsMask(mask, one, two, k, known)
  <2>1. ASSUME NEW b \in 1..Len(one), NEW s \in known PROVE gfEval(mask[b], Point(s.x)) = {}
    BY <1>5, <1>7
  <2>2. QED
    BY <1>7, <1>8, <2>1 DEF IsMask
<1>10. QED
  BY <1>9

(* Shares of a split, one fewer than the threshold; the draws that explain  *)
(* them, for a secret.                                                     *)
OneShort(known, k) ==
  /\ IsFiniteSet(known) /\ Cardinality(known) = k - 1
  /\ \A s \in known : s.x \in 1..MaxX

HowMany(secret, k, known) ==
  Cardinality({draw \in Draws(Len(secret), k) : Explains(draw, secret, k, known)})

(* So masking matches the draws that explain the known shares of one secret *)
(* with those of the other, one to one.                                    *)
LEMMA AsManyExplanations ==
  ASSUME NEW one \in Seq(Bytes), NEW two \in Seq(Bytes), Len(two) = Len(one),
         NEW k \in Nat \ {0}, NEW known, OneShort(known, k)
  PROVE  HowMany(two, k, known) = HowMany(one, k, known)
<1>1. /\ IsFiniteSet(known) /\ Cardinality(known) = k - 1
      /\ \A s \in known : s.x \in 1..MaxX
  BY DEF OneShort
<1>2. PICK len \in Nat : len = Len(one) /\ len = Len(two)
  OBVIOUS
<1>3. PICK mask : IsMask(mask, one, two, k, known)
  BY <1>1, MaskExists
<1>4. IsMask(mask, two, one, k, known)
  <2>1. \A b : Xor(one[b], two[b]) = Xor(two[b], one[b])
    BY XorCommutes
  <2>2. QED
    BY <1>3, <2>1 DEF IsMask
<1>5. mask \in [1..len -> [0..(k - 1) -> Bytes]]
  BY <1>2, <1>3 DEF IsMask
<1> DEFINE S == {draw \in Draws(len, k) : Explains(draw, one, k, known)}
<1> DEFINE T == {draw \in Draws(len, k) : Explains(draw, two, k, known)}
<1> DEFINE f == [draw \in S |-> Masked(draw, mask, len, k)]
<1>6. ASSUME NEW draw \in S
      PROVE  /\ Masked(draw, mask, len, k) \in T
             /\ Masked(Masked(draw, mask, len, k), mask, len, k) = draw
  <2>1. Explains(Masked(draw, mask, len, k), two, k, known)
    BY <1>2, <1>3, MaskedExplains
  <2>2. QED
    BY <1>5, <2>1, MaskedTwice
<1>7. ASSUME NEW draw \in T
      PROVE  /\ Masked(draw, mask, len, k) \in S
             /\ Masked(Masked(draw, mask, len, k), mask, len, k) = draw
  <2>1. Explains(Masked(draw, mask, len, k), one, k, known)
    BY <1>2, <1>4, MaskedExplains
  <2>2. QED
    BY <1>5, <2>1, MaskedTwice
<1>8. IsFiniteSet(S)
  <2>1. IsFiniteSet(Draws(len, k))
    BY DrawsFinite
  <2>2. S \in SUBSET Draws(len, k)
    OBVIOUS
  <2> HIDE DEF S
  <2>3. QED
    BY <2>1, <2>2, FS_Subset
<1> HIDE DEF S, T
<1>9. f \in Bijection(S, T)
  <2>1. f \in [S -> T] /\ \A draw \in S : f[draw] = Masked(draw, mask, len, k)
    BY <1>6
  <2> HIDE DEF f
  <2>2. \A c, d \in S : f[c] = f[d] => c = d
    <3> SUFFICES ASSUME NEW c \in S, NEW d \in S, f[c] = f[d] PROVE c = d
      OBVIOUS
    <3>1. Masked(f[c], mask, len, k) = c /\ Masked(f[d], mask, len, k) = d
      BY <1>6, <2>1
    <3>2. QED
      BY <3>1
  <2>3. \A d \in T : \E c \in S : f[c] = d
    BY <1>7, <2>1
  <2>4. QED
    BY <2>1, <2>2, <2>3 DEF Bijection, Injection, Surjection, IsInjective
<1>10. Cardinality(T) = Cardinality(S)
  <2>1. ExistsBijection(S, T)
    BY <1>9 DEF ExistsBijection
  <2>2. QED
    BY <1>8, <2>1, FS_Bijection
<1>11. QED
  BY <1>2, <1>10 DEF S, T, HowMany

----------------------------------------------------------------------------
(* The inductive invariant holds of every split and combination.           *)
THEOREM ShamirInvariance == Spec => []SInv
BY InitSInv, NextSInv, PTL DEF Spec

(* Split returns as many different shares as it was asked for, each of      *)
(* which decodes; a Combine that fails gives no secret.                     *)
THEOREM ShamirTypeCorrect == Spec => []TypeOK
<1>1. SInv => TypeOK
  <2> SUFFICES ASSUME SInv PROVE TypeOK
    OBVIOUS
  <2>1. DOMAIN pasted \subseteq Nat
    <3>1. PICK some : some = Pasteable
      OBVIOUS
    <3>2. <<>> \in Seq(some)
      OBVIOUS
    <3>3. pasted \in Seq(some)
      BY <3>1, <3>2 DEF SInv
    <3>4. DOMAIN pasted = 1..Len(pasted) /\ Len(pasted) \in Nat
      BY <3>3
    <3>5. QED
      BY <3>4
  <2>2. result = None \/ (result.error # "none" => result.secret = <<>>)
    BY <2>1, CombineAccepts DEF SInv
  <2>3. split = None \/ /\ <<split.secret, split.n, split.k>> \in Calls
                        /\ \A s \in split.shares : decodeError(s) = "none"
                        /\ Cardinality(split.shares) = split.n
    BY ShareShape DEF SInv, SplitSound
  <2>4. QED
    BY <2>2, <2>3 DEF SInv, TypeOK
<1>2. QED
  BY <1>1, ShamirInvariance, PTL

(* Combine accepts exactly the quorums: k or more different shares of the   *)
(* split, in any order, and of what can be pasted from one split nothing    *)
(* else.                                                                   *)
THEOREM CombineIsExact == Spec => []AcceptsQuorums
<1>1. SInv => AcceptsQuorums
  <2> SUFFICES ASSUME SInv, split # None, result # None
      PROVE  /\ Quorate => result.error = "none"
             /\ result.error = "none" /\ OfOneSplit => Quorate
    BY DEF AcceptsQuorums
  <2>1. SplitSound /\ pasted \in Seq(Pasteable) /\ result = Combine(pasted)
    BY DEF SInv
  <2>2. QED
    BY <2>1, QuorumAccepted, OnlyQuorumsAccepted
<1>2. QED
  BY <1>1, ShamirInvariance, PTL

(* Whatever Combine accepts of one split is the secret, in every field      *)
(* whose gfInv is an inverse: any k of the shares interpolate to it.        *)
THEOREM SecretComesBack == Spec => []Reconstructs
<1>1. SInv => Reconstructs
  <2> SUFFICES ASSUME SInv, split # None, result # None, result.error = "none", OfOneSplit
      PROVE  result.secret = split.secret
    BY DEF Reconstructs
  <2>1. SplitSound /\ pasted \in Seq(Pasteable) /\ result = Combine(pasted)
    BY DEF SInv
  <2>2. Quorate
    BY <2>1, OnlyQuorumsAccepted
  <2>3. combineRaw(pasted) = split.secret
    BY <2>1, <2>2, QuorumReconstructs
  <2>4. Combine(pasted).secret = combineRaw(pasted)
    <3>1. DOMAIN pasted \subseteq Nat
      <4>1. PICK some : some = Pasteable
        OBVIOUS
      <4>2. pasted \in Seq(some)
        BY <2>1, <4>1
      <4>3. QED
        BY <4>2
    <3>2. Combine(pasted).error = "none"
      BY <2>1
    <3>3. QED
      BY <3>1, <3>2, CombineAccepts
  <2>5. QED
    BY <2>1, <2>3, <2>4
<1>2. QED
  BY <1>1, ShamirInvariance, PTL

(* Fewer shares than the threshold reveal nothing: whichever k - 1 of them  *)
(* are known, as many draws of splitRaw explain them for any other secret   *)
(* of the same length as for the one that was split.                        *)
THEOREM FewerRevealNothing == Spec => []Secrecy
<1>1. SInv => Secrecy
  <2> SUFFICES ASSUME SInv, split # None, NEW known \in kSubset(split.k - 1, split.shares),
                      NEW call \in Calls, Len(call[1]) = Len(split.secret)
      PROVE  Cardinality(Explanations(call[1], known)) =
               Cardinality(Explanations(split.secret, known))
    BY DEF Secrecy
  <2>1. SplitSound
    BY DEF SInv
  <2>2. split.secret \in Seq(Bytes) /\ split.k \in Nat /\ split.n \in Nat /\ call[1] \in Seq(Bytes)
    BY <2>1, CallsAssumption DEF SplitSound
  <2>3. PICK one \in Seq(Bytes), two \in Seq(Bytes), k \in Nat \ {0} :
          one = split.secret /\ two = call[1] /\ k = split.k /\ Len(two) = Len(one)
    <3>1. split.k # 0
      BY <2>1, ShareShape
    <3>2. QED
      BY <2>2, <3>1
  <2>4. PICK some : some = known /\ some \in SUBSET split.shares /\ Cardinality(some) = k - 1
    BY <2>3 DEF kSubset
  <2>5. IsFiniteSet(some)
    <3>1. IsFiniteSet(split.shares)
      BY <2>1, ShareShape
    <3>2. QED
      BY <2>4, <3>1, FS_Subset
  <2>6. \A s \in some : s.x \in 1..MaxX
    <3>1. split.n <= MaxX
      <4>1. SplitError(split.secret, split.n, split.k) = "none"
        BY <2>1 DEF SplitSound
      <4>2. ~(split.n > MaxX) /\ MaxX \in Int
        BY <4>1, WidthAssumption DEF SplitError, MaxX
      <4>3. QED
        BY <2>2, <4>2
    <3>2. \A s \in split.shares : s.x \in 1..split.n
      BY <2>1, ShareShape
    <3>3. MaxX \in Int
      BY WidthAssumption DEF MaxX
    <3>4. QED
      BY <2>2, <2>4, <3>1, <3>2, <3>3
  <2>7. HowMany(two, k, some) = HowMany(one, k, some)
    <3>1. OneShort(some, k)
      BY <2>4, <2>5, <2>6 DEF OneShort
    <3>2. QED
      BY <2>3, <3>1, AsManyExplanations
  <2>8. \A secret : Cardinality(Explanations(secret, known)) = HowMany(secret, k, some)
    <3>1. \A secret : Explanations(secret, known) =
            {draw \in Draws(Len(secret), k) : Explains(draw, secret, k, some)}
      BY <2>3, <2>4 DEF Explanations, Explains
    <3>2. QED
      BY <3>1 DEF HowMany
  <2>9. QED
    BY <2>3, <2>7, <2>8
<1>2. QED
  BY <1>1, ShamirInvariance, PTL
=============================================================================
