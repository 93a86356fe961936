------------------------------- MODULE Shamir -------------------------------
(***************************************************************************)
(* Splitting the wrap token into shares and combining them again             *)
(* (internal/shamir).  One holder splits a secret; shares are then pasted,   *)
(* in any order and number, possibly mistyped or of another split, and       *)
(* handed to Combine.                                                       *)
(*                                                                         *)
(* An encoded share is the record of its fields.  The checksum, a truncated  *)
(* SHA-256 of the other fields, is modelled as those fields: two shares have *)
(* the same checksum only if they are the same.                             *)
(***************************************************************************)
EXTENDS GaloisField, Sequences, FiniteSetsExt

CONSTANTS
  Calls,      \* the calls of Split: triples <<secret, n, k>>, a secret a sequence of bytes
  Strangers,  \* well-formed shares of other splits
  MaxPasted,  \* bound of the model: shares handed to Combine at once
  None

ASSUME CallsAssumption == Calls \subseteq Seq(Bytes) \X Nat \X Nat
ASSUME PastedAssumption == MaxPasted \in Nat

VARIABLES
  split,   \* the accepted call of Split: arguments and shares; None before
  refused, \* the error of a refused call of Split, or None
  pasted,  \* the arguments of the next call of Combine
  result   \* what Combine returned, or None

vars == <<split, refused, pasted, result>>

MaxX == 2^Width - 1   \* 255: the number of nonzero evaluation points
Point(x) == {i \in Bits : (x \div 2^i) % 2 = 1}   \* byte(x)

(* Fault: the checksum leaves the coordinate out.                          *)
shareChecksumOfBody(k, x, body) == <<k, body>>

shareChecksum(k, x, body) == <<k, x, body>>
Malformed == [k |-> 0, x |-> 0, body |-> <<>>, chk |-> <<>>]
encodeShare(k, x, body) ==
  [k |-> k, x |-> x, body |-> body, chk |-> shareChecksum(k, x, body)]

----------------------------------------------------------------------------
(* Split.                                                                  *)

(* Faults: one draw of coefficients serves every byte; the leading          *)
(* coefficient is never zero.                                              *)
DrawsReused(len, k) ==
  {[i \in 1..len |-> c] : c \in [1..(k - 1) -> Bytes]}
DrawsOfFullDegree(len, k) ==
  [1..len -> {c \in [1..(k - 1) -> Bytes] : c[k - 1] # {}}]

(* The random coefficients splitRaw can draw for a secret of len bytes:     *)
(* each byte has a polynomial of its own.                                  *)
Draws(len, k) == [1..len -> [1..(k - 1) -> Bytes]]

Coefficients(byte, draw, k) == [i \in 0..(k - 1) |-> IF i = 0 THEN byte ELSE draw[i]]

(* splitRaw, the body of the share at coordinate x.                        *)
Body(secret, draw, k, x) ==
  [i \in 1..Len(secret) |-> gfEval(Coefficients(secret[i], draw[i], k), Point(x))]

(* Fault: coordinates start at zero.                                       *)
splitRawFromZero(secret, draw, n, k) ==
  {encodeShare(k, x, Body(secret, draw, k, x)) : x \in 0..(n - 1)}

splitRaw(secret, draw, n, k) ==
  {encodeShare(k, x, Body(secret, draw, k, x)) : x \in 1..n}

SplitError(secret, n, k) ==
  IF secret = <<>> THEN "empty secret"
  ELSE IF k < 2 \/ k > n THEN "invalid threshold"
  ELSE IF n > MaxX THEN "too many shares"
  ELSE "none"

----------------------------------------------------------------------------
(* Combine.                                                                *)

(* combineRaw: Lagrange interpolation at zero, byte by byte.               *)
Basis(shares, i) ==
  LET X(j) == Point(shares[j].x)
      num == gfProduct([j \in DOMAIN shares |-> IF j = i THEN One ELSE X(j)])
      den == gfProduct([j \in DOMAIN shares |-> IF j = i THEN One ELSE Xor(X(i), X(j))])
  IN gfMul(num, gfInv(den))

combineRaw(shares) ==
  LET basis == [i \in DOMAIN shares |-> Basis(shares, i)]
  IN [bi \in 1..Len(shares[1].body) |->
       gfSum([i \in DOMAIN shares |-> gfMul(shares[i].body[bi], basis[i])])]

decodeError(s) ==
  IF s.k < 2 \/ s.k > MaxX \/ s.x < 1 \/ s.x > MaxX \/ s.body = <<>> THEN "malformed"
  ELSE IF s.chk # shareChecksum(s.k, s.x, s.body) THEN "checksum"
  ELSE "none"

(* Fault: a coordinate that was seen before is not refused.                *)
ShareErrorNoDuplicates(shares, i) ==
  IF decodeError(shares[i]) # "none" THEN decodeError(shares[i])
  ELSE IF shares[i].k # shares[1].k THEN "threshold mismatch"
  ELSE IF Len(shares[i].body) # Len(shares[1].body) THEN "share length"
  ELSE "none"

(* What the loop of Combine finds wrong with the i-th share, the earlier    *)
(* ones being good.                                                        *)
ShareError(shares, i) ==
  IF decodeError(shares[i]) # "none" THEN decodeError(shares[i])
  ELSE IF shares[i].k # shares[1].k THEN "threshold mismatch"
  ELSE IF Len(shares[i].body) # Len(shares[1].body) THEN "share length"
  ELSE IF \E j \in 1..(i - 1) : shares[j].x = shares[i].x THEN "duplicate"
  ELSE "none"

Failed(error) == [error |-> error, secret |-> <<>>]

Combine(shares) ==
  LET bad == {i \in DOMAIN shares : ShareError(shares, i) # "none"}
  IN IF Len(shares) < 2 THEN Failed("too few")
     ELSE IF bad # {} THEN Failed(ShareError(shares, Min(bad)))
     ELSE IF Len(shares) < shares[1].k THEN Failed("too few")
     ELSE [error |-> "none", secret |-> combineRaw(shares)]

----------------------------------------------------------------------------
Init == split = None /\ refused = None /\ pasted = <<>> /\ result = None

SplitOk(secret, n, k) ==
  /\ split = None
  /\ SplitError(secret, n, k) = "none"
  /\ \E draw \in Draws(Len(secret), k) :
       split' = [secret |-> secret, n |-> n, k |-> k,
                 shares |-> splitRaw(secret, draw, n, k)]
  /\ refused' = None
  /\ UNCHANGED <<pasted, result>>

SplitRefused(secret, n, k) ==
  /\ split = None
  /\ SplitError(secret, n, k) # "none"
  /\ refused' = SplitError(secret, n, k)
  /\ UNCHANGED <<split, pasted, result>>

(* A share is typed with one field wrong; its checksum is what it was.      *)
Mistyped(s) == {[s EXCEPT !.x = s.x + 1], [s EXCEPT !.k = s.k + 1],
                [s EXCEPT !.body[1] = Xor(@, One)]}

Pasteable ==
  split.shares \cup (UNION {Mistyped(s) : s \in split.shares}) \cup Strangers \cup {Malformed}

Paste(s) ==
  /\ result = None
  /\ Len(pasted) < MaxPasted
  /\ pasted' = Append(pasted, s)
  /\ UNCHANGED <<split, refused, result>>

CallCombine ==
  /\ result = None
  /\ result' = Combine(pasted)
  /\ UNCHANGED <<split, refused, pasted>>

Retry ==
  /\ result # None
  /\ result' = None
  /\ pasted' = <<>>
  /\ UNCHANGED <<split, refused>>

Next ==
  \/ \E call \in Calls :
       SplitOk(call[1], call[2], call[3]) \/ SplitRefused(call[1], call[2], call[3])
  \/ split # None /\ (CallCombine \/ \E s \in Pasteable : Paste(s))
  \/ Retry

Spec == Init /\ [][Next]_vars

----------------------------------------------------------------------------
(* Properties.                                                             *)

TypeOK ==
  /\ split = None \/ /\ <<split.secret, split.n, split.k>> \in Calls
                     /\ \A s \in split.shares : decodeError(s) = "none"
                     /\ Cardinality(split.shares) = split.n
  /\ refused \in {None, "empty secret", "invalid threshold", "too many shares"}
  /\ result = None \/ (result.error # "none" => result.secret = <<>>)

Genuine == \A i \in DOMAIN pasted : pasted[i] \in split.shares
Distinct == \A i, j \in DOMAIN pasted : pasted[i] = pasted[j] => i = j
OfOneSplit == \A i \in DOMAIN pasted : pasted[i] \notin Strangers
Quorate == Genuine /\ Distinct /\ Len(pasted) >= split.k

(* Combine accepts exactly what it should: any k or more different shares   *)
(* of a split, in any order; and of what is pasted from one split nothing   *)
(* else, however its shares are selected, repeated or mistyped.             *)
AcceptsQuorums ==
  split # None /\ result # None =>
    /\ Quorate => result.error = "none"
    /\ result.error = "none" /\ OfOneSplit => Quorate

(* Whatever Combine accepts of one split is the secret.                    *)
Reconstructs ==
  split # None /\ result # None /\ result.error = "none" /\ OfOneSplit =>
    result.secret = split.secret

(* "Any k reconstruct it and any k-1 reveal nothing" (shamir.go): the draws *)
(* that explain k - 1 of the shares are as many for any other secret of the *)
(* same length as for the one that was split.                              *)
Explanations(secret, known) ==
  {draw \in Draws(Len(secret), split.k) :
     \A s \in known : Body(secret, draw, split.k, s.x) = s.body}

Secrecy ==
  split # None /\ pasted = <<>> /\ result = None =>
    \A known \in kSubset(split.k - 1, split.shares), other \in {call[1] : call \in Calls} :
      Len(other) = Len(split.secret) =>
        Cardinality(Explanations(other, known)) =
          Cardinality(Explanations(split.secret, known))
=============================================================================
