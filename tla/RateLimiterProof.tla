-------------------------- MODULE RateLimiterProof --------------------------
(***************************************************************************)
(* Proofs about RateLimiter, for any keys, burst, price and period of the   *)
(* sweep, and any length of time.                                           *)
(***************************************************************************)
EXTENDS RateLimiter, TLAPS

IInv == TypeOK /\ WellFilled

(* A key that has no bucket is None, and no bucket is.                      *)
LEMMA AfterGCType ==
  ASSUME TypeOK, NEW k \in Keys
  PROVE  \/ AfterGC(k) = None
         \/ AfterGC(k) = buckets[k] /\ buckets[k] \in Bucket
BY DEF TypeOK, AfterGC

(* What refillLocked returns is a bucket of now, filled to the level that   *)
(* its key has earned: a bucket that was swept would have been full.        *)
LEMMA RefillLevel ==
  ASSUME IInv, NEW k \in Keys
  PROVE  /\ Refill(k) = [tokens |-> Level(k), last |-> now]
         /\ Level(k) \in Int
         /\ Level(k) <= Burst
<1>1. CASE buckets[k] = None
  BY <1>1, BurstAssumption DEF Refill, AfterGC, Level
<1>2. CASE buckets[k] # None
  <2>1. buckets[k] \in Bucket /\ now \in Nat
    BY <1>2 DEF IInv, TypeOK
  <2>2. buckets[k].tokens \in Int /\ buckets[k].last \in Nat
    BY <2>1 DEF Bucket
  <2>3. Level(k) = Min2(Burst, buckets[k].tokens + (now - buckets[k].last))
    BY <1>2 DEF Level
  <2>4. CASE GCDue /\ Refilled(buckets[k])
    <3>1. Refill(k) = [tokens |-> Burst, last |-> now]
      BY <1>2, <2>4 DEF Refill, AfterGC
    <3>2. Level(k) = Burst
      BY <2>1, <2>2, <2>3, <2>4, BurstAssumption DEF Refilled, Min2
    <3>3. QED
      BY <3>1, <3>2, BurstAssumption
  <2>5. CASE ~(GCDue /\ Refilled(buckets[k]))
    <3>1. AfterGC(k) = buckets[k]
      BY <2>5 DEF AfterGC
    <3>2. Refill(k) = [tokens |-> Level(k), last |-> now]
      BY <1>2, <2>3, <3>1 DEF Refill
    <3>3. QED
      BY <2>1, <2>2, <2>3, <3>2, BurstAssumption DEF Min2
  <2>6. QED
    BY <2>4, <2>5
<1>3. QED
  BY <1>1, <1>2

(* The bucket that a call leaves behind for its own key.                    *)
LEMMA TouchedBucket ==
  ASSUME IInv, NEW k \in Keys, NEW cost \in Nat, Touch(k, cost)
  PROVE  buckets'[k] = [tokens |-> Level(k) - cost, last |-> now]
<1>1. buckets'[k] = [Refill(k) EXCEPT !.tokens = @ - cost]
  BY DEF Touch
<1>2. QED
  BY <1>1, RefillLevel

(* The buckets it leaves for the others.                                   *)
LEMMA OtherBuckets ==
  ASSUME NEW k \in Keys, NEW cost \in Nat, Touch(k, cost), NEW j \in Keys, j # k
  PROVE  buckets'[j] = AfterGC(j)
BY DEF Touch

(* A call keeps the state well formed and the buckets well filled.          *)
LEMMA TouchIInv ==
  ASSUME IInv, NEW k \in Keys, NEW cost \in Nat, Touch(k, cost),
         verdict' \in Verdict \cup {None}
  PROVE  IInv'
<1>1. now' = now /\ now \in Nat /\ lastGC \in Int /\ lastGC <= now
  BY DEF Touch, IInv, TypeOK, WellFilled
<1>2. lastGC' \in Int /\ lastGC' <= now'
  BY <1>1 DEF Touch
<1>3. buckets'[k] \in Bucket /\ buckets'[k].last <= now /\ buckets'[k].tokens <= Burst
  <2>1. Level(k) - cost \in Int /\ Level(k) - cost <= Burst
    BY RefillLevel, BurstAssumption
  <2>2. buckets'[k] = [tokens |-> Level(k) - cost, last |-> now]
    BY TouchedBucket
  <2>3. QED
    BY <1>1, <2>1, <2>2 DEF Bucket
<1>4. ASSUME NEW j \in Keys, j # k
      PROVE  /\ buckets'[j] \in Bucket \cup {None}
             /\ buckets'[j] # None =>
                  buckets'[j].last <= now /\ buckets'[j].tokens <= Burst
  BY <1>4, OtherBuckets, AfterGCType DEF IInv, WellFilled
<1>5. buckets' \in [Keys -> Bucket \cup {None}]
  <2>1. buckets' = [j \in Keys |-> buckets'[j]]
    BY DEF Touch
  <2>2. QED
    BY <1>3, <1>4, <2>1
<1>6. TypeOK'
  BY <1>1, <1>2, <1>5 DEF TypeOK
<1>7. WellFilled'
  BY <1>1, <1>2, <1>3, <1>4 DEF WellFilled
<1>8. QED
  BY <1>6, <1>7 DEF IInv

(* Each method is a call that gives a well-formed verdict.                  *)
LEMMA CallTouches ==
  ASSUME IInv, NEW k \in Keys, Allow(k) \/ Take(k) \/ PeekOK(k)
  PROVE  \E cost \in Nat : Touch(k, cost) /\ verdict' \in Verdict \cup {None}
<1>1. Cost \in Nat /\ 0 \in Nat
  BY BurstAssumption
<1>2. CASE Allow(k)
  <2>1. CASE Touch(k, Cost) /\ verdict' = [key |-> k, ok |-> TRUE]
    BY <1>1, <2>1 DEF Verdict
  <2>2. CASE Touch(k, 0) /\ verdict' = [key |-> k, ok |-> FALSE]
    BY <1>1, <2>2 DEF Verdict
  <2>3. QED
    BY <1>2, <2>1, <2>2 DEF Allow
<1>3. CASE Take(k)
  <2>1. Touch(k, Cost) /\ verdict' = None
    BY <1>3 DEF Take
  <2>2. QED
    BY <1>1, <2>1
<1>4. CASE PeekOK(k)
  <2>1. (Refill(k).tokens >= 0) \in BOOLEAN
    BY RefillLevel
  <2>2. QED
    BY <1>1, <1>4, <2>1 DEF PeekOK, Verdict
<1>5. QED
  BY <1>2, <1>3, <1>4

(* The invariant is inductive.                                             *)
LEMMA NextIInv == IInv /\ [Next]_vars => IInv'
<1> SUFFICES ASSUME IInv, [Next]_vars PROVE IInv'
  OBVIOUS
<1>1. ASSUME NEW k \in Keys, Allow(k) \/ Take(k) \/ PeekOK(k) PROVE IInv'
  BY <1>1, CallTouches, TouchIInv
<1>2. CASE Tick
  <2>1. now' = now + 1 /\ now \in Nat /\ lastGC \in Int /\ lastGC <= now
    BY <1>2 DEF Tick, IInv, TypeOK, WellFilled
  <2>2. ASSUME NEW k \in Keys, buckets[k] # None
        PROVE  buckets[k].last <= now' /\ buckets[k].tokens <= Burst
    <3>1. buckets[k].last \in Nat /\ buckets[k].last <= now /\ buckets[k].tokens <= Burst
      BY <2>2 DEF IInv, TypeOK, WellFilled, Bucket
    <3>2. QED
      BY <2>1, <3>1
  <2>3. TypeOK'
    BY <1>2, <2>1 DEF Tick, IInv, TypeOK
  <2>4. WellFilled'
    BY <1>2, <2>1, <2>2 DEF Tick, WellFilled
  <2>5. QED
    BY <2>3, <2>4 DEF IInv
<1>3. CASE UNCHANGED vars
  BY <1>3 DEF vars, IInv, TypeOK, WellFilled
<1>4. QED
  BY <1>1, <1>2, <1>3 DEF Next

(* The limiter without buckets satisfies it.                               *)
LEMMA InitIInv == Init => IInv
BY BoundAssumption DEF Init, IInv, TypeOK, WellFilled

(* The inductive invariant holds of every behaviour of the limiter.         *)
THEOREM Invariance == Spec => []IInv
BY InitIInv, NextIInv, PTL DEF Spec

(* The state is always well formed.                                        *)
THEOREM TypeCorrect == Spec => []TypeOK
<1>1. IInv => TypeOK
  BY DEF IInv
<1>2. QED
  BY <1>1, Invariance, PTL

(* No bucket is ever ahead of the clock or above the burst.                 *)
THEOREM NeverOverfilled == Spec => []WellFilled
<1>1. IInv => WellFilled
  BY DEF IInv
<1>2. QED
  BY <1>1, Invariance, PTL

-----------------------------------------------------------------------------
(* The refinement.                                                         *)

(* A call takes its cost from the level of its key and changes no other:    *)
(* sweeping and refilling are invisible.                                   *)
LEMMA TouchLevel ==
  ASSUME IInv, IInv', NEW k \in Keys, NEW cost \in Nat, Touch(k, cost)
  PROVE  [j \in Keys |-> Level(j)]' =
           [[j \in Keys |-> Level(j)] EXCEPT ![k] = Level(k) - cost]
<1>1. now' = now /\ now \in Nat
  BY DEF Touch, IInv, TypeOK
<1>2. Level(k)' = Level(k) - cost
  <2>1. buckets'[k] = [tokens |-> Level(k) - cost, last |-> now]
    BY TouchedBucket
  <2>2. buckets'[k] # None
    BY <1>1, <2>1, RefillLevel, NoneAssumption DEF Bucket
  <2>3. Level(k)' = Min2(Burst, (Level(k) - cost) + (now - now))
    BY <1>1, <2>1, <2>2 DEF Level
  <2>4. QED
    BY <1>1, <2>3, RefillLevel, BurstAssumption DEF Min2
<1>3. ASSUME NEW j \in Keys, j # k PROVE Level(j)' = Level(j)
  <2>1. buckets'[j] = AfterGC(j)
    BY <1>3, OtherBuckets
  <2>2. CASE AfterGC(j) = buckets[j]
    BY <1>1, <2>1, <2>2 DEF Level
  <2>3. CASE AfterGC(j) # buckets[j]
    <3>1. buckets[j] # None /\ Refilled(buckets[j]) /\ AfterGC(j) = None
      BY <2>3 DEF AfterGC
    <3>2. Level(j)' = Burst
      BY <2>1, <3>1 DEF Level
    <3>3. buckets[j].tokens \in Int /\ buckets[j].last \in Nat
      BY <3>1 DEF IInv, TypeOK, Bucket
    <3>4. Level(j) = Burst
      BY <1>1, <3>1, <3>3, BurstAssumption DEF Level, Refilled, Min2
    <3>5. QED
      BY <3>2, <3>4
  <2>4. QED
    BY <2>2, <2>3
<1>4. QED
  BY <1>2, <1>3

(* Time passing earns one unit for every key, up to the burst.              *)
LEMMA TickLevel ==
  ASSUME IInv, Tick
  PROVE  [j \in Keys |-> Level(j)]' =
           [j \in Keys |-> Min2(Burst, [i \in Keys |-> Level(i)][j] + 1)]
<1>1. ASSUME NEW j \in Keys PROVE Level(j)' = Min2(Burst, Level(j) + 1)
  <2>1. now' = now + 1 /\ now \in Nat /\ buckets' = buckets
    BY DEF Tick, IInv, TypeOK
  <2>2. CASE buckets[j] = None
    BY <2>1, <2>2, BurstAssumption DEF Level, Min2
  <2>3. CASE buckets[j] # None
    <3>1. buckets[j].tokens \in Int /\ buckets[j].last \in Nat
      BY <2>3 DEF IInv, TypeOK, Bucket
    <3>2. QED
      BY <2>1, <2>3, <3>1, BurstAssumption DEF Level, Min2
  <2>4. QED
    BY <2>2, <2>3
<1>2. QED
  BY <1>1

(* Each method is the operation of the ideal bucket.                       *)
LEMMA AllowMaps ==
  ASSUME IInv, IInv', NEW k \in Keys, Allow(k)
  PROVE  Ideal!Gate(k)
<1>1. Refill(k).tokens = Level(k) /\ Level(k) \in Int /\ Cost \in Nat
  BY RefillLevel, BurstAssumption
<1>2. CASE Level(k) >= Cost
  <2>1. Touch(k, Cost) /\ verdict' = [key |-> k, ok |-> TRUE]
    BY <1>1, <1>2 DEF Allow
  <2>2. [j \in Keys |-> Level(j)]' =
          [[j \in Keys |-> Level(j)] EXCEPT ![k] = Level(k) - Cost]
    BY <1>1, <2>1, TouchLevel
  <2>3. (Level(k) >= Cost) = TRUE
    BY <1>2
  <2>4. QED
    BY <2>1, <2>2, <2>3 DEF Ideal!Gate
<1>3. CASE ~(Level(k) >= Cost)
  <2>1. Touch(k, 0) /\ verdict' = [key |-> k, ok |-> FALSE]
    BY <1>1, <1>3 DEF Allow
  <2>2. [j \in Keys |-> Level(j)]' = [j \in Keys |-> Level(j)]
    <3>1. Level(k) - 0 = Level(k)
      BY <1>1
    <3>2. QED
      BY <2>1, <3>1, TouchLevel
  <2>3. ([j \in Keys |-> Level(j)][k] >= Cost) = FALSE
    BY <1>1, <1>3
  <2>4. QED
    BY <2>1, <2>2, <2>3 DEF Ideal!Gate
<1>4. QED
  BY <1>2, <1>3

(* A charge may leave a debt.                                              *)
LEMMA TakeMaps ==
  ASSUME IInv, IInv', NEW k \in Keys, Take(k)
  PROVE  Ideal!Charge(k)
BY TouchLevel, BurstAssumption DEF Take, Ideal!Charge

(* peekOK changes no level.                                                *)
LEMMA PeekOKMaps ==
  ASSUME IInv, IInv', NEW k \in Keys, PeekOK(k)
  PROVE  Ideal!Solvent(k)
<1>1. Refill(k).tokens = Level(k) /\ Level(k) - 0 = Level(k)
  BY RefillLevel
<1>2. Touch(k, 0) /\ verdict' = [key |-> k, ok |-> Level(k) >= 0]
  BY <1>1 DEF PeekOK
<1>3. [j \in Keys |-> Level(j)]' = [j \in Keys |-> Level(j)]
  BY <1>1, <1>2, TouchLevel
<1>4. QED
  BY <1>2, <1>3 DEF Ideal!Solvent

(* The limiter with its buckets, refills and sweeps answers every call as   *)
(* the ideal token bucket does.                                            *)
THEOREM Refinement == Spec => ImplementsTokenBucket
<1>1. Init => Ideal!Init
  <2> SUFFICES ASSUME Init PROVE Ideal!Init
    OBVIOUS
  <2>1. [k \in Keys |-> Level(k)] = [k \in Keys |-> Burst]
    BY DEF Init, Level
  <2>2. QED
    BY <2>1 DEF Init, Ideal!Init
<1>2. IInv /\ IInv' /\ [Next]_vars => [Ideal!Next]_(Ideal!vars)
  <2> SUFFICES ASSUME IInv, IInv', [Next]_vars PROVE [Ideal!Next]_(Ideal!vars)
    OBVIOUS
  <2>1. ASSUME NEW k \in Keys, Allow(k) \/ Take(k) \/ PeekOK(k) PROVE Ideal!Next
    BY <2>1, AllowMaps, TakeMaps, PeekOKMaps DEF Ideal!Next
  <2>2. CASE Tick
    <3>1. Ideal!Earn
      BY <2>2, TickLevel DEF Tick, Ideal!Earn, Min2, Ideal!Min2
    <3>2. QED
      BY <3>1 DEF Ideal!Next
  <2>3. CASE UNCHANGED vars
    BY <2>3 DEF vars, Ideal!vars, Level
  <2>4. QED
    BY <2>1, <2>2, <2>3 DEF Next
<1>3. QED
  BY <1>1, <1>2, Invariance, PTL DEF Spec, ImplementsTokenBucket, Ideal!Spec
=============================================================================
