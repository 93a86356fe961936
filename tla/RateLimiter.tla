---------------------------- MODULE RateLimiter ----------------------------
(***************************************************************************)
(* The per-IP token bucket of internal/api/ratelimit.go: buckets are made   *)
(* on first use, refilled when they are used and swept, at most once per    *)
(* GCPeriod, when they would be full again.  api.go has two of them: the    *)
(* request limiter (10/s, burst 20), of which allow is used, and the        *)
(* failure limiter (5/min, burst 5), of which take and peekOK are used.     *)
(*                                                                         *)
(* A balance is kept in units of 1/rate seconds, that is, in the time it    *)
(* takes to earn it: one clock unit earns one unit, a request costs Cost.   *)
(* The code's float64 balances are thereby exact.                           *)
(***************************************************************************)
EXTENDS Integers

CONSTANTS
  Keys,      \* client IPs
  Burst,     \* the burst, in time units
  Cost,      \* the price of a request, 1/rate, in time units
  GCPeriod,  \* a minute
  MaxNow,    \* bound of the model: time stops here
  MaxDebt,   \* bound of the model: no charge leaves a balance below -MaxDebt
  None       \* "no such key" in the map of buckets

Bucket == [tokens : Int, last : Nat]
Verdict == [key : Keys, ok : BOOLEAN]

ASSUME BurstAssumption == Burst \in Nat /\ Cost \in Nat \ {0} /\ Cost <= Burst
ASSUME BoundAssumption == GCPeriod \in Nat \ {0} /\ MaxNow \in Nat /\ MaxDebt \in Nat
ASSUME NoneAssumption == None \notin Bucket /\ None \notin Verdict

VARIABLES
  now,      \* the time
  buckets,  \* rateLimiter.buckets
  lastGC,   \* rateLimiter.lastGC; its zero value is long ago
  verdict   \* what the last call returned; None if nothing

vars == <<now, buckets, lastGC, verdict>>

Min2(a, b) == IF a <= b THEN a ELSE b

Init ==
  /\ now = 0
  /\ buckets = [k \in Keys |-> None]
  /\ lastGC = -GCPeriod
  /\ verdict = None

(* gcLocked: the buckets that survive, and the time of the last sweep.      *)
GCDue == now - lastGC >= GCPeriod
(* Fault: any bucket that was idle for a period is swept, debt or not.      *)
RefilledIfIdle(b) == now - b.last >= GCPeriod

Refilled(b) == b.tokens + (now - b.last) >= Burst
AfterGC(k) ==
  IF GCDue /\ buckets[k] # None /\ Refilled(buckets[k]) THEN None ELSE buckets[k]

(* Faults: a new bucket dates from the last sweep; a refill has no cap.     *)
RefillFromSweep(k) ==
  IF AfterGC(k) = None
    THEN [tokens |-> Burst, last |-> lastGC]
    ELSE [tokens |-> Min2(Burst, AfterGC(k).tokens + (now - AfterGC(k).last)),
          last |-> now]

RefillUncapped(k) ==
  IF AfterGC(k) = None
    THEN [tokens |-> Burst, last |-> now]
    ELSE [tokens |-> AfterGC(k).tokens + (now - AfterGC(k).last), last |-> now]

(* refillLocked: the caller's bucket, brought up to date.                  *)
Refill(k) ==
  IF AfterGC(k) = None
    THEN [tokens |-> Burst, last |-> now]
    ELSE [tokens |-> Min2(Burst, AfterGC(k).tokens + (now - AfterGC(k).last)),
          last |-> now]

(* One call: sweep if due, refill k's bucket and take cost from it.         *)
Touch(k, cost) ==
  /\ buckets' = [j \in Keys |->
       IF j = k THEN [Refill(k) EXCEPT !.tokens = @ - cost] ELSE AfterGC(j)]
  /\ lastGC' = IF GCDue THEN now ELSE lastGC
  /\ UNCHANGED now

Allow(k) ==
  \/ /\ Refill(k).tokens >= Cost
     /\ Touch(k, Cost)
     /\ verdict' = [key |-> k, ok |-> TRUE]
  \/ /\ Refill(k).tokens < Cost
     /\ Touch(k, 0)
     /\ verdict' = [key |-> k, ok |-> FALSE]

Take(k) ==
  /\ Refill(k).tokens - Cost >= -MaxDebt
  /\ Touch(k, Cost)
  /\ verdict' = None

PeekOK(k) ==
  /\ Touch(k, 0)
  /\ verdict' = [key |-> k, ok |-> Refill(k).tokens >= 0]

Tick ==
  /\ now < MaxNow
  /\ now' = now + 1
  /\ verdict' = None
  /\ UNCHANGED <<buckets, lastGC>>

Next == (\E k \in Keys : Allow(k) \/ Take(k) \/ PeekOK(k)) \/ Tick

Spec == Init /\ [][Next]_vars

----------------------------------------------------------------------------
TypeOK ==
  /\ now \in Nat
  /\ buckets \in [Keys -> Bucket \cup {None}]
  /\ lastGC \in Int
  /\ verdict \in Verdict \cup {None}

(* A bucket is never ahead of the clock or above the burst, whatever mix of *)
(* calls, refills and sweeps made it.                                       *)
WellFilled ==
  /\ lastGC <= now
  /\ \A k \in Keys : buckets[k] # None =>
       buckets[k].last <= now /\ buckets[k].tokens <= Burst

(* The balance of a key, whether it has a bucket or not.                    *)
Level(k) ==
  IF buckets[k] = None THEN Burst
  ELSE Min2(Burst, buckets[k].tokens + (now - buckets[k].last))

Ideal == INSTANCE TokenBucket WITH level <- [k \in Keys |-> Level(k)]

(* Refilling lazily and sweeping idle buckets is invisible: the limiter     *)
(* answers as a bucket that always existed and earns all the time.  In      *)
(* particular a sweep forgives no debt and a refill earns nothing twice.    *)
ImplementsTokenBucket == Ideal!Spec
=============================================================================
