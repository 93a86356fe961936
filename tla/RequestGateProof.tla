-------------------------- MODULE RequestGateProof --------------------------
(***************************************************************************)
(* Proofs about RequestGate, for any clients, requests, bursts and prices,  *)
(* and any length of time.  What RateLimiterProof shows of a rate limiter   *)
(* is used twice, for the request limiter and for the failure limiter.      *)
(***************************************************************************)
EXTENDS RequestGate, FiniteSetTheorems, TLAPS

reqP == INSTANCE RateLimiterProof WITH Keys <- IPs, Burst <- ReqBurst, Cost <- ReqCost,
          buckets <- reqBuckets, lastGC <- reqGC, verdict <- reqVerdict
failP == INSTANCE RateLimiterProof WITH Keys <- IPs, Burst <- FailBurst, Cost <- FailCost,
           buckets <- failBuckets, lastGC <- failGC, verdict <- failVerdict

(* The assumptions about a rate limiter hold of both.                      *)
LEMMA LimiterAssumptions ==
  /\ reqP!BurstAssumption /\ reqP!BoundAssumption /\ reqP!NoneAssumption
  /\ failP!BurstAssumption /\ failP!BoundAssumption /\ failP!NoneAssumption
BY ReqAssumption, FailAssumption, GateBoundAssumption, GateNoneAssumption
DEF reqP!BurstAssumption, reqP!BoundAssumption, reqP!NoneAssumption,
    failP!BurstAssumption, failP!BoundAssumption, failP!NoneAssumption,
    reqP!Bucket, reqP!Verdict, failP!Bucket, failP!Verdict

(* The two instances of RateLimiter in RequestGate are those of the proofs. *)
LEMMA SameTypes ==
  /\ limiter!TypeOK <=> reqP!TypeOK
  /\ failLim!TypeOK <=> failP!TypeOK
BY DEF limiter!TypeOK, reqP!TypeOK, failLim!TypeOK, failP!TypeOK,
       limiter!Bucket, reqP!Bucket, failLim!Bucket, failP!Bucket,
       limiter!Verdict, reqP!Verdict, failLim!Verdict, failP!Verdict

(* The limiters with the bounds of the model, and the unbounded ones that  *)
(* RateLimiterProof is about, are the same but for MaxNow: a bucket's level,*)
LEMMA SameLevel ==
  ASSUME NEW ip \in IPs
  PROVE  failLim!Level(ip) = failP!Level(ip)
BY DEF failLim!Level, failP!Level, failLim!Min2, failP!Min2

(* the state they start in,                                                *)
LEMMA SameInit ==
  /\ limiter!Init => reqP!Init
  /\ failLim!Init => failP!Init
BY DEF limiter!Init, reqP!Init, failLim!Init, failP!Init

(* the passing of time,                                                    *)
LEMMA SameTick ==
  /\ limiter!Tick => reqP!Tick
  /\ failLim!Tick => failP!Tick
BY DEF limiter!Tick, reqP!Tick, failLim!Tick, failP!Tick

(* a request's charge,                                                     *)
LEMMA SameAllow ==
  ASSUME NEW ip \in IPs, limiter!Allow(ip)
  PROVE  reqP!Allow(ip)
<1>1. limiter!Refill(ip) = reqP!Refill(ip)
  BY DEF limiter!Refill, reqP!Refill, limiter!Min2, reqP!Min2, limiter!AfterGC,
         reqP!AfterGC, limiter!GCDue, reqP!GCDue, limiter!Refilled, reqP!Refilled
<1>2. ASSUME NEW cost, limiter!Touch(ip, cost) PROVE reqP!Touch(ip, cost)
  BY <1>1, <1>2 DEF limiter!Touch, reqP!Touch, limiter!AfterGC, reqP!AfterGC,
         limiter!GCDue, reqP!GCDue, limiter!Refilled, reqP!Refilled
<1>3. QED
  BY <1>1, <1>2 DEF limiter!Allow, reqP!Allow

(* and the check and the charge of a failure.                              *)
LEMMA SameFailTouch ==
  ASSUME NEW ip \in IPs
  PROVE  /\ failLim!Refill(ip) = failP!Refill(ip)
         /\ failLim!Take(ip) => failP!Take(ip)
         /\ failLim!PeekOK(ip) => failP!PeekOK(ip)
<1>1. failLim!Refill(ip) = failP!Refill(ip)
  BY DEF failLim!Refill, failP!Refill, failLim!Min2, failP!Min2, failLim!AfterGC,
         failP!AfterGC, failLim!GCDue, failP!GCDue, failLim!Refilled, failP!Refilled
<1>2. ASSUME NEW cost, failLim!Touch(ip, cost) PROVE failP!Touch(ip, cost)
  BY <1>1, <1>2 DEF failLim!Touch, failP!Touch, failLim!AfterGC, failP!AfterGC,
         failLim!GCDue, failP!GCDue, failLim!Refilled, failP!Refilled
<1>3. failLim!Take(ip) => failP!Take(ip)
  BY <1>1, <1>2 DEF failLim!Take, failP!Take
<1>4. failLim!PeekOK(ip) => failP!PeekOK(ip)
  BY <1>1, <1>2 DEF failLim!PeekOK, failP!PeekOK
<1>5. QED
  BY <1>1, <1>3, <1>4

----------------------------------------------------------------------------
(* The balance of an IP at the failure limiter, and what the requests that  *)
(* are past the check leave of the debt that the IP may run up.             *)
Balance(ip) == failP!Level(ip)
Unadmitted(ip) == Cardinality(Requests) - Cardinality(Admitted(ip))

(* The inductive invariant.  The debt is bounded as DebtBounded says, and   *)
(* burst and elapsed time pay for all failures and for the balance that is  *)
(* left: the two together bound the failures.                              *)
Paid(ip) ==
  /\ Balance(ip) >= -(FailCost * Unadmitted(ip))
  /\ FailCost * charged[ip] + Balance(ip) <= FailBurst + now

GInv ==
  /\ reqP!IInv /\ failP!IInv
  /\ request \in [Requests -> {Idle} \cup Busy]
  /\ charged \in [IPs -> Nat]
  /\ \A ip \in IPs : Paid(ip)

(* The numbers that Paid is about.                                         *)
LEMMA Numbers ==
  ASSUME NEW ip \in IPs
  PROVE  /\ Cardinality(Requests) \in Nat /\ Cardinality(Admitted(ip)) \in Nat
         /\ Cardinality(Admitted(ip)) <= Cardinality(Requests)
         /\ Unadmitted(ip) \in Nat
<1>1. Admitted(ip) \subseteq Requests
  BY DEF Admitted
<1>2. /\ Cardinality(Requests) \in Nat /\ Cardinality(Admitted(ip)) \in Nat
      /\ Cardinality(Admitted(ip)) <= Cardinality(Requests)
  BY <1>1, RequestsAssumption, FS_Subset, FS_CardinalityType
<1>3. QED
  BY <1>2 DEF Unadmitted

(* What an IP may still fail for is an integer, at most the burst.         *)
LEMMA BalanceType ==
  ASSUME failP!IInv, NEW ip \in IPs
  PROVE  Balance(ip) \in Int /\ Balance(ip) <= FailBurst /\ now \in Nat
BY LimiterAssumptions, failP!RefillLevel DEF Balance, failP!IInv, failP!TypeOK

(* A price is paid once more, or once less.                                *)
LEMMA Price ==
  ASSUME NEW n \in Int, NEW m \in Int
  PROVE  /\ FailCost * n \in Int
         /\ FailCost * (n + 1) = FailCost * n + FailCost
         /\ n <= m => FailCost * n <= FailCost * m
<1>1. FailCost \in Nat
  BY FailAssumption
<1>2. ASSUME NEW c \in Nat, NEW i \in Int, NEW j \in Int
      PROVE  c * i \in Int /\ c * (i + 1) = c * i + c /\ (i <= j => c * i <= c * j)
  OBVIOUS
<1>3. QED
  BY <1>1, <1>2

(* A call of the failure limiter changes the balance of its IP alone, by    *)
(* its cost.                                                               *)
LEMMA FailEffect ==
  ASSUME failP!IInv, NEW ip \in IPs, NEW cost \in Nat, failP!Touch(ip, cost),
         failVerdict' \in failP!Verdict \cup {None}
  PROVE  /\ failP!IInv' /\ now' = now
         /\ Balance(ip)' = Balance(ip) - cost
         /\ \A j \in IPs \ {ip} : Balance(j)' = Balance(j)
<1>1. failP!IInv'
  BY LimiterAssumptions, failP!TouchIInv
<1>2. [j \in IPs |-> Balance(j)]' = [[j \in IPs |-> Balance(j)] EXCEPT ![ip] = Balance(ip) - cost]
  BY <1>1, LimiterAssumptions, failP!TouchLevel DEF Balance
<1>3. ASSUME NEW j \in IPs
      PROVE  Balance(j)' = IF j = ip THEN Balance(ip) - cost ELSE Balance(j)
  BY <1>2
<1>4. QED
  BY <1>1, <1>3 DEF failP!Touch

(* A step during which the limiter is not called and no time passes.       *)
LEMMA LimiterIdle ==
  ASSUME UNCHANGED now
  PROVE  /\ reqP!IInv /\ UNCHANGED reqVars => reqP!IInv'
         /\ failP!IInv /\ UNCHANGED failVars =>
              failP!IInv' /\ \A ip \in IPs : Balance(ip)' = Balance(ip)
<1>1. reqP!IInv /\ UNCHANGED reqVars => reqP!IInv'
  BY DEF reqVars, reqP!IInv, reqP!TypeOK, reqP!WellFilled
<1>2. failP!IInv /\ UNCHANGED failVars => failP!IInv'
  BY DEF failVars, failP!IInv, failP!TypeOK, failP!WellFilled
<1>3. UNCHANGED failVars => \A ip \in IPs : Balance(ip)' = Balance(ip)
  BY DEF failVars, Balance, failP!Level
<1>4. QED
  BY <1>1, <1>2, <1>3

----------------------------------------------------------------------------
(* Counting the requests of an IP that are past the check.                 *)
LEMMA Count ==
  ASSUME NEW S \in SUBSET Requests
  PROVE  /\ IsFiniteSet(S) /\ Cardinality(S) \in Nat
         /\ Cardinality(S) <= Cardinality(Requests) /\ Cardinality(Requests) \in Nat
BY RequestsAssumption, FS_Subset, FS_CardinalityType

(* A step that admits no request of an IP and leaves its balance and its    *)
(* charges alone.                                                          *)
LEMMA PaidStays ==
  ASSUME GInv, NEW ip \in IPs, UNCHANGED now, charged'[ip] = charged[ip],
         Balance(ip)' = Balance(ip), Admitted(ip)' \subseteq Admitted(ip)
  PROVE  Paid(ip)'
<1>1. Admitted(ip) \in SUBSET Requests /\ Admitted(ip)' \in SUBSET Requests
  BY DEF Admitted
<1>2. Cardinality(Admitted(ip)') <= Cardinality(Admitted(ip))
  BY <1>1, Count, FS_Subset
<1>3. Unadmitted(ip) \in Int /\ Unadmitted(ip)' \in Int /\ Unadmitted(ip) <= Unadmitted(ip)'
  BY <1>1, <1>2, Count DEF Unadmitted
<1>4. /\ FailCost * Unadmitted(ip) \in Int /\ FailCost * Unadmitted(ip)' \in Int
      /\ FailCost * Unadmitted(ip) <= FailCost * Unadmitted(ip)'
  BY <1>3, Price
<1>5. Balance(ip) \in Int /\ Balance(ip)' \in Int
  BY BalanceType DEF GInv
<1>6. Paid(ip)
  BY DEF GInv
<1>7. QED
  BY <1>4, <1>5, <1>6 DEF Paid

(* A request that arrives pays its own limiter and owes nothing yet.       *)
LEMMA ArriveStep ==
  ASSUME GInv, NEW r \in Requests, NEW ip \in IPs, Arrive(r, ip)
  PROVE  GInv'
<1>1. reqP!Allow(ip) /\ UNCHANGED <<failVars, charged>> /\ request[r] = Idle
  BY SameAllow DEF Arrive
<1>2. PICK cost \in Nat : reqP!Touch(ip, cost) /\ reqVerdict' \in reqP!Verdict \cup {None}
  BY <1>1, LimiterAssumptions, reqP!CallTouches DEF GInv
<1>3. reqP!IInv' /\ UNCHANGED now
  BY <1>2, LimiterAssumptions, reqP!TouchIInv DEF GInv, reqP!Touch
<1>4. failP!IInv' /\ \A j \in IPs : Balance(j)' = Balance(j)
  BY <1>1, <1>3, LimiterIdle DEF GInv
<1>5. \/ request' = [request EXCEPT ![r] = [pc |-> "check", ip |-> ip]]
      \/ UNCHANGED request
  BY DEF Arrive
<1>6. request' \in [Requests -> {Idle} \cup Busy]
  BY <1>5 DEF GInv, Busy
<1>7. ASSUME NEW j \in IPs PROVE Admitted(j)' \subseteq Admitted(j)
  BY <1>1, <1>5 DEF GInv, Admitted, Idle
<1>8. \A j \in IPs : Paid(j)'
  BY <1>1, <1>3, <1>4, <1>7, PaidStays
<1>9. QED
  BY <1>1, <1>3, <1>4, <1>6, <1>8 DEF GInv

(* The check admits a request only of an IP that owes nothing.              *)
LEMMA CheckStep ==
  ASSUME GInv, NEW r \in Requests, Check(r)
  PROVE  GInv'
<1>1. PICK ip \in IPs :
        request[r] \in Busy /\ request[r].ip = ip /\ request[r].pc = "check"
  BY DEF Check, GInv, Idle, Busy
<1>2. failP!PeekOK(ip) /\ UNCHANGED <<reqVars, charged>>
  BY <1>1, SameFailTouch DEF Check
<1>3. failP!Refill(ip).tokens = Balance(ip) /\ Balance(ip) \in Int
  BY <1>1, LimiterAssumptions, failP!RefillLevel DEF GInv, Balance
<1>4. /\ failP!Touch(ip, 0) /\ failVerdict' \in failP!Verdict \cup {None}
      /\ failVerdict' = [key |-> ip, ok |-> Balance(ip) >= 0]
  BY <1>1, <1>2, <1>3 DEF failP!PeekOK, failP!Verdict
<1>5. /\ failP!IInv' /\ UNCHANGED now
      /\ \A j \in IPs : Balance(j)' = Balance(j)
  BY <1>1, <1>3, <1>4, FailEffect DEF GInv
<1>6. reqP!IInv'
  BY <1>2, <1>5, LimiterIdle DEF GInv
<1>7. CASE ~(Balance(ip) >= 0)
  <2>1. request' = [request EXCEPT ![r] = Idle]
    BY <1>4, <1>7 DEF Check, Leave
  <2>2. request' \in [Requests -> {Idle} \cup Busy]
    BY <2>1 DEF GInv
  <2>3. ASSUME NEW j \in IPs PROVE Admitted(j)' \subseteq Admitted(j)
    BY <2>1 DEF GInv, Admitted, Idle
  <2>4. \A j \in IPs : Paid(j)'
    BY <1>2, <1>5, <2>3, PaidStays
  <2>5. QED
    BY <1>2, <1>5, <1>6, <2>2, <2>4 DEF GInv
<1>8. CASE Balance(ip) >= 0
  <2>1. request' = [request EXCEPT ![r].pc = "handle"]
    BY <1>4, <1>8 DEF Check, GoTo
  <2>2. request'[r] \in Busy /\ request'[r].ip = ip
    BY <1>1, <2>1 DEF GInv, Busy
  <2>3. request' \in [Requests -> {Idle} \cup Busy]
    BY <2>1, <2>2 DEF GInv
  <2>4. ASSUME NEW j \in IPs, j # ip PROVE Paid(j)'
    <3>1. Admitted(j)' \subseteq Admitted(j)
      BY <2>1, <2>2, <2>4 DEF GInv, Admitted
    <3>2. QED
      BY <1>2, <1>5, <3>1, PaidStays
  <2>5. Paid(ip)'
    <3>1. Admitted(ip)' \in SUBSET Requests
      BY DEF Admitted
    <3>2. Unadmitted(ip)' \in Int /\ 0 <= Unadmitted(ip)'
      BY <3>1, Count DEF Unadmitted
    <3>3. /\ FailCost * 0 \in Int /\ FailCost * Unadmitted(ip)' \in Int
          /\ FailCost * 0 <= FailCost * Unadmitted(ip)'
      BY <3>2, Price
    <3>4. FailCost * 0 = 0
      BY FailAssumption
    <3>5. Balance(ip)' >= -(FailCost * Unadmitted(ip)')
      BY <1>1, <1>3, <1>5, <1>8, <3>3, <3>4
    <3>6. FailCost * charged'[ip] + Balance(ip)' <= FailBurst + now'
      BY <1>1, <1>2, <1>5 DEF GInv, Paid
    <3>7. QED
      BY <3>5, <3>6 DEF Paid
  <2>6. \A j \in IPs : Paid(j)'
    BY <2>4, <2>5
  <2>7. QED
    BY <1>2, <1>5, <1>6, <2>3, <2>6 DEF GInv
<1>9. QED
  BY <1>7, <1>8

(* A handler that ends, or that finds no secret, calls no limiter.          *)
LEMMA HandlerStep ==
  ASSUME GInv, NEW r \in Requests, Succeed(r) \/ Fail(r)
  PROVE  GInv'
<1>1. UNCHANGED <<now, reqVars, failVars, charged>> /\ request[r].pc = "handle"
  BY DEF Succeed, Fail
<1>2. /\ reqP!IInv' /\ failP!IInv'
      /\ \A j \in IPs : Balance(j)' = Balance(j)
  BY <1>1, LimiterIdle DEF GInv
<1>3. request[r] \in Busy
  BY <1>1 DEF GInv, Idle
<1>4. \/ request' = [request EXCEPT ![r] = Idle]
      \/ request' = [request EXCEPT ![r].pc = "charge"]
  BY DEF Succeed, Fail, Leave, GoTo
<1>5. request' \in [Requests -> {Idle} \cup Busy]
  <2>1. request'[r] \in {Idle} \cup Busy
    BY <1>3, <1>4 DEF GInv, Busy
  <2>2. QED
    BY <1>4, <2>1 DEF GInv
<1>6. ASSUME NEW j \in IPs PROVE Admitted(j)' \subseteq Admitted(j)
  BY <1>1, <1>3, <1>4 DEF GInv, Admitted, Idle, Busy
<1>7. \A j \in IPs : Paid(j)'
  BY <1>1, <1>2, <1>6, PaidStays
<1>8. QED
  BY <1>1, <1>2, <1>5, <1>7 DEF GInv

(* The charge takes the price of a failure and the request that owed it.    *)
LEMMA ChargeStep ==
  ASSUME GInv, NEW r \in Requests, Charge(r)
  PROVE  GInv'
<1>1. PICK ip \in IPs :
        request[r] \in Busy /\ request[r].ip = ip /\ request[r].pc = "charge"
  BY DEF Charge, GInv, Idle, Busy
<1>2. /\ failP!Take(ip) /\ UNCHANGED reqVars
      /\ charged' = [charged EXCEPT ![ip] = @ + 1]
      /\ request' = [request EXCEPT ![r] = Idle]
  BY <1>1, SameFailTouch DEF Charge, Leave
<1>3. FailCost \in Nat /\ FailBurst \in Nat
  BY FailAssumption
<1>4. failP!Touch(ip, FailCost) /\ failVerdict' \in failP!Verdict \cup {None}
  BY <1>2 DEF failP!Take
<1>5. /\ failP!IInv' /\ UNCHANGED now
      /\ Balance(ip)' = Balance(ip) - FailCost
      /\ \A j \in IPs \ {ip} : Balance(j)' = Balance(j)
  BY <1>1, <1>3, <1>4, FailEffect DEF GInv
<1>6. reqP!IInv'
  BY <1>2, <1>5, LimiterIdle DEF GInv
<1>7. /\ request' \in [Requests -> {Idle} \cup Busy]
      /\ charged' \in [IPs -> Nat] /\ charged'[ip] = charged[ip] + 1
      /\ \A j \in IPs \ {ip} : charged'[j] = charged[j]
  BY <1>1, <1>2 DEF GInv
<1>8. ASSUME NEW j \in IPs, j # ip PROVE Paid(j)'
  <2>1. Admitted(j)' \subseteq Admitted(j)
    BY <1>2 DEF GInv, Admitted, Idle
  <2>2. QED
    BY <1>5, <1>7, <1>8, <2>1, PaidStays
<1>9. Paid(ip)'
  <2>1. Admitted(ip) \in SUBSET Requests /\ Admitted(ip)' \in SUBSET Requests
    BY DEF Admitted
  <2>2. r \in Admitted(ip) /\ Admitted(ip)' = Admitted(ip) \ {r}
    BY <1>1, <1>2 DEF GInv, Admitted, Idle
  <2>3. Cardinality(Admitted(ip)') = Cardinality(Admitted(ip)) - 1
    BY <2>1, <2>2, Count, FS_RemoveElement
  <2>4. Unadmitted(ip) \in Int /\ Unadmitted(ip)' = Unadmitted(ip) + 1
    BY <2>1, <2>3, Count DEF Unadmitted
  <2>5. /\ FailCost * Unadmitted(ip) \in Int
        /\ FailCost * Unadmitted(ip)' = FailCost * Unadmitted(ip) + FailCost
    BY <2>4, Price
  <2>6. charged[ip] \in Int
    BY DEF GInv
  <2>7. /\ FailCost * charged[ip] \in Int
        /\ FailCost * charged'[ip] = FailCost * charged[ip] + FailCost
    BY <1>7, <2>6, Price
  <2>8. Paid(ip) /\ Balance(ip) \in Int /\ now \in Nat
    BY BalanceType DEF GInv
  <2>9. Balance(ip)' >= -(FailCost * Unadmitted(ip)')
    BY <1>3, <1>5, <2>5, <2>8 DEF Paid
  <2>10. FailCost * charged'[ip] + Balance(ip)' <= FailBurst + now'
    BY <1>3, <1>5, <2>7, <2>8 DEF Paid
  <2>11. QED
    BY <2>9, <2>10 DEF Paid
<1>10. \A j \in IPs : Paid(j)'
  BY <1>8, <1>9
<1>11. QED
  BY <1>5, <1>6, <1>7, <1>10 DEF GInv

(* Time earns each IP at most what it adds to the budget.                   *)
LEMMA TickStep == GInv /\ Tick => GInv'
<1> SUFFICES ASSUME GInv, Tick PROVE GInv'
  OBVIOUS
<1>1. reqP!Tick /\ failP!Tick /\ UNCHANGED <<request, charged>>
  BY SameTick DEF Tick
<1>2. reqP!IInv' /\ failP!IInv'
  BY <1>1, LimiterAssumptions, reqP!NextIInv, failP!NextIInv
  DEF GInv, reqP!Next, failP!Next
<1>3. [j \in IPs |-> Balance(j)]' =
        [j \in IPs |-> failP!Min2(FailBurst, [i \in IPs |-> Balance(i)][j] + 1)]
  BY <1>1, LimiterAssumptions, failP!TickLevel DEF GInv, Balance
<1>4. ASSUME NEW ip \in IPs PROVE Paid(ip)'
  <2>1. Balance(ip)' = failP!Min2(FailBurst, Balance(ip) + 1)
    BY <1>3
  <2>2. Balance(ip) \in Int /\ Balance(ip) <= FailBurst /\ FailBurst \in Nat /\ now \in Nat
    BY BalanceType, FailAssumption DEF GInv
  <2>3. /\ Balance(ip)' \in Int /\ Balance(ip) <= Balance(ip)'
        /\ Balance(ip)' <= Balance(ip) + 1 /\ now' = now + 1
    BY <1>1, <2>1, <2>2 DEF failP!Min2, failP!Tick
  <2>4. Admitted(ip)' = Admitted(ip) /\ charged'[ip] = charged[ip]
    BY <1>1 DEF Admitted
  <2>5. Unadmitted(ip)' = Unadmitted(ip) /\ Unadmitted(ip) \in Int
    BY <2>4, Numbers DEF Unadmitted
  <2>6. FailCost * Unadmitted(ip) \in Int /\ FailCost * charged[ip] \in Int
    BY <2>5, Price DEF GInv
  <2>7. QED
    BY <2>2, <2>3, <2>4, <2>5, <2>6 DEF GInv, Paid
<1>5. QED
  BY <1>1, <1>2, <1>4 DEF GInv

(* No one owes anything before the first request.                          *)
LEMMA InitGInv == Init => GInv
<1> SUFFICES ASSUME Init PROVE GInv
  OBVIOUS
<1>1. reqP!IInv /\ failP!IInv
  BY LimiterAssumptions, SameInit, reqP!InitIInv, failP!InitIInv DEF Init
<1>2. request \in [Requests -> {Idle} \cup Busy] /\ charged \in [IPs -> Nat]
  BY DEF Init
<1>3. ASSUME NEW ip \in IPs PROVE Paid(ip)
  <2>1. failBuckets[ip] = None /\ now = 0 /\ charged[ip] = 0
    BY DEF Init, failLim!Init
  <2>2. Balance(ip) = FailBurst /\ FailBurst \in Nat /\ FailCost \in Nat
    BY <2>1, FailAssumption DEF Balance, failP!Level
  <2>3. Unadmitted(ip) \in Nat /\ FailCost * charged[ip] = 0
    BY <2>1, <2>2, Numbers
  <2>4. /\ FailCost * 0 <= FailCost * Unadmitted(ip) /\ FailCost * Unadmitted(ip) \in Int
        /\ FailCost * 0 = 0
    BY <2>2, <2>3, Price
  <2>5. QED
    BY <2>1, <2>2, <2>3, <2>4 DEF Paid
<1>4. QED
  BY <1>1, <1>2, <1>3 DEF GInv

----------------------------------------------------------------------------
(* No step of the middleware breaks the invariant.                         *)
LEMMA NextGInv == GInv /\ [Next]_vars => GInv'
<1> SUFFICES ASSUME GInv, [Next]_vars PROVE GInv'
  OBVIOUS
<1>1. CASE UNCHANGED vars
  <2>1. UNCHANGED <<now, request, charged, reqVars, failVars>>
    BY <1>1 DEF vars
  <2>2. reqP!IInv' /\ failP!IInv' /\ \A j \in IPs : Balance(j)' = Balance(j)
    BY <2>1, LimiterIdle DEF GInv
  <2>3. \A j \in IPs : Admitted(j)' \subseteq Admitted(j)
    BY <2>1 DEF Admitted
  <2>4. \A j \in IPs : Paid(j)'
    BY <2>1, <2>2, <2>3, PaidStays
  <2>5. QED
    BY <2>1, <2>2, <2>4 DEF GInv
<1>2. QED
  BY <1>1, ArriveStep, CheckStep, HandlerStep, ChargeStep, TickStep DEF Next

(* The inductive invariant holds of every behaviour of the middleware.      *)
THEOREM GateInvariance == Spec => []GInv
BY InitGInv, NextGInv, PTL DEF Spec

(* The state of the middleware is always well formed.                      *)
THEOREM GateTypeCorrect == Spec => []TypeOK
<1>1. GInv => TypeOK
  BY SameTypes DEF GInv, reqP!IInv, failP!IInv, TypeOK
<1>2. QED
  BY <1>1, GateInvariance, PTL

(* However the checks and the charges of an IP interleave, it never owes    *)
(* more than one failure for every request that is not in a handler now.    *)
THEOREM DebtIsBounded == Spec => []DebtBounded
<1>1. GInv => DebtBounded
  <2> SUFFICES ASSUME GInv, NEW ip \in IPs
               PROVE  failLim!Level(ip) >= -FailCost * Unadmitted(ip)
    BY DEF DebtBounded, Unadmitted
  <2>1. Unadmitted(ip) \in Nat /\ FailCost \in Nat
    BY Numbers, FailAssumption
  <2>2. -FailCost * Unadmitted(ip) = -(FailCost * Unadmitted(ip))
    BY <2>1
  <2>3. QED
    BY <2>2, SameLevel DEF GInv, Paid, Balance
<1>2. QED
  BY <1>1, GateInvariance, PTL

(* The failures charged to an IP are paid for by the burst, the time that   *)
(* passed and the debt that its concurrent requests may run up.             *)
THEOREM FailuresAreBounded == Spec => []FailuresBounded
<1>1. GInv => FailuresBounded
  <2> SUFFICES ASSUME GInv, NEW ip \in IPs
               PROVE  FailCost * charged[ip]
                        <= FailBurst + now + FailCost * Cardinality(Requests)
    BY DEF FailuresBounded
  <2>1. /\ Cardinality(Requests) \in Int /\ Unadmitted(ip) \in Int
        /\ Unadmitted(ip) <= Cardinality(Requests)
    BY Numbers DEF Unadmitted
  <2>2. /\ FailCost * Unadmitted(ip) <= FailCost * Cardinality(Requests)
        /\ FailCost * Unadmitted(ip) \in Int /\ FailCost * Cardinality(Requests) \in Int
    BY <2>1, Price
  <2>3. FailCost * charged[ip] \in Int /\ Balance(ip) \in Int /\ now \in Nat /\ FailBurst \in Nat
    BY Price, BalanceType, FailAssumption DEF GInv
  <2>4. QED
    BY <2>2, <2>3 DEF GInv, Paid
<1>2. QED
  BY <1>1, GateInvariance, PTL
=============================================================================
