---------------------------- MODULE RequestGate ----------------------------
(***************************************************************************)
(* The rate-limit middleware around the handlers (internal/api/             *)
(* middleware.go, api.go) with its two limiters.  A request first pays the  *)
(* request limiter, then asks the failure limiter whether its IP is out of  *)
(* debt, then runs a handler; a handler that finds no secret for the token  *)
(* charges the failure limiter.  Each of these takes and releases a lock,   *)
(* so requests of one IP interleave between them.                           *)
(***************************************************************************)
EXTENDS Integers, FiniteSets

CONSTANTS
  IPs, Requests,
  ReqBurst, ReqCost,    \* the request limiter: burst 20, 10 per second
  FailBurst, FailCost,  \* the failure limiter: burst 5, 5 per minute
  GCPeriod,
  MaxNow, MaxDebt,      \* the bounds of RateLimiter
  None

ASSUME RequestsAssumption == IsFiniteSet(Requests)
ASSUME ReqAssumption == ReqBurst \in Nat /\ ReqCost \in Nat \ {0} /\ ReqCost <= ReqBurst
ASSUME FailAssumption == FailBurst \in Nat /\ FailCost \in Nat \ {0} /\ FailCost <= FailBurst
ASSUME GateBoundAssumption == GCPeriod \in Nat \ {0} /\ MaxNow \in Nat /\ MaxDebt \in Nat
ASSUME GateNoneAssumption ==
  None \notin [tokens : Int, last : Nat] /\ None \notin [key : IPs, ok : BOOLEAN]

VARIABLES
  now,
  reqBuckets, reqGC, reqVerdict,     \* API.limiter
  failBuckets, failGC, failVerdict,  \* API.failLim
  request,   \* where each request is
  charged    \* history variable: the failures each IP was ever charged for

reqVars == <<reqBuckets, reqGC, reqVerdict>>
failVars == <<failBuckets, failGC, failVerdict>>
vars == <<now, reqVars, failVars, request, charged>>

limiter == INSTANCE RateLimiter WITH Keys <- IPs, Burst <- ReqBurst, Cost <- ReqCost,
             buckets <- reqBuckets, lastGC <- reqGC, verdict <- reqVerdict
failLim == INSTANCE RateLimiter WITH Keys <- IPs, Burst <- FailBurst, Cost <- FailCost,
             buckets <- failBuckets, lastGC <- failGC, verdict <- failVerdict

Idle == [pc |-> "idle"]
Busy == [pc : {"check", "handle", "charge"}, ip : IPs]

Init ==
  /\ limiter!Init
  /\ failLim!Init
  /\ request = [r \in Requests |-> Idle]
  /\ charged = [ip \in IPs |-> 0]

GoTo(r, pc) == request' = [request EXCEPT ![r].pc = pc]
Leave(r) == request' = [request EXCEPT ![r] = Idle]

(* limiter.allow; a refusal is a 429.                                      *)
Arrive(r, ip) ==
  /\ request[r] = Idle
  /\ limiter!Allow(ip)
  /\ IF reqVerdict'.ok
       THEN request' = [request EXCEPT ![r] = [pc |-> "check", ip |-> ip]]
       ELSE UNCHANGED request
  /\ UNCHANGED <<failVars, charged>>

(* Fault: the answer of peekOK is ignored.                                 *)
CheckIgnored(r) ==
  /\ request[r].pc = "check"
  /\ failLim!PeekOK(request[r].ip)
  /\ GoTo(r, "handle")
  /\ UNCHANGED <<reqVars, charged>>

(* failLim.peekOK; a refusal is a 429, and the token of allow is spent.     *)
Check(r) ==
  /\ request[r].pc = "check"
  /\ failLim!PeekOK(request[r].ip)
  /\ IF failVerdict'.ok THEN GoTo(r, "handle") ELSE Leave(r)
  /\ UNCHANGED <<reqVars, charged>>

(* The handler: it succeeds, or ends without a charge (400, 413, 500, 507), *)
(* or has found no secret for the token.                                    *)
Succeed(r) ==
  /\ request[r].pc = "handle"
  /\ Leave(r)
  /\ UNCHANGED <<now, reqVars, failVars, charged>>

Fail(r) ==
  /\ request[r].pc = "handle"
  /\ GoTo(r, "charge")
  /\ UNCHANGED <<now, reqVars, failVars, charged>>

(* Fault: a failure is logged and counted but not charged.                 *)
ChargeNothing(r) ==
  /\ request[r].pc = "charge"
  /\ charged' = [charged EXCEPT ![request[r].ip] = @ + 1]
  /\ Leave(r)
  /\ UNCHANGED <<now, reqVars, failVars>>

(* failedAuth: the failure is charged whatever the balance is by then.      *)
Charge(r) ==
  /\ request[r].pc = "charge"
  /\ failLim!Take(request[r].ip)
  /\ charged' = [charged EXCEPT ![request[r].ip] = @ + 1]
  /\ Leave(r)
  /\ UNCHANGED reqVars

Tick ==
  /\ limiter!Tick
  /\ failLim!Tick
  /\ UNCHANGED <<request, charged>>

Next ==
  \/ \E r \in Requests, ip \in IPs : Arrive(r, ip)
  \/ \E r \in Requests : Check(r) \/ Succeed(r) \/ Fail(r) \/ Charge(r)
  \/ Tick

Spec == Init /\ [][Next]_vars

----------------------------------------------------------------------------
TypeOK ==
  /\ limiter!TypeOK
  /\ failLim!TypeOK
  /\ request \in [Requests -> {Idle} \cup Busy]
  /\ charged \in [IPs -> Nat]

(* The requests of an IP that are past the check and may still be charged.  *)
Admitted(ip) ==
  {r \in Requests : request[r].pc \in {"handle", "charge"} /\ request[r].ip = ip}

(* The check and the charge are two critical sections, so requests that     *)
(* were checked before the first of them is charged all fail on the same    *)
(* budget.  The debt this leaves is bounded by the number of requests: an   *)
(* IP owes at most one failure for every request not in a handler now.      *)
DebtBounded ==
  \A ip \in IPs :
    failLim!Level(ip) >= -FailCost * (Cardinality(Requests) - Cardinality(Admitted(ip)))

(* However requests interleave, the failures of an IP are paid for out of   *)
(* the burst and of what the elapsed time earned, up to that debt.          *)
FailuresBounded ==
  \A ip \in IPs :
    FailCost * charged[ip] <= FailBurst + now + FailCost * Cardinality(Requests)

(* The budget as api_test.go names it: "Burn through the 5-failure budget,  *)
(* then expect 429".  No more failures than burst and elapsed time allow    *)
(* are let through.                                                         *)
FailureBudget ==
  \A ip \in IPs : FailCost * charged[ip] <= FailBurst + now
=============================================================================
