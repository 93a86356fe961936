------------------------------ MODULE Service ------------------------------
(***************************************************************************)
(* The server process as its clients see it: requests that arrive, are      *)
(* handled and answered (internal/api/api.go), the counters of /metrics     *)
(* (internal/api/metrics.go), and the life of the process with its graceful *)
(* shutdown (internal/server/server.go).                                    *)
(*                                                                         *)
(* The store is the abstract one of module OneTimeSecret, which SecretStore *)
(* implements (theorem Refinement of SecretStoreProof).  A store call and *)
(* the passing of time or the forgetting of evidence are separate steps     *)
(* here; the abstract specification also lets them coincide.  Secrets live  *)
(* in memory: they die with the process.                                    *)
(*                                                                         *)
(* What the payload of a response is, and the race on the ciphertext, are   *)
(* left to module Unwrap, when a request is refused by the limiters to      *)
(* module RequestGate: here any request may be.                             *)
(***************************************************************************)
EXTENDS Integers, FiniteSets

CONSTANTS
  Ids, TTLs, ReadCounts, Absent,  \* as in OneTimeSecret
  Never,      \* the ID of a well-formed token that is never issued
  Malformed,  \* what crypto.ParseToken refuses
  Calls,      \* requests are numbered 1..Calls
  MaxNow,     \* bound of the model on time
  MaxBoots    \* bound of the model on starts of the server

ASSUME NeverAssumption == Never \in Ids /\ Malformed \notin Ids \cup {Absent} /\ Absent \notin Ids
ASSUME SecretAssumption ==
  /\ IsFiniteSet(Ids) /\ TTLs \subseteq Nat
  /\ Absent \notin [left : Nat, deadline : Nat, revoked : BOOLEAN]
ASSUME CallsAssumption == Calls \in Nat \ {0}
ASSUME BootsAssumption == MaxNow \in Nat /\ MaxBoots \in Nat \ {0}

VARIABLES
  now, secret, forgotten, answer,  \* the store
  server,    \* the process: running, draining, stopped (exit 0) or failed
  boots,     \* how often it was started
  spent,     \* history variable: the IDs that earlier processes issued
  request,   \* the HTTP exchanges
  counters   \* the metrics

storeVars == <<now, secret, forgotten, answer>>
serviceVars == <<storeVars, server, boots, spent, request, counters>>

Store == INSTANCE OneTimeSecret

Reasons == {"consumed", "expired", "revoked"}
Counted == Reasons \cup {"wrap", "unwrap", "peek", "revoke", "store_full",
                         "rate_limited", "auth_fail", "tamper", "unknown"}
Outcomes == Reasons \cup {"pending", "ok", "full", "not_found", "limited",
                          "bad_request", "auth_fail", "tamper"}

(* left is what the response says of the reads remaining.                   *)
NoRequest == [at |-> "none", op |-> "none", id |-> Absent, reads |-> 0,
              outcome |-> "pending", left |-> 0]
Request == [at : {"sent", "handled", "answered", "delivered", "cut"},
            op : {"wrap", "unwrap", "peek", "revoke"},
            id : Ids \cup {Malformed, Absent}, reads : Nat,
            outcome : Outcomes, left : Nat]

Zero == [name \in Counted |-> 0]

ServiceInit ==
  /\ Store!Init
  /\ server = "running" /\ boots = 1
  /\ spent = {}
  /\ request = [c \in 1..Calls |-> NoRequest]
  /\ counters = Zero

Running == server \in {"running", "draining"}
Issued == {id \in Ids : Store!Issued(id)}
InFlight == {c \in 1..Calls : request[c].at \in {"sent", "handled"}}

(* A store call during which no time passes and nothing is forgotten.       *)
AtOnce == UNCHANGED <<now, forgotten>>

(* A step that is no store call.                                           *)
Quiet == answer' = Absent /\ UNCHANGED <<now, secret, forgotten>>
Elsewhere == UNCHANGED <<server, boots, spent, counters>>

(* Which of the unused IDs a random token hashes to makes no difference.    *)
FreshId == CHOOSE id \in Ids \ (Issued \cup spent \cup {Never}) : TRUE

(* A client's request reaches the server.                                  *)
Send(c, op, id, reads) ==
  request' = [request EXCEPT ![c] =
    [NoRequest EXCEPT !.at = "sent", !.op = op, !.id = id, !.reads = reads]]

Arrived(c, op) == Running /\ request[c].at = "sent" /\ request[c].op = op

Handled(c, id, outcome, left) ==
  /\ request' = [request EXCEPT ![c] =
       [@ EXCEPT !.at = "handled", !.id = id, !.outcome = outcome, !.left = left]]
  /\ Elsewhere

(* Fault: any secret that is gone is reported as consumed.                  *)
MissedAsConsumed(c, op) ==
  /\ AtOnce
  /\ Store!Deny(op, request[c].id)
  /\ Handled(c, request[c].id,
       IF answer'.outcome \in Reasons THEN "consumed" ELSE answer'.outcome, 0)

(* writeGone: the reason the store gives, or not found.                     *)
Missed(c, op) ==
  /\ AtOnce
  /\ Store!Deny(op, request[c].id)
  /\ Handled(c, request[c].id, answer'.outcome, 0)
----------------------------------------------------------------------------
(* The handlers, up to the return of the store.                             *)

(* rateLimit: 429 from either limiter.                                     *)
Limit(c) ==
  /\ Running /\ request[c].at = "sent"
  /\ Quiet
  /\ Handled(c, request[c].id, "limited", 0)

(* The size, ttl or reads of a wrap are out of range.                       *)
Invalid(c) ==
  /\ Arrived(c, "wrap")
  /\ Quiet
  /\ Handled(c, Absent, "bad_request", 0)

(* tokenFrom on a token that does not parse: not distinguished from a miss  *)
(* in the response, but counted apart.                                      *)
TokenMalformed(c) ==
  /\ Running /\ request[c].at = "sent"
  /\ request[c].id = Malformed
  /\ Quiet
  /\ Handled(c, Malformed, "auth_fail", 0)

HandleWrap(c) ==
  /\ Arrived(c, "wrap")
  /\ \/ /\ Store!Issue(FreshId) /\ secret'[FreshId].left = request[c].reads
        /\ Handled(c, FreshId, "ok", 0)
     \/ /\ Store!Refuse(FreshId)
        /\ Handled(c, Absent, "full", 0)

(* Fault: the plaintext is served without consuming a read.                 *)
HandleUnwrapFree(c) ==
  /\ Arrived(c, "unwrap") /\ request[c].id \in Ids
  /\ \/ /\ Store!Look(request[c].id)
        /\ Handled(c, request[c].id, "ok", secret[request[c].id].left)
     \/ Missed(c, "take")

(* Fault: a read is granted without asking whether one is left.             *)
HandleUnwrapUnguarded(c) ==
  /\ Arrived(c, "unwrap") /\ request[c].id \in Issued
  /\ secret' = [secret EXCEPT ![request[c].id].left = @ - 1]
  /\ UNCHANGED <<now, forgotten, answer>>
  /\ Handled(c, request[c].id, "ok", secret'[request[c].id].left)

(* The response is made from the copy of the entry that Take returned.      *)
HandleUnwrap(c) ==
  /\ Arrived(c, "unwrap") /\ request[c].id \in Ids
  /\ \/ /\ AtOnce
        /\ Store!Read(request[c].id)
        /\ Handled(c, request[c].id, "ok", secret'[request[c].id].left)
     \/ Missed(c, "take")

HandlePeek(c) ==
  /\ Arrived(c, "peek") /\ request[c].id \in Ids
  /\ \/ /\ Store!Look(request[c].id)
        /\ Handled(c, request[c].id, "ok", secret[request[c].id].left)
     \/ Missed(c, "peek")

(* Fault: a revocation is confirmed that did not take place.                *)
HandleRevokeIdly(c) ==
  /\ Arrived(c, "revoke") /\ request[c].id \in Ids
  /\ \/ /\ Store!Look(request[c].id)
        /\ Handled(c, request[c].id, "ok", 0)
     \/ Missed(c, "revoke")

HandleRevoke(c) ==
  /\ Arrived(c, "revoke") /\ request[c].id \in Ids
  /\ \/ /\ AtOnce
        /\ Store!Withdraw(request[c].id)
        /\ Handled(c, request[c].id, "ok", 0)
     \/ Missed(c, "revoke")

(* The name under which an answered request is counted; 400 is not.         *)
CounterOf(op, outcome) ==
  CASE outcome = "ok" -> {op}
    [] outcome = "full" -> {"store_full"}
    [] outcome = "limited" -> {"rate_limited"}
    [] outcome = "not_found" -> {"unknown"}
    [] outcome = "bad_request" -> {}
    [] OTHER -> {outcome}

Answer(c, outcome, left) ==
  /\ request[c].at = "handled" /\ Running
  /\ request' = [request EXCEPT ![c] =
       [@ EXCEPT !.at = "answered", !.outcome = outcome, !.left = left]]
  /\ counters' = [name \in Counted |->
       counters[name] + IF name \in CounterOf(request[c].op, outcome) THEN 1 ELSE 0]
  /\ Quiet
  /\ UNCHANGED <<server, boots, spent>>

(* Fault: the response is made from the entry as it is by now.              *)
RespondStale(c) ==
  Answer(c, request[c].outcome,
         IF request[c].op = "unwrap" /\ request[c].outcome = "ok"
           THEN secret[request[c].id].left ELSE request[c].left)

(* Fault: the response is sent but not counted.                             *)
RespondUncounted(c) ==
  /\ request[c].at = "handled" /\ Running
  /\ request' = [request EXCEPT ![c].at = "answered"]
  /\ Quiet
  /\ UNCHANGED <<server, boots, spent, counters>>

(* audit or failedAuth, which count, and then the response.                 *)
Respond(c) == Answer(c, request[c].outcome, request[c].left)

(* crypto.Open fails if the entry was removed, and so wiped, after Take and *)
(* the read was not the last one: 500 (module Unwrap).                      *)
RespondTampered(c) ==
  /\ request[c].op = "unwrap" /\ request[c].outcome = "ok" /\ request[c].left > 0
  /\ ~Store!Readable(request[c].id)
  /\ Answer(c, "tamper", 0)
----------------------------------------------------------------------------
(* Time, and the store's own forgetting.                                    *)
Pass ==
  /\ now < MaxNow /\ now' = now + 1
  /\ UNCHANGED <<secret, forgotten>>
  /\ Store!Elapse
  /\ UNCHANGED request /\ Elsewhere

Forget ==
  /\ \E id \in Ids \ forgotten : forgotten' = forgotten \cup {id}
  /\ UNCHANGED <<now, secret>>
  /\ Store!Elapse
  /\ UNCHANGED request /\ Elsewhere

(* The process ends: its memory is gone, its open connections are cut.      *)
End(status) ==
  /\ server' = status
  /\ secret' = [id \in Ids |-> Absent] /\ forgotten' = {} /\ answer' = Absent
  /\ spent' = spent \cup Issued
  /\ request' = [c \in 1..Calls |->
       IF c \in InFlight THEN [request[c] EXCEPT !.at = "cut"] ELSE request[c]]
  /\ counters' = Zero
  /\ UNCHANGED <<now, boots>>

Boot ==
  /\ ~Running /\ boots < MaxBoots
  /\ server' = "running" /\ boots' = boots + 1
  /\ Quiet
  /\ UNCHANGED <<spent, request, counters>>

(* SIGINT or SIGTERM: no connection is accepted any more.                   *)
Signal ==
  /\ server = "running"
  /\ server' = "draining"
  /\ Quiet
  /\ UNCHANGED <<boots, spent, request, counters>>

(* Fault: connections are closed, not drained.                             *)
CloseAtOnce == server = "draining" /\ End("stopped")

(* Shutdown returns nil when every handler has returned.  A request that     *)
(* was sent but never reached one is lost.                                  *)
Drained ==
  /\ server = "draining"
  /\ \A c \in 1..Calls : request[c].at # "handled"
  /\ End("stopped")

(* Fault: Shutdown is called without a deadline, and returns once drained.  *)
DeadlineNever == Drained

(* Shutdown returns the context's error after five seconds.                 *)
Deadline == server = "draining" /\ InFlight # {} /\ End("failed")

(* A fatal error of the listener, a kill or a power failure.                *)
Crash == Running /\ End("failed")

Handle(c) ==
  \/ Limit(c) \/ Invalid(c) \/ TokenMalformed(c)
  \/ HandleWrap(c) \/ HandleUnwrap(c) \/ HandlePeek(c) \/ HandleRevoke(c)
  \/ Respond(c) \/ RespondTampered(c)

ShutdownReturns == Drained \/ Deadline

ServiceNext ==
  \/ \E c \in 1..Calls : Handle(c)
  \/ Pass \/ Forget
  \/ Boot \/ Signal \/ ShutdownReturns \/ Crash
----------------------------------------------------------------------------
ServiceTypeOK ==
  /\ now \in Nat /\ forgotten \subseteq Ids /\ spent \subseteq Ids
  /\ secret \in [Ids -> {Absent} \cup [left : Nat, deadline : Nat, revoked : BOOLEAN]]
  /\ server \in {"running", "draining", "stopped", "failed"} /\ boots \in 1..MaxBoots
  /\ request \in [1..Calls -> {NoRequest} \cup Request]
  /\ counters \in [Counted -> Nat]

(* The requests that were granted a read of id.                            *)
Granted(id) ==
  {c \in 1..Calls : /\ request[c].op = "unwrap" /\ request[c].id = id
                    /\ request[c].outcome \in {"ok", "tamper"}}

(* The reads that were asked for when id was issued.                        *)
Wraps(id) == {c \in 1..Calls : request[c].op = "wrap" /\ request[c].id = id}
Asked(id) == IF Wraps(id) = {} THEN 0 ELSE request[CHOOSE c \in Wraps(id) : TRUE].reads

(* One-time end to end: over all clients, responses and restarts, no secret *)
(* is served more often than its creator asked for.                         *)
ServedWithinBudget == \A id \in Ids : Cardinality(Granted(id)) <= Asked(id)

(* The tamper signal: a request answered "consumed" means that all the     *)
(* reads were granted, each to a request that can be named.  Every other    *)
(* answer of a miss is true as well, whenever it arrives: a secret called   *)
(* expired or revoked never had its last read, and an issued one is not     *)
(* found only if its evidence was forgotten or its process has ended.       *)
MissesHaveCause ==
  \A c \in 1..Calls :
    LET id == request[c].id IN
    /\ request[c].outcome = "consumed" => Cardinality(Granted(id)) = Asked(id)
    /\ request[c].outcome \in {"expired", "revoked"} => Cardinality(Granted(id)) < Asked(id)
    /\ request[c].outcome = "not_found" => id \in {Never} \cup forgotten \cup spent

(* Readers are told different numbers of reads remaining, and who is told   *)
(* that it was the final read had the last one, in whatever order the       *)
(* responses are made.                                                      *)
RemainingHonest ==
  \A id \in Ids : \A c, d \in {e \in Granted(id) : request[e].outcome = "ok"} :
    /\ c # d => request[c].left # request[d].left
    /\ request[c].left = 0 => Cardinality(Granted(id)) = Asked(id)

(* The counters and the requests between store and response explain the     *)
(* whole store: what was issued, read and revoked.  An alarm counted under  *)
(* a reason means that some secret ended that way.                          *)
Pending(op) == Cardinality({c \in 1..Calls :
  request[c].at = "handled" /\ request[c].op = op /\ request[c].outcome = "ok"})

(* The reads that are spent, numbered within their secret.                  *)
UsedUp == UNION {{id} \X (1..(Asked(id) - secret[id].left)) : id \in Issued}

CountersExplainStore ==
  /\ counters["wrap"] + Pending("wrap") = Cardinality(Issued)
  /\ counters["unwrap"] + counters["tamper"] + Pending("unwrap") = Cardinality(UsedUp)
  /\ counters["revoke"] + Pending("revoke") = Cardinality({id \in Issued : secret[id].revoked})
  /\ \A reason \in Reasons :
       counters[reason] > 0 => \E id \in Issued : Store!Fate(id) = reason

(* A server that exits with success has told its clients of everything it   *)
(* did: no secret was stored, read or revoked for a client that will never  *)
(* hear of it from the server.                                              *)
Told(id, op) ==
  {c \in 1..Calls : /\ request[c].op = op /\ request[c].id = id
                    /\ request[c].outcome \in {"ok", "tamper"}
                    /\ request[c].at \in {"answered", "delivered"}}

CleanExitOwesNothing ==
  [][server' = "stopped" =>
       \A id \in Issued :
         /\ Told(id, "wrap") # {}
         /\ Cardinality(Told(id, "unwrap")) = Asked(id) - secret[id].left
         /\ secret[id].revoked => Told(id, "revoke") # {}]_serviceVars

(* A signal ends the server, even if a handler never returns.               *)
ShutdownEnds == server = "draining" ~> server \in {"stopped", "failed"}
=============================================================================
