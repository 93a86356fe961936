----------------------------- MODULE ClientsProof -----------------------------
(***************************************************************************)
(* Proofs about Service and Clients, for any IDs, populations, number of    *)
(* calls and starts of the server, and any length of time.                  *)
(***************************************************************************)
EXTENDS Clients, FiniteSetTheorems, TLAPS

Wrappers == {"wrap", "split", "create", "create_split"}

(* The request that a command makes.                                       *)
OpOf(cmd) ==
  CASE cmd \in Wrappers -> "wrap"
    [] cmd \in {"unwrap", "combine", "click"} -> "unwrap"
    [] cmd \in {"peek", "load"} -> "peek"
    [] cmd = "revoke" -> "revoke"
    [] OTHER -> "none"

(* The IDs that this or an earlier process issued.                         *)
Used == Issued \cup spent

(* What a request is, and what its answer says of the store, now and for    *)
(* ever.                                                                   *)
Shaped(c) ==
  LET req == request[c] IN
  /\ req.at = "none" => req = NoRequest
  /\ call[c] = NoCall => req = NoRequest
  /\ req.at # "none" => req.op = OpOf(call[c].cmd)
  /\ req.at = "sent" => req.outcome = "pending"
  /\ req.op = "wrap" =>
       /\ req.outcome = "ok" => req.id \in Used
       /\ req.outcome # "ok" => req.id = Absent
       /\ req.outcome \in {"pending", "ok", "full", "limited", "bad_request"}
  /\ req.at # "none" /\ req.op # "wrap" =>
       /\ req.id = call[c].id
       /\ req.id \in Used \cup {Never, Malformed}
  /\ req.outcome \in {"ok", "tamper"} =>
       /\ req.id \in Used
       /\ req.at = "cut" => req.id \in spent
  /\ req.outcome = "tamper" => req.op = "unwrap"

Truthful(c) ==
  LET req == request[c] IN
  /\ req.outcome = "auth_fail" => req.id = Malformed
  /\ req.outcome = "not_found" => req.id \in {Never} \cup forgotten \cup spent
  /\ req.outcome \in Reasons => req.id \in Used /\ (req.id \in Issued => Store!Over(req.id))
  /\ req.outcome = "consumed" => Cardinality(Granted(req.id)) = Asked(req.id)
  /\ req.outcome \in {"expired", "revoked"} => Cardinality(Granted(req.id)) < Asked(req.id)
  /\ req.op = "revoke" /\ req.outcome = "ok" /\ req.id \in Issued => secret[req.id].revoked

(* The reads of a secret that were asked for, granted and are left; the     *)
(* later a read was granted, the fewer it was told are left.                *)
Budgeted(id) ==
  /\ \A c, d \in Wraps(id) : c = d
  /\ Cardinality(Granted(id)) <= Asked(id)
  /\ id \in Used => Wraps(id) # {}
  /\ id \in Issued => /\ Cardinality(Granted(id)) + secret[id].left = Asked(id)
                      /\ secret[id].revoked =>
                           \E c \in 1..Calls : /\ request[c].op = "revoke" /\ request[c].id = id
                                               /\ request[c].outcome = "ok"
  /\ \A c, d \in {e \in Granted(id) : request[e].outcome = "ok"} :
       /\ c # d => request[c].left # request[d].left
       /\ request[c].left = 0 => Cardinality(Granted(id)) = Asked(id)
       /\ id \in Issued => request[c].left >= secret[id].left

(* The store and the process.                                              *)
Housekeeping ==
  /\ Never \notin Used
  /\ Issued \cap spent = {}
  /\ ~Running => Issued = {}
  /\ \A id \in forgotten : Store!Over(id)
  /\ Cardinality({c \in 1..Calls : call[c].cmd \in Wrappers}) <= Cardinality(Ids \ {Never})

(* What a command knows and how it ends.                                   *)
Called(c) ==
  /\ call[c] # NoCall => \A d \in 1..(c - 1) : call[d] # NoCall
  /\ call[c].quorum
  /\ call[c].exit = "open" => request[c].at # "delivered"
  /\ request[c].at = "delivered" /\ request[c].op # "wrap" =>
       call[c].exit = goneExit(request[c].outcome)
  /\ call[c].exit \in {"gone", "not_found"} =>
       /\ request[c].at = "delivered" /\ request[c].op # "wrap"
  /\ request[c].at \notin {"none", "delivered"} => call[c].exit \in {"open", "error"}
  /\ \A id \in call[c].revoked :
       /\ id \in Used
       /\ id \in Issued => secret[id].revoked
       /\ c \notin Granted(id)

(* What was printed or shown.                                              *)
Outputs ==
  /\ tokens \subseteq Used \cup {Never}
  /\ shares \subseteq Used \X (1..NumShares)
  /\ \A c \in 1..Calls :
       request[c].at = "delivered" /\ request[c].op = "wrap" /\ request[c].outcome = "ok" =>
         /\ call[c].cmd \in {"wrap", "create"} => request[c].id \in tokens
         /\ call[c].cmd = "split" => AllShares(request[c].id) \subseteq shares
  /\ SplitCustody

(* The tab: there is one load, it was answered before the first click, and  *)
(* what the page says was said to one of its requests.                      *)
Clicked == {c \in 1..Calls : call[c].cmd = "click"}
Tabbed ==
  /\ tab \in [id : Ids \cup {Absent}, panels : SUBSET {"waiting", "revealed", "gone"},
              clicks : Nat, code : Outcomes \cup {"none"}]
  /\ \A c \in 1..Calls : call[c].cmd \in {"load", "click"} => call[c].id = tab.id /\ tab.id # Absent
  /\ \A c, d \in 1..Calls : call[c].cmd = "load" /\ call[d].cmd = "load" => c = d
  /\ tab.clicks = Cardinality(Clicked)
  /\ tab.clicks > 0 \/ "waiting" \in tab.panels =>
       \E c \in 1..Calls : /\ call[c].cmd = "load"
                           /\ request[c].at = "delivered" /\ request[c].outcome = "ok"
  /\ tab.code # "none" =>
       \E c \in 1..Calls : /\ call[c].cmd \in {"load", "click"}
                           /\ request[c].at = "delivered" /\ request[c].outcome = tab.code

CInv ==
  /\ TypeOK
  /\ \A c \in 1..Calls : Shaped(c) /\ Truthful(c) /\ Called(c)
  /\ \A id \in Ids : Budgeted(id)
  /\ Housekeeping
  /\ Outputs
  /\ Tabbed

----------------------------------------------------------------------------
(* Sets of calls and of IDs are finite.                                    *)
LEMMA CallSets ==
  ASSUME NEW S \in SUBSET (1..Calls)
  PROVE  IsFiniteSet(S) /\ Cardinality(S) \in Nat
<1>1. IsFiniteSet(1..Calls)
  BY CallsAssumption, FS_Interval
<1>2. QED
  BY <1>1, FS_Subset, FS_CardinalityType

(* So are sets of IDs.                                                     *)
LEMMA IdSets ==
  ASSUME NEW S \in SUBSET Ids
  PROVE  IsFiniteSet(S) /\ Cardinality(S) \in Nat
BY SecretAssumption, FS_Subset, FS_CardinalityType

(* The requests that the budget of a secret is about.                      *)
Grant(c) == request[c].op = "unwrap" /\ request[c].outcome \in {"ok", "tamper"}
Withdrawn(c) == request[c].op = "revoke" /\ request[c].outcome = "ok"
Concerns(c, id) ==
  request[c].id = id /\ (Grant(c) \/ request[c].op = "wrap" \/ Withdrawn(c))

SameReply(c) ==
  /\ request'[c].op = request[c].op /\ request'[c].id = request[c].id
  /\ request'[c].reads = request[c].reads
  /\ request'[c].outcome = request[c].outcome /\ request'[c].left = request[c].left

Tampered(c) ==
  /\ Grant(c) /\ request'[c].op = request[c].op /\ request'[c].id = request[c].id
  /\ request'[c].reads = request[c].reads /\ request'[c].outcome = "tamper"

(* What a step does to a request that changes no budget of the secret.      *)
Stays(c, id) == SameReply(c) \/ (~Concerns(c, id) /\ ~Concerns(c, id)') \/ Tampered(c)

(* The number of reads is that of the one request that issued the secret.   *)
LEMMA AskedIs ==
  ASSUME NEW id, NEW c \in Wraps(id), \A d \in Wraps(id) : d = c
  PROVE  Asked(id) = request[c].reads
BY DEF Asked

(* The same after a step.                                                  *)
LEMMA AskedNextIs ==
  ASSUME NEW id, NEW c \in Wraps(id)', \A d \in Wraps(id)' : d = c
  PROVE  Asked(id)' = request'[c].reads
BY DEF Asked

(* The wraps, and the number of reads, of a secret whose wraps stay.        *)
LEMMA WrapsStay ==
  ASSUME NEW id \in Ids, \A c, d \in Wraps(id) : c = d,
         \A c \in 1..Calls :
           \/ request'[c].op = request[c].op /\ request'[c].id = request[c].id
              /\ request'[c].reads = request[c].reads
           \/ c \notin Wraps(id) /\ c \notin Wraps(id)'
  PROVE  Wraps(id)' = Wraps(id) /\ Asked(id)' = Asked(id)
<1>1. Wraps(id)' = Wraps(id)
  BY DEF Wraps
<1>2. CASE Wraps(id) = {}
  BY <1>1, <1>2 DEF Asked
<1>3. CASE Wraps(id) # {}
  <2>1. PICK c \in Wraps(id) : \A d \in Wraps(id) : d = c
    BY <1>3
  <2>2. c \in Wraps(id)' /\ \A d \in Wraps(id)' : d = c
    BY <1>1, <2>1
  <2>3. request'[c].reads = request[c].reads
    BY <2>1, <2>2 DEF Wraps
  <2>4. QED
    BY <1>1, <2>1, <2>2, <2>3, AskedIs, AskedNextIs
<1>4. QED
  BY <1>2, <1>3

(* A step that changes no budget.                                          *)
LEMMA GrantsStay ==
  ASSUME NEW id \in Ids, Budgeted(id), \A c \in 1..Calls : Stays(c, id)
  PROVE  /\ Granted(id)' = Granted(id) /\ Wraps(id)' = Wraps(id)
         /\ Asked(id)' = Asked(id)
<1>1. Granted(id)' = Granted(id)
  BY DEF Granted, Stays, SameReply, Concerns, Tampered, Grant
<1>2. QED
  BY <1>1, WrapsStay
  DEF Budgeted, Stays, SameReply, Concerns, Tampered, Grant, Wraps

(* Nothing changes for the budget of a secret that a step leaves alone.    *)
LEMMA BudgetStays ==
  ASSUME NEW id \in Ids, Budgeted(id), \A c \in 1..Calls : Stays(c, id),
         id \in Used' => id \in Used,
         id \in Issued' => id \in Issued /\ secret'[id] = secret[id]
  PROVE  Budgeted(id)'
<1>1. /\ Granted(id)' = Granted(id) /\ Wraps(id)' = Wraps(id)
      /\ Asked(id)' = Asked(id)
  BY GrantsStay
<1>2. ASSUME NEW c \in Granted(id)', request'[c].outcome = "ok"
      PROVE  c \in Granted(id) /\ request[c].outcome = "ok" /\ request'[c].left = request[c].left
  BY <1>2 DEF Granted, Stays, SameReply, Concerns, Tampered, Grant
<1>3. ASSUME id \in Issued', secret'[id].revoked
      PROVE  \E c \in 1..Calls : /\ request'[c].op = "revoke" /\ request'[c].id = id
                                 /\ request'[c].outcome = "ok"
  BY <1>3 DEF Budgeted, Stays, SameReply, Concerns, Tampered, Grant, Withdrawn
<1>4. QED
  BY <1>1, <1>2, <1>3 DEF Budgeted

----------------------------------------------------------------------------
(* What is over stays over: the ways in which a step may change the store.  *)
StoreForward ==
  /\ Used \subseteq Used' /\ spent \subseteq spent'
  /\ \A id \in Used : id \in Issued' => id \in Issued
  /\ \A id \in Issued \cap Issued' : /\ Store!Over(id) => Store!Over(id)'
                                     /\ secret[id].revoked => secret'[id].revoked
  /\ forgotten \subseteq forgotten' \cup spent'

(* No read of a secret that is over is granted.                            *)
Settled(id) == id \in Used /\ (id \in Issued => Store!Over(id))
GrantsForward ==
  \A id \in Ids : Settled(id) => Granted(id)' = Granted(id) /\ Asked(id)' = Asked(id)

(* The IDs that were issued are IDs of the model.                          *)
LEMMA UsedIds == TypeOK => Issued \subseteq Ids /\ Used \subseteq Ids
BY DEF TypeOK, ServiceTypeOK, Used, Issued

(* A request that a step leaves alone keeps its shape.                     *)
LEMMA ShapedStays ==
  ASSUME NEW c \in 1..Calls, Shaped(c), call'[c] = call[c], request'[c] = request[c],
         StoreForward
  PROVE  Shaped(c)'
BY DEF Shaped, StoreForward

(* An answer that was true stays true.                                     *)
LEMMA TruthfulStays ==
  ASSUME TypeOK, NEW c \in 1..Calls, Shaped(c), Truthful(c), SameReply(c) \/ Tampered(c),
         StoreForward, GrantsForward
  PROVE  Truthful(c)'
<1>1. CASE Tampered(c)
  BY <1>1 DEF Truthful, Tampered, Grant, Reasons
<1>2. CASE SameReply(c)
  <2>1. PICK id : id = request[c].id
    OBVIOUS
  <2>2. /\ request'[c].id = id /\ request'[c].op = request[c].op
        /\ request'[c].outcome = request[c].outcome
    BY <1>2, <2>1 DEF SameReply
  <2>3. ASSUME request[c].outcome \in Reasons
        PROVE  /\ id \in Used' /\ (id \in Issued' => Store!Over(id)')
               /\ Granted(id)' = Granted(id) /\ Asked(id)' = Asked(id)
    <3>1. id \in Ids /\ id \in Used /\ Settled(id)
      BY <2>1, <2>3, UsedIds DEF Truthful, Settled
    <3>2. QED
      BY <3>1 DEF Settled, StoreForward, GrantsForward
  <2>4. request[c].outcome = "not_found" => id \in {Never} \cup forgotten' \cup spent'
    BY <2>1 DEF Truthful, StoreForward
  <2>5. ASSUME request[c].op = "revoke", request[c].outcome = "ok", id \in Issued'
        PROVE  secret'[id].revoked
    <3>1. id \in Issued
      BY <2>1, <2>5 DEF Shaped, StoreForward
    <3>2. secret[id].revoked
      BY <2>1, <2>5, <3>1 DEF Truthful
    <3>3. QED
      BY <2>5, <3>1, <3>2 DEF StoreForward
  <2>6. QED
    BY <2>1, <2>2, <2>3, <2>4, <2>5 DEF Truthful, Reasons
<1>3. QED
  BY <1>1, <1>2

----------------------------------------------------------------------------
(* The client side of a step of the server: nobody hears of it yet, no      *)
(* token that someone has is issued again, and no request that was begun    *)
(* after a confirmed revocation is granted the secret.                      *)
ServerSide ==
  /\ UNCHANGED clientVars
  /\ \A c \in 1..Calls :
       /\ request'[c].at = "delivered" <=> request[c].at = "delivered"
       /\ request[c].at = "delivered" => request'[c] = request[c]
       /\ request'[c].at # "none" => request[c].at # "none"
       /\ request'[c].id = request[c].id \/ request'[c].id \notin Used \cup {Never}
       /\ \A id \in call[c].revoked : c \in Granted(id)' => c \in Granted(id)

(* A command's knowledge outlives the steps of the server.                 *)
LEMMA CalledStays ==
  ASSUME NEW c \in 1..Calls, Called(c), StoreForward, ServerSide
  PROVE  Called(c)'
<1>1. call' = call
  BY DEF ServerSide, clientVars
<1>2. ASSUME NEW id \in call[c].revoked
      PROVE  id \in Used' /\ (id \in Issued' => secret'[id].revoked) /\ c \notin Granted(id)'
  <2>1. id \in Used /\ (id \in Issued => secret[id].revoked) /\ c \notin Granted(id)
    BY DEF Called
  <2>2. id \in Used' /\ c \notin Granted(id)'
    BY <2>1 DEF StoreForward, ServerSide
  <2>3. ASSUME id \in Issued' PROVE secret'[id].revoked
    <3>1. id \in Issued /\ secret[id].revoked
      BY <2>1, <2>3 DEF StoreForward
    <3>2. QED
      BY <2>3, <3>1 DEF StoreForward
  <2>4. QED
    BY <2>2, <2>3
<1>3. /\ request'[c].at = "delivered" <=> request[c].at = "delivered"
      /\ request[c].at = "delivered" => request'[c] = request[c]
      /\ request'[c].at # "none" => request[c].at # "none"
  BY DEF ServerSide
<1>4. \A d \in 1..(c - 1) : call'[d] = call[d]
  BY <1>1
<1>5. QED
  BY <1>1, <1>2, <1>3, <1>4 DEF Called

(* What was printed stays true under the steps of the server.              *)
LEMMA OutputsStay ==
  ASSUME TypeOK, Outputs, Housekeeping, \A c \in 1..Calls : Shaped(c),
         StoreForward, ServerSide
  PROVE  Outputs'
<1>1. UNCHANGED <<call, tokens, shares>>
  BY DEF ServerSide, clientVars
<1>2. /\ tokens' \subseteq Used' \cup {Never}
      /\ shares' \subseteq Used' \X (1..NumShares)
  BY <1>1 DEF Outputs, StoreForward
<1>3. ASSUME NEW c \in 1..Calls,
             request'[c].at = "delivered", request'[c].op = "wrap", request'[c].outcome = "ok"
      PROVE  /\ call'[c].cmd \in {"wrap", "create"} => request'[c].id \in tokens'
             /\ call'[c].cmd = "split" => AllShares(request'[c].id) \subseteq shares'
  <2>1. request'[c] = request[c]
    BY <1>3 DEF ServerSide
  <2>2. QED
    BY <1>1, <1>3, <2>1 DEF Outputs
<1>4. SplitCustody'
  <2> SUFFICES ASSUME NEW c \in 1..Calls, call[c].cmd \in {"split", "create_split"},
                      request'[c].id \in tokens
               PROVE  /\ \E d \in (c + 1)..Calls : call[d].cmd = "print" /\ call[d].id = request'[c].id
                      /\ Reassembled(request'[c].id)
    BY <1>1 DEF SplitCustody, Reassembled
  <2>1. request'[c].id = request[c].id
    BY DEF ServerSide, Outputs
  <2>2. QED
    BY <2>1 DEF Outputs, SplitCustody
<1>5. QED
  BY <1>1, <1>2, <1>3, <1>4 DEF Outputs, AllShares

(* The tab does not see the steps of the server.                           *)
LEMMA TabStays ==
  ASSUME Tabbed, ServerSide
  PROVE  Tabbed'
<1>1. UNCHANGED <<call, tab>>
  BY DEF ServerSide, clientVars
<1>2. Clicked' = Clicked
  BY <1>1 DEF Clicked
<1>3. \A c \in 1..Calls : request[c].at = "delivered" => request'[c] = request[c]
  BY DEF ServerSide
<1>4. QED
  BY <1>1, <1>2, <1>3 DEF Tabbed

(* What remains to be shown of a step of the server.                       *)
LEMMA ServerStep ==
  ASSUME CInv, TypeOK', ServerSide, StoreForward, Housekeeping',
         \A c \in 1..Calls : Shaped(c)' /\ Truthful(c)',
         \A id \in Ids : Budgeted(id)'
  PROVE  CInv'
<1>1. \A c \in 1..Calls : Called(c)'
  BY CalledStays DEF CInv
<1>2. Outputs' /\ Tabbed'
  BY OutputsStay, TabStays DEF CInv
<1>3. QED
  BY <1>1, <1>2 DEF CInv

----------------------------------------------------------------------------
(* The reply that a handler got from the store.                            *)
LEMMA HandledRequest ==
  ASSUME TypeOK, NEW c \in 1..Calls, request[c].at = "sent",
         NEW id \in Ids \cup {Malformed, Absent}, NEW outcome \in Outcomes, NEW left \in Nat,
         Handled(c, id, outcome, left)
  PROVE  /\ UNCHANGED <<server, boots, spent, counters>>
         /\ request' \in [1..Calls -> {NoRequest} \cup Request]
         /\ request[c] \in Request
         /\ request'[c].at = "handled" /\ request'[c].op = request[c].op
         /\ request'[c].id = id /\ request'[c].reads = request[c].reads
         /\ request'[c].outcome = outcome /\ request'[c].left = left
         /\ \A d \in 1..Calls \ {c} : request'[d] = request[d]
<1>1. request \in [1..Calls -> {NoRequest} \cup Request]
  BY DEF TypeOK, ServiceTypeOK
<1>2. request[c] \in Request
  BY <1>1 DEF NoRequest
<1>3. request' = [request EXCEPT ![c] =
        [request[c] EXCEPT !.at = "handled", !.id = id, !.outcome = outcome, !.left = left]]
  BY DEF Handled
<1> DEFINE rep == [request[c] EXCEPT !.at = "handled", !.id = id, !.outcome = outcome, !.left = left]
<1>4. /\ rep \in Request /\ rep.at = "handled" /\ rep.op = request[c].op
      /\ rep.id = id /\ rep.reads = request[c].reads
      /\ rep.outcome = outcome /\ rep.left = left
  BY <1>2 DEF Request
<1> HIDE DEF rep
<1>5. request'[c] = rep /\ \A d \in 1..Calls \ {c} : request'[d] = request[d]
  BY <1>1, <1>3 DEF rep
<1>6. request' \in [1..Calls -> {NoRequest} \cup Request]
  BY <1>1, <1>3, <1>4 DEF rep
<1>7. QED
  BY <1>2, <1>4, <1>5, <1>6 DEF Handled, Elsewhere

(* A step during which the store rests.                                    *)
LEMMA StoreIdle ==
  ASSUME UNCHANGED <<now, secret, forgotten, spent>>
  PROVE  /\ StoreForward /\ Issued' = Issued /\ Used' = Used
         /\ \A id : Store!Over(id)' <=> Store!Over(id)
<1>1. Issued' = Issued
  BY DEF Issued, Store!Issued
<1>2. Used' = Used
  BY <1>1 DEF Used
<1>3. \A id : Store!Over(id)' <=> Store!Over(id)
  BY DEF Store!Over, Store!Issued, Store!Fate
<1>4. QED
  BY <1>1, <1>2, <1>3 DEF StoreForward

(* A reply other than a wrap, a read or a revocation that took place.       *)
Denial(c, outcome) ==
  LET id == request[c].id IN
  /\ request[c].op = "wrap" => outcome \in {"full", "limited", "bad_request"}
  /\ outcome = "ok" => request[c].op = "peek" /\ id \in Used
  /\ outcome # "tamper"
  /\ outcome = "auth_fail" => id = Malformed
  /\ outcome = "not_found" => id \in {Never} \cup forgotten \cup spent
  /\ outcome \in Reasons => /\ id \in Issued /\ Store!Over(id)
                            /\ outcome = "consumed" <=> secret[id].left = 0

(* The invariant outlives an answer that leaves the store as it is.        *)
LEMMA DenialStep ==
  ASSUME CInv, NEW c \in 1..Calls, request[c].at = "sent",
         NEW outcome \in Outcomes, NEW left \in Nat, Denial(c, outcome),
         Handled(c, request[c].id, outcome, left),
         UNCHANGED <<now, secret, forgotten>>, UNCHANGED clientVars
  PROVE  CInv'
<1>1. PICK id \in Ids \cup {Malformed, Absent} : request[c].id = id
  BY DEF CInv, TypeOK, ServiceTypeOK, Request, NoRequest
<1>2. TypeOK
  BY DEF CInv
<1>3. /\ UNCHANGED <<server, boots, spent, counters>>
      /\ request' \in [1..Calls -> {NoRequest} \cup Request]
      /\ request'[c].at = "handled" /\ request'[c].op = request[c].op
      /\ request'[c].id = id /\ request'[c].reads = request[c].reads
      /\ request'[c].outcome = outcome /\ request'[c].left = left
      /\ \A d \in 1..Calls \ {c} : request'[d] = request[d]
  BY <1>1, <1>2, HandledRequest
<1>4. StoreForward /\ Issued' = Issued /\ Used' = Used /\ \A i : Store!Over(i)' <=> Store!Over(i)
  BY <1>3, StoreIdle
<1>5. TypeOK'
  BY <1>2, <1>3 DEF TypeOK, ServiceTypeOK, clientVars
<1>6. ASSUME NEW d \in 1..Calls, NEW i \in Ids PROVE Stays(d, i)
  <2>1. CASE d = c
    <3>1. request[c].outcome = "pending" /\ (request[c].op = "wrap" => request[c].id = Absent)
      BY DEF CInv, Shaped
    <3>2. ~Concerns(c, i)
      BY <3>1, NeverAssumption DEF Concerns, Grant, Withdrawn
    <3>3. ~Concerns(c, i)'
      BY <1>1, <1>3, <3>1, NeverAssumption DEF Denial, Concerns, Grant, Withdrawn
    <3>4. QED
      BY <2>1, <3>2, <3>3 DEF Stays
  <2>2. CASE d # c
    BY <1>3, <2>2 DEF Stays, SameReply
  <2>3. QED
    BY <2>1, <2>2
<1>7. \A i \in Ids : Granted(i)' = Granted(i) /\ Wraps(i)' = Wraps(i) /\ Asked(i)' = Asked(i)
  BY <1>6, GrantsStay DEF CInv
<1>8. \A i \in Ids : Budgeted(i)'
  BY <1>3, <1>4, <1>6, BudgetStays DEF CInv
<1>9. ServerSide
  <2>1. ASSUME NEW d \in 1..Calls
        PROVE  \A i \in call[d].revoked : d \in Granted(i)' => d \in Granted(i)
    BY <1>2, <1>7 DEF TypeOK, NoCall, Call
  <2>2. QED
    BY <1>1, <1>3, <2>1 DEF ServerSide
<1>10. Housekeeping'
  BY <1>3, <1>4 DEF CInv, Housekeeping, Running, clientVars
<1>11. ASSUME NEW d \in 1..Calls PROVE Shaped(d)' /\ Truthful(d)'
  <2>1. CASE d # c
    <3>1. request'[d] = request[d] /\ SameReply(d) /\ call'[d] = call[d]
      BY <1>3, <2>1 DEF SameReply, clientVars
    <3>2. QED
      BY <1>2, <1>4, <1>7, <3>1, ShapedStays, TruthfulStays DEF CInv, GrantsForward
  <2>2. CASE d = c
    <3>1. Shaped(c)'
      BY <1>1, <1>3, <1>4, NeverAssumption DEF CInv, Shaped, Denial, clientVars, NoRequest
    <3>2. ASSUME outcome \in Reasons
          PROVE  /\ id \in Used /\ Store!Over(id)
                 /\ outcome = "consumed" => Cardinality(Granted(id)) = Asked(id)
                 /\ outcome # "consumed" => Cardinality(Granted(id)) < Asked(id)
      <4>1. id \in Issued /\ Store!Over(id) /\ id \in Ids /\ (outcome = "consumed" <=> secret[id].left = 0)
        BY <1>1, <3>2 DEF Denial, Issued
      <4>2. secret[id].left \in Nat
        BY <1>2, <4>1 DEF TypeOK, ServiceTypeOK, Issued, Store!Issued
      <4>3. Cardinality(Granted(id)) \in Nat
        BY CallSets DEF Granted
      <4>4. Cardinality(Granted(id)) + secret[id].left = Asked(id)
        BY <4>1 DEF CInv, Budgeted
      <4>5. QED
        BY <4>1, <4>2, <4>3, <4>4 DEF Used
    <3>3. Truthful(c)'
      <4>1. outcome \in Reasons => Granted(id)' = Granted(id) /\ Asked(id)' = Asked(id)
        BY <1>2, <1>7, <3>2, UsedIds
      <4>2. /\ outcome = "auth_fail" => id = Malformed
            /\ outcome = "not_found" => id \in {Never} \cup forgotten' \cup spent'
            /\ ~(request'[c].op = "revoke" /\ outcome = "ok")
        BY <1>1, <1>3 DEF Denial
      <4>3. QED
        BY <1>3, <1>4, <3>2, <4>1, <4>2 DEF Truthful, Reasons
    <3>4. QED
      BY <2>2, <3>1, <3>3
  <2>3. QED
    BY <2>1, <2>2
<1>12. QED
  BY <1>4, <1>5, <1>8, <1>9, <1>10, <1>11, ServerStep

----------------------------------------------------------------------------
Wrapped(c) == request[c].op = "wrap" /\ request[c].id \in Ids

(* IDs never run out: as many are used as requests for one were granted,    *)
(* and no more are ever made than there are IDs.                            *)
LEMMA FreshExists ==
  ASSUME CInv, NEW c \in 1..Calls, request[c].at = "sent", request[c].op = "wrap"
  PROVE  FreshId \in Ids /\ FreshId \notin Used \cup {Never}
<1> DEFINE W == {d \in 1..Calls : call[d].cmd \in Wrappers}
           D == {d \in 1..Calls : Wrapped(d)}
           f == [d \in D |-> request[d].id]
<1>1. IsFiniteSet(W) /\ Cardinality(W) \in Nat /\ IsFiniteSet(D) /\ Cardinality(D) \in Nat
  BY CallSets
<1>2. c \in W \ D
  <2>1. call[c].cmd \in Wrappers
    BY DEF CInv, Shaped, OpOf
  <2>2. request[c].id = Absent
    BY DEF CInv, Shaped
  <2>3. QED
    BY <2>1, <2>2, NeverAssumption DEF Wrapped
<1>3. D \subseteq W \ {c}
  <2>1. ASSUME NEW d \in D PROVE call[d].cmd \in Wrappers
    BY DEF CInv, Shaped, OpOf, Wrapped, NoRequest
  <2>2. QED
    BY <1>2, <2>1
<1>4. Cardinality(D) <= Cardinality(W) - 1
  <2>1. IsFiniteSet(W \ {c}) /\ Cardinality(W \ {c}) = Cardinality(W) - 1
    BY <1>1, <1>2, FS_RemoveElement
  <2>2. QED
    BY <1>3, <2>1, FS_Subset
<1>5. f \in Surjection(D, Used)
  <2>1. f \in [D -> Used]
    <3>1. ASSUME NEW d \in D PROVE request[d].id \in Used
      BY NeverAssumption DEF CInv, Shaped, Wrapped
    <3>2. QED
      BY <3>1
  <2>2. ASSUME NEW id \in Used PROVE \E d \in D : f[d] = id
    BY UsedIds DEF CInv, Budgeted, Wraps, Wrapped
  <2>3. QED
    BY <2>1, <2>2 DEF Surjection
<1>6. Cardinality(Used) <= Cardinality(D)
  BY <1>1, <1>5, FS_Surjection
<1>7. Used \in SUBSET (Ids \ {Never}) /\ Cardinality(Used) \in Nat
  BY UsedIds, IdSets DEF CInv, Housekeeping
<1>8. Cardinality(Ids \ {Never}) \in Nat /\ Cardinality(W) <= Cardinality(Ids \ {Never})
  BY IdSets DEF CInv, Housekeeping
<1>9. Used # Ids \ {Never}
  BY <1>1, <1>4, <1>6, <1>7, <1>8
<1>10. \E id : id \in Ids \ (Issued \cup spent \cup {Never})
  BY <1>7, <1>9 DEF Used
<1>11. QED
  BY <1>10 DEF FreshId, Used

(* What is known of the life of a secret that a step does not touch.        *)
LEMMA FateStays ==
  ASSUME NEW id, secret'[id] = secret[id], now' = now
  PROVE  Store!Over(id)' <=> Store!Over(id)
BY DEF Store!Over, Store!Issued, Store!Fate

(* A secret is stored: the request becomes the one that issued it.          *)
LEMMA IssueStep ==
  ASSUME CInv, NEW c \in 1..Calls, request[c].at = "sent", request[c].op = "wrap", Running,
         Store!Issue(FreshId), secret'[FreshId].left = request[c].reads,
         Handled(c, FreshId, "ok", 0), UNCHANGED clientVars
  PROVE  CInv'
<1>1. PICK id \in Ids : id = FreshId /\ id \notin Used \cup {Never}
  BY FreshExists
<1>2. TypeOK
  BY DEF CInv
<1>3. /\ UNCHANGED <<server, boots, spent, counters>>
      /\ request' \in [1..Calls -> {NoRequest} \cup Request]
      /\ request[c] \in Request
      /\ request'[c].at = "handled" /\ request'[c].op = "wrap"
      /\ request'[c].id = id /\ request'[c].reads = request[c].reads
      /\ request'[c].outcome = "ok" /\ request'[c].left = 0
      /\ \A d \in 1..Calls \ {c} : request'[d] = request[d]
  BY <1>1, <1>2, HandledRequest DEF Outcomes
<1>4. PICK ttl \in TTLs, reads \in ReadCounts :
        secret' = [secret EXCEPT ![id] =
          [left |-> reads, deadline |-> now + ttl, revoked |-> FALSE]]
  BY <1>1 DEF Store!Issue
<1>5. UNCHANGED <<now, forgotten>>
  BY DEF Store!Issue
<1>6. /\ secret'[id] = [left |-> request[c].reads, deadline |-> now + ttl, revoked |-> FALSE]
      /\ secret'[id] \in [left : Nat, deadline : Nat, revoked : BOOLEAN]
      /\ \A j \in Ids \ {id} : secret'[j] = secret[j]
  <2>1. secret'[id] = [left |-> reads, deadline |-> now + ttl, revoked |-> FALSE]
    BY <1>2, <1>4 DEF TypeOK, ServiceTypeOK
  <2>2. reads = request[c].reads /\ reads \in Nat
    BY <1>1, <1>3, <2>1 DEF Request
  <2>3. now + ttl \in Nat
    BY <1>2, SecretAssumption DEF TypeOK, ServiceTypeOK
  <2>4. QED
    BY <1>2, <1>4, <2>1, <2>2, <2>3 DEF TypeOK, ServiceTypeOK
<1>7. Issued' = Issued \cup {id} /\ Used' = Used \cup {id}
  <2>1. Issued' = Issued \cup {id}
    BY <1>6, SecretAssumption DEF Issued, Store!Issued
  <2>2. QED
    BY <1>3, <2>1 DEF Used
<1>8. \A j \in Ids \ {id} : Store!Over(j)' <=> Store!Over(j)
  BY <1>5, <1>6, FateStays
<1>9. StoreForward
  BY <1>1, <1>2, <1>3, <1>5, <1>6, <1>7, <1>8, UsedIds DEF StoreForward, Used
<1>10. TypeOK'
  <2>1. secret' \in [Ids -> {Absent} \cup [left : Nat, deadline : Nat, revoked : BOOLEAN]]
    BY <1>2, <1>4, <1>6 DEF TypeOK, ServiceTypeOK
  <2>2. QED
    BY <1>2, <1>3, <1>5, <2>1 DEF TypeOK, ServiceTypeOK, clientVars
<1>11. ASSUME NEW d \in 1..Calls, NEW j \in Ids \ {id} PROVE Stays(d, j)
  <2>1. CASE d = c
    <3>1. request[c].id = Absent
      BY DEF CInv, Shaped
    <3>2. QED
      BY <1>3, <2>1, <3>1, NeverAssumption DEF Stays, Concerns
  <2>2. CASE d # c
    BY <1>3, <2>2 DEF Stays, SameReply
  <2>3. QED
    BY <2>1, <2>2
<1>12. ASSUME NEW j \in Ids \ {id} PROVE Budgeted(j)'
  <2>1. j \in Used' => j \in Used
    BY <1>7
  <2>2. j \in Issued' => j \in Issued /\ secret'[j] = secret[j]
    BY <1>6, <1>7
  <2>3. QED
    BY <1>11, <2>1, <2>2, BudgetStays DEF CInv
<1>13. Granted(id) = {} /\ Granted(id)' = {} /\ Wraps(id)' = {c}
  <2>1. ASSUME NEW d \in 1..Calls, request[d].id = id
        PROVE  request[d].op # "wrap" /\ request[d].outcome \notin {"ok", "tamper"}
    BY <1>1, <2>1, NeverAssumption DEF CInv, Shaped
  <2>2. QED
    BY <1>3, <2>1 DEF Granted, Wraps
<1>14. Asked(id)' = request[c].reads /\ request[c].reads \in Nat
  <2>1. c \in Wraps(id)' /\ \A d \in Wraps(id)' : d = c
    BY <1>13
  <2>2. Asked(id)' = request'[c].reads
    BY <2>1, AskedNextIs
  <2>3. QED
    BY <1>3, <2>2 DEF Request
<1>15. Budgeted(id)'
  <2>1. Cardinality(Granted(id)') = 0
    BY <1>13, FS_EmptySet
  <2>2. /\ Cardinality(Granted(id)') <= Asked(id)'
        /\ Cardinality(Granted(id)') + secret'[id].left = Asked(id)'
    BY <1>6, <1>14, <2>1
  <2>3. ~secret'[id].revoked
    BY <1>6
  <2>4. QED
    BY <1>13, <2>2, <2>3 DEF Budgeted
<1>16. GrantsForward
  BY <1>1, <1>11, GrantsStay DEF GrantsForward, Settled, CInv
<1>17. ServerSide
  <2>1. ASSUME NEW d \in 1..Calls
        PROVE  \A i \in call[d].revoked : d \in Granted(i)' => d \in Granted(i)
    <3>1. call[d].revoked \subseteq Ids
      BY <1>2 DEF TypeOK, NoCall, Call
    <3>2. \A i \in Ids : Granted(i)' = Granted(i)
      BY <1>11, <1>13, GrantsStay DEF CInv
    <3>3. QED
      BY <3>1, <3>2
  <2>2. QED
    BY <1>1, <1>3, <2>1 DEF ServerSide
<1>18. Housekeeping'
  <2>1. Issued' \cap spent' = {} /\ Never \notin Used'
    BY <1>1, <1>3, <1>7 DEF CInv, Housekeeping, Used
  <2>2. \A j \in forgotten' : Store!Over(j)'
    <3>1. \A j \in forgotten : j \in Ids /\ Store!Over(j) /\ j # id
      BY <1>1, <1>2 DEF CInv, TypeOK, ServiceTypeOK, Housekeeping, Used, Issued, Store!Over
    <3>2. QED
      BY <1>5, <1>8, <3>1
  <2>3. Running'
    BY <1>3 DEF Running
  <2>4. call' = call
    BY DEF clientVars
  <2>5. QED
    BY <2>1, <2>2, <2>3, <2>4 DEF CInv, Housekeeping
<1>19. ASSUME NEW d \in 1..Calls PROVE Shaped(d)' /\ Truthful(d)'
  <2>1. CASE d # c
    <3>1. request'[d] = request[d] /\ SameReply(d) /\ call'[d] = call[d]
      BY <1>3, <2>1 DEF SameReply, clientVars
    <3>2. QED
      BY <1>2, <1>9, <1>16, <3>1, ShapedStays, TruthfulStays DEF CInv
  <2>2. CASE d = c
    <3>1. call'[c] = call[c] /\ request[c] # NoRequest
      BY DEF clientVars, NoRequest
    <3>2. Shaped(c)'
      BY <1>3, <1>7, <3>1 DEF CInv, Shaped
    <3>3. Truthful(c)'
      BY <1>3 DEF Truthful, Reasons
    <3>4. QED
      BY <2>2, <3>2, <3>3
  <2>3. QED
    BY <2>1, <2>2
<1>20. \A j \in Ids : Budgeted(j)'
  BY <1>12, <1>15
<1>21. QED
  BY <1>9, <1>10, <1>17, <1>18, <1>19, <1>20, ServerStep

(* What the store keeps of an issued secret.                               *)
LEMMA SecretType ==
  ASSUME TypeOK, NEW id \in Ids, id \in Issued
  PROVE  secret[id] \in [left : Nat, deadline : Nat, revoked : BOOLEAN]
BY DEF TypeOK, ServiceTypeOK, Issued, Store!Issued

(* The requests that a step leaves alone.                                  *)
LEMMA OthersStay ==
  ASSUME CInv, NEW d \in 1..Calls, request'[d] = request[d], UNCHANGED clientVars,
         StoreForward, GrantsForward
  PROVE  Shaped(d)' /\ Truthful(d)'
<1>1. SameReply(d) /\ call'[d] = call[d] /\ TypeOK
  BY DEF SameReply, clientVars, CInv
<1>2. QED
  BY <1>1, ShapedStays, TruthfulStays DEF CInv

(* A read is granted: one less is left, and the reader is told so.          *)
LEMMA ReadStep ==
  ASSUME CInv, NEW c \in 1..Calls, request[c].at = "sent", request[c].op = "unwrap",
         NEW id \in Ids, request[c].id = id, Running,
         AtOnce, Store!Read(id), Handled(c, id, "ok", secret'[id].left), UNCHANGED clientVars
  PROVE  CInv'
<1>1. TypeOK
  BY DEF CInv
<1>2. /\ id \in Issued /\ ~Store!Over(id)
      /\ secret[id] \in [left : Nat, deadline : Nat, revoked : BOOLEAN]
      /\ secret[id].left # 0 /\ ~secret[id].revoked
  <2>1. id \in Issued /\ Store!Fate(id) = "live"
    BY DEF Store!Read, Store!Readable, Issued
  <2>2. secret[id].left # 0 /\ ~secret[id].revoked
    BY <2>1 DEF Store!Fate
  <2>3. QED
    BY <1>1, <2>1, <2>2, SecretType DEF Store!Over
<1>3. /\ secret'[id] = [secret[id] EXCEPT !.left = @ - 1]
      /\ \A j \in Ids \ {id} : secret'[j] = secret[j]
      /\ secret' \in [Ids -> {Absent} \cup [left : Nat, deadline : Nat, revoked : BOOLEAN]]
      /\ UNCHANGED <<now, forgotten>>
  <2>1. secret' = [secret EXCEPT ![id] = [secret[id] EXCEPT !.left = @ - 1]]
    BY <1>1 DEF Store!Read, TypeOK, ServiceTypeOK
  <2>2. [secret[id] EXCEPT !.left = @ - 1] \in [left : Nat, deadline : Nat, revoked : BOOLEAN]
    BY <1>2
  <2>3. QED
    BY <1>1, <2>1, <2>2 DEF TypeOK, ServiceTypeOK, AtOnce
<1>4. /\ secret'[id].left = secret[id].left - 1 /\ secret'[id].left \in Nat
      /\ secret'[id].revoked = secret[id].revoked /\ secret'[id] # Absent
  BY <1>2, <1>3, SecretAssumption
<1>5. /\ UNCHANGED <<server, boots, spent, counters>>
      /\ request' \in [1..Calls -> {NoRequest} \cup Request]
      /\ request'[c].at = "handled" /\ request'[c].op = "unwrap"
      /\ request'[c].id = id /\ request'[c].reads = request[c].reads
      /\ request'[c].outcome = "ok" /\ request'[c].left = secret'[id].left
      /\ \A d \in 1..Calls \ {c} : request'[d] = request[d]
  <2>1. PICK left \in Nat : left = secret'[id].left
    BY <1>4
  <2>2. Handled(c, id, "ok", left)
    BY <2>1 DEF Handled
  <2>3. id \in Ids \cup {Malformed, Absent} /\ "ok" \in Outcomes
    BY DEF Outcomes
  <2>4. /\ UNCHANGED <<server, boots, spent, counters>>
        /\ request' \in [1..Calls -> {NoRequest} \cup Request]
        /\ request'[c].at = "handled" /\ request'[c].op = request[c].op
        /\ request'[c].id = id /\ request'[c].reads = request[c].reads
        /\ request'[c].outcome = "ok" /\ request'[c].left = left
        /\ \A d \in 1..Calls \ {c} : request'[d] = request[d]
    BY <1>1, <2>2, <2>3, HandledRequest
  <2>5. QED
    BY <2>1, <2>4
<1>6. Issued' = Issued /\ Used' = Used
  <2>1. Issued' = Issued
    BY <1>2, <1>3, <1>4 DEF Issued, Store!Issued
  <2>2. QED
    BY <1>5, <2>1 DEF Used
<1>7. \A j \in Ids \ {id} : Store!Over(j)' <=> Store!Over(j)
  BY <1>3, FateStays
<1>8. StoreForward
  BY <1>1, <1>2, <1>3, <1>4, <1>5, <1>6, <1>7, UsedIds DEF StoreForward
<1>9. TypeOK'
  BY <1>1, <1>3, <1>5 DEF TypeOK, ServiceTypeOK, clientVars
<1>10. ASSUME NEW j \in Ids \ {id}
       PROVE  Budgeted(j)' /\ Granted(j)' = Granted(j) /\ Asked(j)' = Asked(j)
  <2>1. \A d \in 1..Calls : Stays(d, j)
    BY <1>5 DEF Stays, SameReply, Concerns
  <2>2. j \in Issued' => j \in Issued /\ secret'[j] = secret[j]
    BY <1>3, <1>6
  <2>3. QED
    BY <1>6, <2>1, <2>2, GrantsStay, BudgetStays DEF CInv
<1>11. /\ request[c].outcome = "pending"
       /\ Granted(id)' = Granted(id) \cup {c} /\ c \notin Granted(id)
       /\ Cardinality(Granted(id)') = Cardinality(Granted(id)) + 1
       /\ Cardinality(Granted(id)) \in Nat
  <2>1. request[c].outcome = "pending"
    BY DEF CInv, Shaped
  <2>2. c \notin Granted(id)
    BY <2>1 DEF Granted
  <2>3. Granted(id)' = Granted(id) \cup {c}
    BY <1>5 DEF Granted
  <2>4. IsFiniteSet(Granted(id)) /\ Cardinality(Granted(id)) \in Nat
    BY CallSets DEF Granted
  <2>5. QED
    BY <2>1, <2>2, <2>3, <2>4, FS_AddElement
<1>12. Wraps(id)' = Wraps(id) /\ Asked(id)' = Asked(id)
  <2>1. \A d, e \in Wraps(id) : d = e
    BY DEF CInv, Budgeted
  <2>2. c \notin Wraps(id) /\ c \notin Wraps(id)'
    BY <1>5 DEF Wraps
  <2>3. \A d \in 1..Calls :
          \/ request'[d].op = request[d].op /\ request'[d].id = request[d].id
             /\ request'[d].reads = request[d].reads
          \/ d \notin Wraps(id) /\ d \notin Wraps(id)'
    BY <1>5, <2>2
  <2>4. QED
    BY <2>1, <2>3, WrapsStay
<1>13. Budgeted(id)'
  <2>1. Budgeted(id) /\ Cardinality(Granted(id)) + secret[id].left = Asked(id)
    BY <1>2 DEF CInv, Budgeted
  <2>2. Cardinality(Granted(id)') + secret'[id].left = Asked(id)'
    BY <1>2, <1>4, <1>11, <1>12, <2>1
  <2>3. Cardinality(Granted(id)') <= Asked(id)'
    BY <1>4, <1>11, <2>2
  <2>4. ASSUME NEW d \in Granted(id)', request'[d].outcome = "ok"
        PROVE  /\ request'[d].left >= secret'[id].left
               /\ request'[d].left = 0 => Cardinality(Granted(id)') = Asked(id)'
               /\ d # c => /\ request'[d].left # secret'[id].left
                           /\ d \in Granted(id) /\ request'[d] = request[d]
    <3>1. CASE d = c
      BY <1>4, <1>5, <1>11, <2>2, <3>1
    <3>2. CASE d # c
      <4>1. d \in Granted(id) /\ request'[d] = request[d] /\ d \in 1..Calls
        BY <1>5, <1>11, <2>4, <3>2 DEF Granted
      <4>2. request[d].left >= secret[id].left
        BY <1>2, <2>1, <2>4, <4>1 DEF Budgeted
      <4>3. request[d].left \in Nat
        BY <1>1, <4>1 DEF TypeOK, ServiceTypeOK, Request, NoRequest
      <4>4. QED
        BY <1>2, <1>4, <2>2, <3>2, <4>1, <4>2, <4>3
    <3>3. QED
      BY <3>1, <3>2
  <2>5. ASSUME NEW d \in Granted(id)', NEW e \in Granted(id)', d # e,
               request'[d].outcome = "ok", request'[e].outcome = "ok"
        PROVE  request'[d].left # request'[e].left
    <3>1. CASE d # c /\ e # c
      BY <2>1, <2>4, <2>5, <3>1 DEF Budgeted
    <3>2. CASE d = c \/ e = c
      BY <1>5, <2>4, <2>5, <3>2
    <3>3. QED
      BY <3>1, <3>2
  <2>6. ~secret'[id].revoked
    BY <1>2, <1>4
  <2>7. (\A d, e \in Wraps(id)' : d = e) /\ Wraps(id)' # {}
    BY <1>2, <1>12, <2>1 DEF Budgeted, Used
  <2>8. QED
    BY <2>2, <2>3, <2>4, <2>5, <2>6, <2>7 DEF Budgeted
<1>14. GrantsForward
  <2>1. ~Settled(id)
    BY <1>2 DEF Settled
  <2>2. QED
    BY <1>10, <2>1 DEF GrantsForward
<1>15. ServerSide
  <2>1. ASSUME NEW d \in 1..Calls, NEW i \in call[d].revoked, d \in Granted(i)'
        PROVE  d \in Granted(i)
    <3>1. i \in Ids /\ (i \in Issued => secret[i].revoked)
      BY <1>1 DEF CInv, Called, TypeOK, NoCall, Call
    <3>2. i # id
      BY <1>2, <3>1
    <3>3. QED
      BY <1>10, <2>1, <3>1, <3>2
  <2>2. QED
    BY <1>5, <2>1 DEF ServerSide
<1>16. Housekeeping'
  <2>1. \A j \in forgotten' : Store!Over(j)'
    <3>1. \A j \in forgotten : j \in Ids \ {id} /\ Store!Over(j)
      BY <1>1, <1>2 DEF CInv, TypeOK, ServiceTypeOK, Housekeeping
    <3>2. QED
      BY <1>3, <1>7, <3>1
  <2>2. Running' /\ call' = call
    BY <1>5 DEF Running, clientVars
  <2>3. QED
    BY <1>5, <1>6, <2>1, <2>2 DEF CInv, Housekeeping
<1>17. ASSUME NEW d \in 1..Calls PROVE Shaped(d)' /\ Truthful(d)'
  <2>1. CASE d # c
    BY <1>5, <1>8, <1>14, <2>1, OthersStay
  <2>2. CASE d = c
    <3>1. call'[c] = call[c] /\ request[c] # NoRequest
      BY DEF clientVars, NoRequest
    <3>2. id \in Used'
      BY <1>2, <1>6 DEF Used
    <3>3. Shaped(c)'
      BY <1>5, <3>1, <3>2 DEF CInv, Shaped
    <3>4. Truthful(c)'
      BY <1>5 DEF Truthful, Reasons
    <3>5. QED
      BY <2>2, <3>3, <3>4
  <2>3. QED
    BY <2>1, <2>2
<1>18. QED
  BY <1>8, <1>9, <1>10, <1>13, <1>15, <1>16, <1>17, ServerStep

(* A revocation takes place: the secret is over, and this request is why.   *)
LEMMA WithdrawStep ==
  ASSUME CInv, NEW c \in 1..Calls, request[c].at = "sent", request[c].op = "revoke",
         NEW id \in Ids, request[c].id = id, Running,
         AtOnce, Store!Withdraw(id), Handled(c, id, "ok", 0), UNCHANGED clientVars
  PROVE  CInv'
<1>1. TypeOK
  BY DEF CInv
<1>2. /\ id \in Issued
      /\ secret[id] \in [left : Nat, deadline : Nat, revoked : BOOLEAN]
      /\ secret[id].left # 0
  <2>1. id \in Issued /\ Store!Fate(id) = "live"
    BY DEF Store!Withdraw, Store!Readable, Issued
  <2>2. secret[id].left # 0
    BY <2>1 DEF Store!Fate
  <2>3. QED
    BY <1>1, <2>1, <2>2, SecretType
<1>3. /\ secret'[id] = [secret[id] EXCEPT !.revoked = TRUE]
      /\ \A j \in Ids \ {id} : secret'[j] = secret[j]
      /\ secret' \in [Ids -> {Absent} \cup [left : Nat, deadline : Nat, revoked : BOOLEAN]]
      /\ UNCHANGED <<now, forgotten>>
  <2>1. secret' = [secret EXCEPT ![id] = [secret[id] EXCEPT !.revoked = TRUE]]
    BY <1>1 DEF Store!Withdraw, TypeOK, ServiceTypeOK
  <2>2. [secret[id] EXCEPT !.revoked = TRUE] \in [left : Nat, deadline : Nat, revoked : BOOLEAN]
    BY <1>2
  <2>3. QED
    BY <1>1, <2>1, <2>2 DEF TypeOK, ServiceTypeOK, AtOnce
<1>4. secret'[id].left = secret[id].left /\ secret'[id].revoked /\ secret'[id] # Absent
  BY <1>2, <1>3, SecretAssumption
<1>5. /\ UNCHANGED <<server, boots, spent, counters>>
      /\ request' \in [1..Calls -> {NoRequest} \cup Request]
      /\ request'[c].at = "handled" /\ request'[c].op = "revoke"
      /\ request'[c].id = id /\ request'[c].reads = request[c].reads
      /\ request'[c].outcome = "ok"
      /\ \A d \in 1..Calls \ {c} : request'[d] = request[d]
  <2>1. id \in Ids \cup {Malformed, Absent} /\ "ok" \in Outcomes
    BY DEF Outcomes
  <2>2. QED
    BY <1>1, <2>1, HandledRequest
<1>6. Issued' = Issued /\ Used' = Used
  <2>1. Issued' = Issued
    BY <1>2, <1>3, <1>4 DEF Issued, Store!Issued
  <2>2. QED
    BY <1>5, <2>1 DEF Used
<1>7. (\A j \in Ids \ {id} : Store!Over(j)' <=> Store!Over(j)) /\ Store!Over(id)'
  <2>1. \A j \in Ids \ {id} : Store!Over(j)' <=> Store!Over(j)
    BY <1>3, FateStays
  <2>2. Store!Over(id)'
    BY <1>2, <1>4 DEF Store!Over, Store!Issued, Store!Fate
  <2>3. QED
    BY <2>1, <2>2
<1>8. StoreForward
  <2>1. ASSUME NEW j \in Issued
        PROVE  /\ Store!Over(j) => Store!Over(j)'
               /\ secret[j].revoked => secret'[j].revoked
    BY <1>1, <1>3, <1>4, <1>7, UsedIds
  <2>2. QED
    BY <1>3, <1>5, <1>6, <2>1 DEF StoreForward
<1>9. TypeOK'
  BY <1>1, <1>3, <1>5 DEF TypeOK, ServiceTypeOK, clientVars
<1>10. ASSUME NEW j \in Ids PROVE Granted(j)' = Granted(j)
  BY <1>5 DEF Granted
<1>11. ASSUME NEW j \in Ids PROVE Wraps(j)' = Wraps(j) /\ Asked(j)' = Asked(j)
  <2>1. \A d, e \in Wraps(j) : d = e
    BY DEF CInv, Budgeted
  <2>2. c \notin Wraps(j) /\ c \notin Wraps(j)'
    BY <1>5 DEF Wraps
  <2>3. \A d \in 1..Calls :
          \/ request'[d].op = request[d].op /\ request'[d].id = request[d].id
             /\ request'[d].reads = request[d].reads
          \/ d \notin Wraps(j) /\ d \notin Wraps(j)'
    BY <1>5, <2>2
  <2>4. QED
    BY <2>1, <2>3, WrapsStay
<1>12. ASSUME NEW j \in Ids \ {id} PROVE Budgeted(j)'
  <2>1. \A d \in 1..Calls : Stays(d, j)
    BY <1>5 DEF Stays, SameReply, Concerns
  <2>2. j \in Issued' => j \in Issued /\ secret'[j] = secret[j]
    BY <1>3, <1>6
  <2>3. QED
    BY <1>6, <2>1, <2>2, BudgetStays DEF CInv
<1>13. Budgeted(id)'
  <2>1. Budgeted(id)
    BY DEF CInv
  <2>2. Granted(id)' = Granted(id) /\ Wraps(id)' = Wraps(id) /\ Asked(id)' = Asked(id)
    BY <1>10, <1>11
  <2>3. \A d \in Granted(id) : request'[d] = request[d]
    BY <1>5 DEF Granted
  <2>4. QED
    BY <1>4, <1>5, <1>6, <2>1, <2>2, <2>3 DEF Budgeted
<1>14. GrantsForward
  BY <1>10, <1>11 DEF GrantsForward
<1>15. ServerSide
  <2>1. ASSUME NEW d \in 1..Calls, NEW i \in call[d].revoked, d \in Granted(i)'
        PROVE  d \in Granted(i)
    <3>1. i \in Ids
      BY <1>1 DEF TypeOK, NoCall, Call
    <3>2. QED
      BY <1>10, <2>1, <3>1
  <2>2. QED
    BY <1>5, <2>1 DEF ServerSide
<1>16. Housekeeping'
  <2>1. \A j \in forgotten' : Store!Over(j)'
    BY <1>1, <1>3, <1>7 DEF CInv, TypeOK, ServiceTypeOK, Housekeeping
  <2>2. Running' /\ call' = call
    BY <1>5 DEF Running, clientVars
  <2>3. QED
    BY <1>5, <1>6, <2>1, <2>2 DEF CInv, Housekeeping
<1>17. ASSUME NEW d \in 1..Calls PROVE Shaped(d)' /\ Truthful(d)'
  <2>1. CASE d # c
    BY <1>5, <1>8, <1>14, <2>1, OthersStay
  <2>2. CASE d = c
    <3>1. call'[c] = call[c] /\ request[c] # NoRequest
      BY DEF clientVars, NoRequest
    <3>2. id \in Used'
      BY <1>2, <1>6 DEF Used
    <3>3. Shaped(c)'
      BY <1>5, <3>1, <3>2 DEF CInv, Shaped
    <3>4. Truthful(c)'
      BY <1>4, <1>5 DEF Truthful, Reasons
    <3>5. QED
      BY <2>2, <3>3, <3>4
  <2>3. QED
    BY <2>1, <2>2
<1>18. QED
  BY <1>8, <1>9, <1>12, <1>13, <1>15, <1>16, <1>17, ServerStep

(* A miss is answered with the truth as far as the store remembers it.      *)
LEMMA MissedStep ==
  ASSUME CInv, NEW c \in 1..Calls, request[c].at = "sent", request[c].op # "wrap",
         request[c].id \in Ids, NEW op, Missed(c, op), UNCHANGED clientVars
  PROVE  CInv'
<1>1. PICK id \in Ids : request[c].id = id
  OBVIOUS
<1>2. UNCHANGED <<now, secret, forgotten>> /\ ~Store!Readable(id)
  BY <1>1 DEF Missed, AtOnce, Store!Deny
<1>3. answer'.outcome = IF ~Store!Issued(id) \/ id \in forgotten THEN "not_found" ELSE Store!Fate(id)
  BY <1>1, <1>2 DEF Missed, Store!Deny, Store!Reply
<1>4. PICK outcome : outcome = IF id \notin Issued \/ id \in forgotten THEN "not_found" ELSE Store!Fate(id)
  OBVIOUS
<1>5. answer'.outcome = outcome
  BY <1>3, <1>4 DEF Issued
<1>6. CASE outcome = "not_found"
  <2>1. id \in {Never} \cup forgotten \cup spent
    <3>1. CASE id \in forgotten
      BY <3>1
    <3>2. CASE id \notin Issued
      BY <1>1, <3>2, NeverAssumption DEF CInv, Shaped, Used
    <3>3. CASE id \in Issued /\ id \notin forgotten
      BY <1>4, <1>6, <3>3 DEF Store!Fate
    <3>4. QED
      BY <3>1, <3>2, <3>3
  <2>2. Denial(c, outcome) /\ outcome \in Outcomes
    BY <1>1, <1>6, <2>1 DEF Denial, Outcomes, Reasons
  <2>3. Handled(c, request[c].id, outcome, 0)
    BY <1>5 DEF Missed, Handled
  <2>4. QED
    BY <1>2, <2>2, <2>3, DenialStep
<1>7. CASE outcome # "not_found"
  <2>1. id \in Issued /\ Store!Fate(id) # "live" /\ outcome = Store!Fate(id)
    BY <1>2, <1>4, <1>7 DEF Store!Readable, Issued
  <2>2. outcome \in Reasons /\ (outcome = "consumed" <=> secret[id].left = 0)
    BY <2>1 DEF Store!Fate, Reasons
  <2>3. Store!Over(id)
    BY <2>1 DEF Store!Over, Issued
  <2>4. Denial(c, outcome) /\ outcome \in Outcomes
    BY <1>1, <2>1, <2>2, <2>3 DEF Denial, Outcomes, Reasons
  <2>5. Handled(c, request[c].id, outcome, 0)
    BY <1>5 DEF Missed, Handled
  <2>6. QED
    BY <1>2, <2>4, <2>5, DenialStep
<1>8. QED
  BY <1>6, <1>7

(* A handler that returns from the store.                                  *)
Arrival(c) ==
  \/ Limit(c) \/ Invalid(c) \/ TokenMalformed(c)
  \/ HandleWrap(c) \/ HandleUnwrap(c) \/ HandlePeek(c) \/ HandleRevoke(c)

(* The invariant outlives the handling of a request, whatever its handler. *)
LEMMA ArrivalStep ==
  ASSUME CInv, NEW c \in 1..Calls, Arrival(c), UNCHANGED clientVars
  PROVE  CInv'
<1>1. request[c].outcome = "pending" /\ (request[c].op = "wrap" => request[c].id = Absent)
  BY DEF CInv, Shaped, Arrival, Limit, Invalid, TokenMalformed, HandleWrap, HandleUnwrap,
         HandlePeek, HandleRevoke, Arrived
<1>2. CASE Limit(c)
  <2>1. Denial(c, "limited") /\ "limited" \in Outcomes
    BY DEF Denial, Outcomes, Reasons
  <2>2. QED
    BY <1>2, <2>1, DenialStep DEF Limit, Quiet
<1>3. CASE Invalid(c)
  <2>1. Denial(c, "bad_request") /\ "bad_request" \in Outcomes
    BY DEF Denial, Outcomes, Reasons
  <2>2. Handled(c, request[c].id, "bad_request", 0)
    BY <1>1, <1>3 DEF Invalid, Arrived
  <2>3. QED
    BY <1>3, <2>1, <2>2, DenialStep DEF Invalid, Arrived, Quiet
<1>4. CASE TokenMalformed(c)
  <2>1. Denial(c, "auth_fail") /\ "auth_fail" \in Outcomes
    BY <1>1, <1>4, NeverAssumption DEF Denial, Outcomes, Reasons, TokenMalformed
  <2>2. Handled(c, request[c].id, "auth_fail", 0)
    BY <1>4 DEF TokenMalformed
  <2>3. QED
    BY <1>4, <2>1, <2>2, DenialStep DEF TokenMalformed, Quiet
<1>5. CASE HandleWrap(c)
  <2>1. CASE Store!Issue(FreshId)
    BY <1>5, <2>1, IssueStep DEF HandleWrap, Arrived, Store!Issue, Store!Refuse, Store!Reply
  <2>2. CASE Store!Refuse(FreshId) /\ Handled(c, Absent, "full", 0)
    <3>1. Denial(c, "full") /\ "full" \in Outcomes
      BY DEF Denial, Outcomes, Reasons
    <3>2. Handled(c, request[c].id, "full", 0)
      BY <1>1, <1>5, <2>2 DEF HandleWrap, Arrived
    <3>3. QED
      BY <1>5, <2>2, <3>1, <3>2, DenialStep DEF HandleWrap, Arrived, Store!Refuse
  <2>3. QED
    BY <1>5, <2>1, <2>2 DEF HandleWrap
<1>6. ASSUME request[c].at = "sent", Running, request[c].op # "wrap", request[c].id \in Ids
      PROVE  /\ request[c].op = "unwrap" /\ AtOnce /\ Store!Read(request[c].id)
                  /\ Handled(c, request[c].id, "ok", secret'[request[c].id].left) => CInv'
             /\ request[c].op = "peek" /\ Store!Look(request[c].id)
                  /\ Handled(c, request[c].id, "ok", secret[request[c].id].left) => CInv'
             /\ request[c].op = "revoke" /\ AtOnce /\ Store!Withdraw(request[c].id)
                  /\ Handled(c, request[c].id, "ok", 0) => CInv'
  <2>1. PICK id \in Ids : request[c].id = id
    BY <1>6
  <2>2. ASSUME request[c].op = "unwrap", AtOnce, Store!Read(request[c].id),
               Handled(c, request[c].id, "ok", secret'[request[c].id].left)
        PROVE  CInv'
    <3>1. Store!Read(id) /\ Handled(c, id, "ok", secret'[id].left)
      BY <2>1, <2>2
    <3>2. QED
      BY <1>6, <2>1, <2>2, <3>1, ReadStep
  <2>3. ASSUME request[c].op = "peek", Store!Look(request[c].id),
               Handled(c, request[c].id, "ok", secret[request[c].id].left)
        PROVE  CInv'
    <3>1. id \in Issued /\ UNCHANGED <<now, secret, forgotten>> /\ secret[id].left \in Nat
      BY <2>1, <2>3, SecretType DEF CInv, Store!Look, Store!Readable, Issued
    <3>2. PICK left \in Nat : left = secret[id].left
      BY <3>1
    <3>3. Handled(c, request[c].id, "ok", left)
      BY <2>1, <2>3, <3>2
    <3>4. Denial(c, "ok") /\ "ok" \in Outcomes
      BY <2>1, <2>3, <3>1 DEF Denial, Outcomes, Reasons, Used
    <3>5. QED
      BY <1>6, <3>1, <3>3, <3>4, DenialStep
  <2>4. ASSUME request[c].op = "revoke", AtOnce, Store!Withdraw(request[c].id),
               Handled(c, request[c].id, "ok", 0)
        PROVE  CInv'
    <3>1. Store!Withdraw(id) /\ Handled(c, id, "ok", 0)
      BY <2>1, <2>4
    <3>2. QED
      BY <1>6, <2>1, <2>4, <3>1, WithdrawStep
  <2>5. QED
    BY <2>2, <2>3, <2>4
<1>7. CASE HandleUnwrap(c)
  <2>1. /\ request[c].at = "sent" /\ Running /\ request[c].op # "wrap" /\ request[c].id \in Ids
        /\ request[c].op = "unwrap"
    BY <1>7 DEF HandleUnwrap, Arrived
  <2>2. QED
    BY <1>6, <1>7, <2>1, MissedStep DEF HandleUnwrap
<1>8. CASE HandlePeek(c)
  <2>1. /\ request[c].at = "sent" /\ Running /\ request[c].op # "wrap" /\ request[c].id \in Ids
        /\ request[c].op = "peek"
    BY <1>8 DEF HandlePeek, Arrived
  <2>2. QED
    BY <1>6, <1>8, <2>1, MissedStep DEF HandlePeek
<1>9. CASE HandleRevoke(c)
  <2>1. /\ request[c].at = "sent" /\ Running /\ request[c].op # "wrap" /\ request[c].id \in Ids
        /\ request[c].op = "revoke"
    BY <1>9 DEF HandleRevoke, Arrived
  <2>2. QED
    BY <1>6, <1>9, <2>1, MissedStep DEF HandleRevoke
<1>10. QED
  BY <1>2, <1>3, <1>4, <1>5, <1>7, <1>8, <1>9 DEF Arrival

(* A response tells what the handler got, unless the decryption failed.     *)
LEMMA AnswerStep ==
  ASSUME CInv, NEW c \in 1..Calls, NEW outcome \in Outcomes, NEW left \in Nat,
         Answer(c, outcome, left), UNCHANGED clientVars,
         \/ outcome = request[c].outcome /\ left = request[c].left
         \/ outcome = "tamper" /\ Grant(c)
  PROVE  CInv'
<1>1. TypeOK /\ request[c].at = "handled"
  BY DEF CInv, Answer
<1>2. request \in [1..Calls -> {NoRequest} \cup Request] /\ request[c] \in Request
  BY <1>1 DEF TypeOK, ServiceTypeOK, NoRequest
<1> DEFINE rep == [request[c] EXCEPT !.at = "answered", !.outcome = outcome, !.left = left]
<1>3. /\ rep \in Request /\ rep.at = "answered" /\ rep.op = request[c].op
      /\ rep.id = request[c].id /\ rep.reads = request[c].reads
      /\ rep.outcome = outcome /\ rep.left = left
  BY <1>2 DEF Request
<1>4. request' = [request EXCEPT ![c] = rep]
  BY DEF Answer
<1> HIDE DEF rep
<1>5. /\ request' \in [1..Calls -> {NoRequest} \cup Request]
      /\ request'[c] = rep /\ \A d \in 1..Calls \ {c} : request'[d] = request[d]
  BY <1>2, <1>3, <1>4
<1>6. UNCHANGED <<now, secret, forgotten, server, boots, spent>> /\ call' = call
  BY DEF Answer, Quiet, clientVars
<1>7. counters' \in [Counted -> Nat]
  <2>1. counters \in [Counted -> Nat]
    BY <1>1 DEF TypeOK, ServiceTypeOK
  <2>2. \A name \in Counted :
          counters[name] + (IF name \in CounterOf(request[c].op, outcome) THEN 1 ELSE 0) \in Nat
    BY <2>1
  <2>3. QED
    BY <2>2 DEF Answer
<1>8. TypeOK'
  BY <1>1, <1>5, <1>6, <1>7 DEF TypeOK, ServiceTypeOK, clientVars
<1>9. StoreForward /\ Issued' = Issued /\ Used' = Used /\ \A i : Store!Over(i)' <=> Store!Over(i)
  BY <1>6, StoreIdle
<1>10. SameReply(c) \/ Tampered(c)
  BY <1>3, <1>5 DEF SameReply, Tampered
<1>11. ASSUME NEW d \in 1..Calls, NEW i \in Ids PROVE Stays(d, i)
  BY <1>5, <1>10 DEF Stays, SameReply
<1>12. \A i \in Ids : Granted(i)' = Granted(i) /\ Wraps(i)' = Wraps(i) /\ Asked(i)' = Asked(i)
  BY <1>11, GrantsStay DEF CInv
<1>13. \A i \in Ids : Budgeted(i)'
  BY <1>6, <1>9, <1>11, BudgetStays DEF CInv
<1>14. GrantsForward
  BY <1>12 DEF GrantsForward
<1>15. ServerSide
  <2>1. ASSUME NEW d \in 1..Calls
        PROVE  \A i \in call[d].revoked : d \in Granted(i)' => d \in Granted(i)
    BY <1>1, <1>12 DEF TypeOK, NoCall, Call
  <2>2. QED
    BY <1>1, <1>3, <1>5, <2>1 DEF ServerSide
<1>16. Housekeeping'
  BY <1>6, <1>9 DEF CInv, Housekeeping, Running
<1>17. ASSUME NEW d \in 1..Calls PROVE Shaped(d)' /\ Truthful(d)'
  <2>1. CASE d # c
    BY <1>5, <1>9, <1>14, <2>1, OthersStay
  <2>2. CASE d = c
    <3>1. Truthful(c)'
      BY <1>1, <1>9, <1>10, <1>14, TruthfulStays DEF CInv
    <3>2. /\ request'[c].at = "answered" /\ request'[c].op = request[c].op
          /\ request'[c].id = request[c].id /\ call'[c] = call[c]
          /\ \/ request'[c].outcome = request[c].outcome
             \/ Grant(c) /\ request'[c].outcome = "tamper"
      BY <1>3, <1>5, <1>6
    <3>3. request[c] # NoRequest
      BY <1>1 DEF NoRequest
    <3>4. Shaped(c)'
      BY <1>1, <1>9, <3>2, <3>3 DEF CInv, Shaped, Grant
    <3>5. QED
      BY <2>2, <3>1, <3>4
  <2>3. QED
    BY <2>1, <2>2
<1>18. QED
  BY <1>8, <1>9, <1>13, <1>15, <1>16, <1>17, ServerStep

(* Respond and RespondTampered.                                            *)
LEMMA ReplyStep ==
  ASSUME CInv, NEW c \in 1..Calls, Respond(c) \/ RespondTampered(c), UNCHANGED clientVars
  PROVE  CInv'
<1>1. request[c].at = "handled"
  BY DEF Respond, RespondTampered, Answer
<1>2. request[c].outcome \in Outcomes /\ request[c].left \in Nat
  BY <1>1 DEF CInv, TypeOK, ServiceTypeOK, Request, NoRequest
<1>3. CASE Respond(c)
  <2>1. PICK outcome \in Outcomes, left \in Nat :
          outcome = request[c].outcome /\ left = request[c].left
    BY <1>2
  <2>2. Answer(c, outcome, left)
    BY <1>3, <2>1 DEF Respond
  <2>3. QED
    BY <2>1, <2>2, AnswerStep
<1>4. CASE RespondTampered(c)
  <2>1. Answer(c, "tamper", 0) /\ Grant(c)
    BY <1>4 DEF RespondTampered, Grant
  <2>2. "tamper" \in Outcomes
    BY DEF Outcomes
  <2>3. QED
    BY <2>1, <2>2, AnswerStep
<1>5. QED
  BY <1>3, <1>4

(* Time passes or evidence is forgotten: no request is touched.             *)
LEMMA ElapseStep ==
  ASSUME CInv, UNCHANGED <<secret, request, server, boots, spent, counters>>,
         now' \in Nat, now' >= now, Store!MayForget, UNCHANGED clientVars
  PROVE  CInv'
<1>1. TypeOK /\ call' = call
  BY DEF CInv, clientVars
<1>2. Issued' = Issued /\ Used' = Used /\ Running' = Running
  BY DEF Issued, Store!Issued, Used, Running
<1>3. ASSUME NEW j \in Issued, Store!Over(j) PROVE Store!Over(j)'
  <2>1. secret[j] \in [left : Nat, deadline : Nat, revoked : BOOLEAN] /\ now \in Nat
    BY <1>1, UsedIds, SecretType DEF TypeOK, ServiceTypeOK
  <2>2. secret[j].left = 0 \/ secret[j].revoked \/ now >= secret[j].deadline
    BY <1>3 DEF Store!Over, Store!Fate
  <2>3. secret'[j].left = 0 \/ secret'[j].revoked \/ now' >= secret'[j].deadline
    BY <2>1, <2>2
  <2>4. QED
    BY <1>3, <2>3 DEF Store!Over, Store!Fate, Store!Issued
<1>4. StoreForward
  BY <1>2, <1>3 DEF StoreForward, Store!MayForget
<1>5. forgotten' \subseteq Ids /\ \A j \in forgotten' : Store!Over(j)'
  <2>1. ASSUME NEW j \in forgotten PROVE j \in Ids /\ Store!Over(j)'
    <3>1. j \in Ids /\ Store!Over(j)
      BY <1>1 DEF CInv, Housekeeping, TypeOK, ServiceTypeOK
    <3>2. QED
      BY <1>3, <3>1 DEF Issued, Store!Over
  <2>2. QED
    BY <2>1 DEF Store!MayForget
<1>6. TypeOK'
  BY <1>1, <1>5 DEF TypeOK, ServiceTypeOK, clientVars
<1>7. ASSUME NEW d \in 1..Calls, NEW i \in Ids PROVE Stays(d, i)
  BY DEF Stays, SameReply
<1>8. \A i \in Ids : Granted(i)' = Granted(i) /\ Asked(i)' = Asked(i)
  BY <1>7, GrantsStay DEF CInv
<1>9. \A i \in Ids : Budgeted(i)'
  BY <1>2, <1>7, BudgetStays DEF CInv
<1>10. ServerSide
  BY <1>1, <1>8 DEF ServerSide, TypeOK, NoCall, Call
<1>11. Housekeeping'
  BY <1>1, <1>2, <1>5 DEF CInv, Housekeeping
<1>12. \A d \in 1..Calls : Shaped(d)' /\ Truthful(d)'
  BY <1>4, <1>8, OthersStay DEF GrantsForward
<1>13. QED
  BY <1>4, <1>6, <1>9, <1>10, <1>11, <1>12, ServerStep

(* The process starts, or stops to listen.                                 *)
LEMMA RunStep ==
  ASSUME CInv, UNCHANGED <<now, secret, forgotten, spent, request, counters>>,
         server' \in {"running", "draining"}, boots' \in 1..MaxBoots, UNCHANGED clientVars
  PROVE  CInv'
<1>1. TypeOK /\ call' = call
  BY DEF CInv, clientVars
<1>2. StoreForward /\ Issued' = Issued /\ Used' = Used /\ \A i : Store!Over(i)' <=> Store!Over(i)
  BY StoreIdle
<1>3. TypeOK'
  BY <1>1 DEF TypeOK, ServiceTypeOK, clientVars
<1>4. ASSUME NEW d \in 1..Calls, NEW i \in Ids PROVE Stays(d, i)
  BY DEF Stays, SameReply
<1>5. \A i \in Ids : Granted(i)' = Granted(i) /\ Asked(i)' = Asked(i)
  BY <1>4, GrantsStay DEF CInv
<1>6. \A i \in Ids : Budgeted(i)'
  BY <1>2, <1>4, BudgetStays DEF CInv
<1>7. ServerSide
  BY <1>1, <1>5 DEF ServerSide, TypeOK, NoCall, Call
<1>8. Housekeeping'
  BY <1>1, <1>2 DEF CInv, Housekeeping, Running
<1>9. \A d \in 1..Calls : Shaped(d)' /\ Truthful(d)'
  BY <1>2, <1>5, OthersStay DEF GrantsForward
<1>10. QED
  BY <1>2, <1>3, <1>6, <1>7, <1>8, <1>9, ServerStep

(* The process ends: what it issued is spent, and nobody is told of it.     *)
LEMMA EndStep ==
  ASSUME CInv, NEW status \in {"stopped", "failed"}, End(status), UNCHANGED clientVars
  PROVE  CInv'
<1>1. TypeOK /\ call' = call
  BY DEF CInv, clientVars
<1>2. Issued' = {} /\ spent' = Used /\ Used' = Used
  BY DEF End, Issued, Store!Issued, Used
<1>3. ASSUME NEW d \in 1..Calls
      PROVE  /\ request'[d] \in {NoRequest} \cup Request
             /\ SameReply(d)
             /\ request[d].at \in {"sent", "handled"} => request'[d].at = "cut"
             /\ request[d].at \notin {"sent", "handled"} => request'[d] = request[d]
  <2>1. request[d] \in {NoRequest} \cup Request
    BY <1>1 DEF TypeOK, ServiceTypeOK
  <2>2. CASE d \in InFlight
    <3>1. request'[d] = [request[d] EXCEPT !.at = "cut"] /\ request[d] \in Request
      BY <2>1, <2>2 DEF End, InFlight, NoRequest
    <3>2. QED
      BY <2>2, <3>1 DEF Request, SameReply, InFlight
  <2>3. CASE d \notin InFlight
    BY <2>1, <2>3 DEF End, InFlight, SameReply
  <2>4. QED
    BY <2>2, <2>3
<1>4. TypeOK'
  <2>1. request' \in [1..Calls -> {NoRequest} \cup Request]
    BY <1>3 DEF End
  <2>2. secret' \in [Ids -> {Absent} \cup [left : Nat, deadline : Nat, revoked : BOOLEAN]]
    BY DEF End
  <2>3. counters' \in [Counted -> Nat]
    BY DEF End, Zero
  <2>4. QED
    BY <1>1, <1>2, <2>1, <2>2, <2>3, UsedIds DEF TypeOK, ServiceTypeOK, End, clientVars
<1>5. StoreForward
  <2>1. forgotten \subseteq Used
    BY DEF CInv, Housekeeping, TypeOK, ServiceTypeOK, Store!Over, Used, Issued
  <2>2. QED
    BY <1>2, <2>1 DEF StoreForward, Used
<1>6. ASSUME NEW d \in 1..Calls, NEW i \in Ids PROVE Stays(d, i)
  BY <1>3 DEF Stays
<1>7. \A i \in Ids : Granted(i)' = Granted(i) /\ Asked(i)' = Asked(i)
  BY <1>6, GrantsStay DEF CInv
<1>8. \A i \in Ids : Budgeted(i)'
  BY <1>2, <1>6, BudgetStays DEF CInv
<1>9. ServerSide
  <2>1. ASSUME NEW d \in 1..Calls
        PROVE  \A i \in call[d].revoked : d \in Granted(i)' => d \in Granted(i)
    BY <1>1, <1>7 DEF TypeOK, NoCall, Call
  <2>2. ASSUME NEW d \in 1..Calls
        PROVE  /\ request'[d].at = "delivered" <=> request[d].at = "delivered"
               /\ request[d].at = "delivered" => request'[d] = request[d]
               /\ request'[d].at # "none" => request[d].at # "none"
               /\ request'[d].id = request[d].id
    BY <1>3 DEF SameReply
  <2>3. QED
    BY <2>1, <2>2 DEF ServerSide
<1>10. Housekeeping'
  <2>1. forgotten' = {}
    BY DEF End
  <2>2. QED
    BY <1>1, <1>2, <2>1 DEF CInv, Housekeeping
<1>11. ASSUME NEW d \in 1..Calls PROVE Shaped(d)' /\ Truthful(d)'
  <2>1. Truthful(d)'
    BY <1>1, <1>3, <1>5, <1>7, TruthfulStays DEF CInv, GrantsForward
  <2>2. CASE request[d].at \in {"sent", "handled"}
    <3>1. request[d] # NoRequest /\ request'[d].at = "cut" /\ SameReply(d) /\ Shaped(d)
      BY <1>3, <2>2 DEF NoRequest, CInv
    <3>2. Shaped(d)'
      BY <1>1, <1>2, <2>2, <3>1 DEF Shaped, SameReply
    <3>3. QED
      BY <2>1, <3>2
  <2>3. CASE request[d].at \notin {"sent", "handled"}
    BY <1>1, <1>3, <1>5, <2>1, <2>3, ShapedStays DEF CInv
  <2>4. QED
    BY <2>2, <2>3
<1>12. QED
  BY <1>4, <1>5, <1>8, <1>9, <1>10, <1>11, ServerStep

(* Every step of the server.                                               *)
LEMMA ServerCInv == CInv /\ Server => CInv'
<1> SUFFICES ASSUME CInv, ServiceNext, UNCHANGED clientVars PROVE CInv'
  BY DEF Server
<1>1. now \in Nat /\ boots \in 1..MaxBoots
  BY DEF CInv, TypeOK, ServiceTypeOK
<1>2. ASSUME NEW c \in 1..Calls, Handle(c) PROVE CInv'
  BY <1>2, ArrivalStep, ReplyStep DEF Handle, Arrival
<1>3. CASE Pass
  <2>1. now' \in Nat /\ now' >= now
    BY <1>1, <1>3 DEF Pass
  <2>2. QED
    BY <1>3, <2>1, ElapseStep DEF Pass, Elsewhere, Store!Elapse
<1>4. CASE Forget
  <2>1. now' \in Nat /\ now' >= now
    BY <1>1, <1>4 DEF Forget
  <2>2. QED
    BY <1>4, <2>1, ElapseStep DEF Forget, Elsewhere, Store!Elapse
<1>5. CASE Boot
  <2>1. boots' \in 1..MaxBoots /\ server' \in {"running", "draining"}
    BY <1>1, <1>5, BootsAssumption DEF Boot
  <2>2. QED
    BY <1>5, <2>1, RunStep DEF Boot, Quiet
<1>6. CASE Signal
  BY <1>1, <1>6, RunStep DEF Signal, Quiet
<1>7. CASE ShutdownReturns \/ Crash
  BY <1>7, EndStep DEF ShutdownReturns, Drained, Deadline, Crash
<1>8. QED
  BY <1>2, <1>3, <1>4, <1>5, <1>6, <1>7 DEF ServiceNext

----------------------------------------------------------------------------
(* The steps of the clients: the store rests, and what is printed or shown  *)
(* changes apart from what is asked and answered.                          *)
Core ==
  /\ ServiceTypeOK
  /\ population \in Populations
  /\ call \in [1..Calls -> {NoCall} \cup Call]
  /\ \A c \in 1..Calls : Shaped(c) /\ Truthful(c) /\ Called(c)
  /\ \A id \in Ids : Budgeted(id)
  /\ Housekeeping

StoreRests == UNCHANGED <<now, secret, forgotten, server, boots, spent, counters, population>>

(* The parts make the whole.                                               *)
LEMMA ClientStep ==
  ASSUME CInv, StoreRests, Core', Outputs', Tabbed'
  PROVE  CInv'
<1>1. Used' \subseteq Ids
  BY UsedIds DEF CInv, StoreRests, Used, Issued, Store!Issued
<1>2. tokens' \subseteq Ids /\ shares' \subseteq Ids \X (1..NumShares)
  BY <1>1, NeverAssumption DEF Outputs
<1>3. /\ tab'.id \in Ids \cup {Absent} /\ tab'.panels \subseteq {"waiting", "revealed", "gone"}
      /\ tab'.clicks \in Nat
  BY DEF Tabbed
<1>4. TypeOK'
  BY <1>2, <1>3 DEF Core, TypeOK
<1>5. QED
  BY <1>4 DEF CInv, Core

(* The store's side of a step of the clients.                              *)
LEMMA StoreAside ==
  ASSUME CInv, StoreRests, \A d \in 1..Calls, i \in Ids : Stays(d, i)
  PROVE  /\ StoreForward /\ GrantsForward
         /\ Issued' = Issued /\ Used' = Used
         /\ \A i \in Ids : Budgeted(i)' /\ Granted(i)' = Granted(i)
<1>1. StoreForward /\ Issued' = Issued /\ Used' = Used
  BY StoreIdle DEF StoreRests
<1>2. \A i \in Ids : Granted(i)' = Granted(i) /\ Asked(i)' = Asked(i)
  BY GrantsStay DEF CInv
<1>3. \A i \in Ids : Budgeted(i)'
  BY <1>1, BudgetStays DEF CInv, StoreRests
<1>4. QED
  BY <1>1, <1>2, <1>3 DEF GrantsForward

(* The housekeeping outlasts a step that starts no wrap.                    *)
LEMMA HousekeepingStays ==
  ASSUME CInv, StoreRests,
         Cardinality({d \in 1..Calls : call'[d].cmd \in Wrappers}) <= Cardinality(Ids \ {Never})
  PROVE  Housekeeping'
<1>1. Issued' = Issued /\ Used' = Used /\ \A i : Store!Over(i)' <=> Store!Over(i)
  BY StoreIdle DEF StoreRests
<1>2. QED
  BY <1>1 DEF CInv, Housekeeping, StoreRests, Running

(* What an earlier call knows stays true.                                   *)
LEMMA CalledKept ==
  ASSUME CInv, StoreRests, NEW d \in 1..Calls,
         call'[d] = call[d], request'[d] = request[d],
         \A e \in 1..Calls : call[e] # NoCall => call'[e] # NoCall,
         \A i \in Ids : Granted(i)' = Granted(i)
  PROVE  Called(d)'
<1>1. Issued' = Issued /\ Used' = Used /\ secret' = secret
  BY StoreIdle DEF StoreRests
<1>2. Called(d) /\ d \in Nat /\ \A i \in call[d].revoked : i \in Ids
  BY CallsAssumption DEF CInv, TypeOK, NoCall, Call
<1>3. ASSUME call'[d] # NoCall, NEW e \in 1..(d - 1) PROVE call'[e] # NoCall
  <2>1. e \in 1..Calls
    BY <1>2, CallsAssumption
  <2>2. QED
    BY <1>2, <1>3, <2>1 DEF Called
<1>4. QED
  BY <1>1, <1>2, <1>3 DEF Called

(* A call ends, and its request is delivered, given up or left as it is.    *)
Closes(c, at, exit) ==
  /\ Open(c)
  /\ request' = [request EXCEPT ![c].at = at]
  /\ \/ at = request[c].at
     \/ request[c].at = "sent" /\ at = "cut"
     \/ request[c].at = "answered" /\ at = "delivered"
  /\ Close(c, exit)
  /\ exit \in {"ok", "error", "gone", "not_found"}
  /\ at = "delivered" /\ request[c].op # "wrap" => exit = goneExit(request[c].outcome)
  /\ exit \in {"gone", "not_found"} => at = "delivered" /\ request[c].op # "wrap"
  /\ at # "delivered" => exit = "error"
  /\ StoreRests

(* A command that ends leaves the store and the other commands alone.      *)
LEMMA CloseStep ==
  ASSUME CInv, NEW c \in 1..Calls, NEW at, NEW exit, Closes(c, at, exit)
  PROVE  /\ Core' /\ Issued' = Issued /\ Used' = Used
         /\ \A d \in 1..Calls : SameReply(d)
         /\ \A d \in 1..Calls : call'[d].cmd = call[d].cmd /\ call'[d].id = call[d].id
         /\ \A d \in 1..Calls \ {c} : request'[d] = request[d]
         /\ request'[c].at = at
<1>1. TypeOK /\ call[c].exit = "open"
  BY DEF CInv, Closes, Open
<1>2. /\ call[c] \in Call /\ request[c] \in {NoRequest} \cup Request
      /\ call[c] # NoCall
  BY <1>1 DEF TypeOK, ServiceTypeOK, NoCall
<1>3. /\ call'[c] \in Call /\ call'[c].cmd = call[c].cmd /\ call'[c].id = call[c].id
      /\ call'[c].quorum = call[c].quorum /\ call'[c].exit = exit
      /\ call'[c].revoked = call[c].revoked /\ call'[c] # NoCall
      /\ \A d \in 1..Calls \ {c} : call'[d] = call[d]
      /\ call' \in [1..Calls -> {NoCall} \cup Call]
  <2>1. call' = [call EXCEPT ![c] = [call[c] EXCEPT !.exit = exit]]
    BY <1>1 DEF Closes, Close, TypeOK
  <2>2. PICK new : new = [call[c] EXCEPT !.exit = exit]
    OBVIOUS
  <2>3. /\ new \in Call /\ new.cmd = call[c].cmd /\ new.id = call[c].id
        /\ new.quorum = call[c].quorum /\ new.exit = exit /\ new.revoked = call[c].revoked
    BY <1>2, <2>2 DEF Call, Closes
  <2>4. new # NoCall
    BY <2>3 DEF Call, NoCall, Cli, Page
  <2>5. call' = [call EXCEPT ![c] = new]
    BY <2>1, <2>2
  <2>6. QED
    BY <1>1, <2>3, <2>4, <2>5 DEF TypeOK
<1>4. /\ SameReply(c) /\ request'[c].at = at /\ request'[c] \in {NoRequest} \cup Request
      /\ \A d \in 1..Calls \ {c} : request'[d] = request[d]
      /\ request' \in [1..Calls -> {NoRequest} \cup Request]
      /\ at = request[c].at => request'[c] = request[c]
  <2>1. request' = [request EXCEPT ![c] = [request[c] EXCEPT !.at = at]]
    BY <1>1 DEF Closes, TypeOK, ServiceTypeOK
  <2>2. PICK new : new = [request[c] EXCEPT !.at = at]
    OBVIOUS
  <2>3. /\ new.op = request[c].op /\ new.id = request[c].id /\ new.reads = request[c].reads
        /\ new.outcome = request[c].outcome /\ new.left = request[c].left /\ new.at = at
    BY <1>2, <2>2 DEF Request, NoRequest
  <2>4. at = request[c].at => new = request[c]
    BY <1>2, <2>2 DEF Request, NoRequest
  <2>5. new \in {NoRequest} \cup Request
    <3>1. CASE at = request[c].at
      BY <1>2, <2>4, <3>1
    <3>2. CASE at # request[c].at
      BY <1>2, <2>2, <3>2 DEF Closes, Request, NoRequest
    <3>3. QED
      BY <3>1, <3>2
  <2>6. request' = [request EXCEPT ![c] = new]
    BY <2>1, <2>2
  <2>7. QED
    BY <1>1, <2>3, <2>4, <2>5, <2>6 DEF TypeOK, ServiceTypeOK, SameReply
<1>5. StoreRests
  BY DEF Closes
<1>6. \A d \in 1..Calls : SameReply(d)
  BY <1>4 DEF SameReply
<1>7. \A d \in 1..Calls, i \in Ids : Stays(d, i)
  BY <1>6 DEF Stays
<1>8. /\ StoreForward /\ GrantsForward /\ Issued' = Issued /\ Used' = Used
      /\ \A i \in Ids : Budgeted(i)' /\ Granted(i)' = Granted(i)
  BY <1>5, <1>7, StoreAside
<1>9. Housekeeping'
  <2>1. {d \in 1..Calls : call'[d].cmd \in Wrappers} = {d \in 1..Calls : call[d].cmd \in Wrappers}
    BY <1>3
  <2>2. QED
    BY <1>5, <2>1, HousekeepingStays DEF CInv, Housekeeping
<1>10. ASSUME NEW d \in 1..Calls PROVE Truthful(d)'
  BY <1>1, <1>6, <1>8, TruthfulStays DEF CInv
<1>11. ASSUME NEW d \in 1..Calls PROVE Shaped(d)'
  <2>1. CASE d # c
    BY <1>3, <1>4, <1>8, <2>1, ShapedStays DEF CInv
  <2>2. CASE d = c
    <3>1. /\ Shaped(c) /\ call'[c].cmd = call[c].cmd /\ call'[c].id = call[c].id
          /\ call'[c] # NoCall
      BY <1>3 DEF CInv
    <3>2. CASE at = request[c].at
      BY <1>2, <1>4, <1>8, <2>2, <3>1, <3>2 DEF Shaped, StoreForward
    <3>3. CASE at # request[c].at
      <4>1. /\ request[c].at \in {"sent", "answered"} /\ at \in {"cut", "delivered"}
            /\ at = "cut" => request[c].at = "sent"
        BY <3>3 DEF Closes
      <4>2. request[c] # NoRequest
        BY <4>1 DEF NoRequest
      <4>3. QED
        BY <1>2, <1>4, <1>8, <2>2, <3>1, <4>1, <4>2 DEF Shaped, SameReply
    <3>4. QED
      BY <3>2, <3>3
  <2>3. QED
    BY <2>1, <2>2
<1>12. ASSUME NEW d \in 1..Calls PROVE Called(d)'
  <2>1. \A e \in 1..Calls : call[e] # NoCall => call'[e] # NoCall
    BY <1>3
  <2>2. CASE d # c
    BY <1>3, <1>4, <1>5, <1>8, <2>1, <2>2, CalledKept
  <2>3. CASE d = c
    <3>1. Called(c) /\ c \in Nat /\ \A i \in call[c].revoked : i \in Ids
      BY <1>2, CallsAssumption DEF CInv, Call
    <3>2. ASSUME NEW e \in 1..(c - 1) PROVE call'[e] # NoCall
      <4>1. e \in 1..Calls
        BY <3>1, CallsAssumption
      <4>2. QED
        BY <1>2, <2>1, <3>1, <4>1 DEF Called
    <3>3. /\ exit # "open"
          /\ at = "delivered" /\ request[c].op # "wrap" => exit = goneExit(request[c].outcome)
          /\ exit \in {"gone", "not_found"} => at = "delivered" /\ request[c].op # "wrap"
          /\ at # "delivered" => exit = "error"
      BY DEF Closes
    <3>4. secret' = secret
      BY <1>5 DEF StoreRests
    <3>5. ASSUME NEW i \in call'[c].revoked
          PROVE  i \in Used' /\ (i \in Issued' => secret'[i].revoked) /\ c \notin Granted(i)'
      BY <1>3, <1>8, <3>1, <3>4 DEF Called
    <3>6. /\ call'[c].quorum
          /\ request'[c].op = request[c].op /\ request'[c].outcome = request[c].outcome
      BY <1>3, <1>4, <3>1 DEF Called, SameReply
    <3>7. call'[c].exit = exit /\ request'[c].at = at
      BY <1>3, <1>4
    <3>8. QED
      BY <2>3, <3>2, <3>3, <3>5, <3>6, <3>7 DEF Called
  <2>4. QED
    BY <2>2, <2>3
<1>13. ServiceTypeOK' /\ population' \in Populations
  BY <1>1, <1>4, <1>5 DEF StoreRests, TypeOK, ServiceTypeOK
<1>14. Core'
  BY <1>3, <1>8, <1>9, <1>10, <1>11, <1>12, <1>13 DEF Core
<1>15. QED
  BY <1>3, <1>4, <1>6, <1>8, <1>14

(* What was confirmed as revoked when a call began.                        *)
LEMMA ConfirmedIs ==
  ASSUME CInv, NEW i \in ConfirmedRevoked
  PROVE  i \in Used /\ i \in Ids /\ (i \in Issued => secret[i].revoked)
<1>1. PICK d \in 1..Calls : /\ i = request[d].id /\ request[d].op = "revoke"
                            /\ request[d].outcome = "ok"
  BY DEF ConfirmedRevoked
<1>2. i \in Used
  BY <1>1 DEF CInv, Shaped
<1>3. QED
  BY <1>1, <1>2, UsedIds DEF CInv, Truthful

(* A call begins, with a request or without.                               *)
Enters(c, cmd, id, exit) ==
  /\ Begins(c, cmd)
  /\ Enter(c, cmd, id, TRUE, exit)
  /\ \/ exit \in {"ok", "error", "usage"} /\ request' = request
     \/ /\ exit = "open" /\ OpOf(cmd) \in {"wrap", "unwrap", "peek", "revoke"}
        /\ \E reads \in Nat : Send(c, OpOf(cmd), id, reads)
        /\ IF cmd \in Wrappers THEN id = Absent ELSE id \in Used \cup {Never, Malformed}
  /\ cmd \in Wrappers => MayWrap
  /\ StoreRests

Entered(c, cmd, id) ==
  /\ Core' /\ Issued' = Issued /\ Used' = Used
  /\ call[c] = NoCall /\ call'[c].cmd = cmd /\ call'[c].id = id
  /\ \A d \in 1..Calls \ {c} : call'[d] = call[d] /\ request'[d] = request[d]
  /\ request'[c].at # "delivered" /\ request'[c].id \in {Absent, id}
  /\ \A d \in 1..Calls : call[d] # NoCall => d < c

(* So does a command that begins.                                          *)
LEMMA EnterStep ==
  ASSUME CInv, NEW c \in 1..Calls, NEW cmd \in Cli \cup Page,
         NEW id \in Ids \cup {Malformed, Absent}, NEW exit, Enters(c, cmd, id, exit)
  PROVE  Entered(c, cmd, id)
<1>1. TypeOK /\ StoreRests /\ exit \in {"open", "ok", "error", "usage"}
  BY DEF CInv, Enters
<1>2. /\ call[c] = NoCall /\ request[c] = NoRequest
      /\ \A d \in 1..(c - 1) : call[d] # NoCall
  BY DEF Enters, Begins, CInv, Shaped
<1>3. \A d \in 1..Calls : call[d] # NoCall => d < c
  <2>1. ASSUME NEW d \in 1..Calls, call[d] # NoCall, c < d PROVE FALSE
    <3>1. c \in 1..(d - 1)
      BY <2>1, CallsAssumption
    <3>2. QED
      BY <1>2, <2>1, <3>1 DEF CInv, Called
  <2>2. QED
    BY <1>2, <2>1, CallsAssumption
<1>4. /\ call' \in [1..Calls -> {NoCall} \cup Call]
      /\ call'[c].cmd = cmd /\ call'[c].id = id /\ call'[c].quorum /\ call'[c].exit = exit
      /\ call'[c].revoked = ConfirmedRevoked /\ call'[c] # NoCall
      /\ \A d \in 1..Calls \ {c} : call'[d] = call[d]
  <2>1. PICK new : new = [cmd |-> cmd, id |-> id, quorum |-> TRUE, exit |-> exit,
                          revoked |-> ConfirmedRevoked]
    OBVIOUS
  <2>2. ConfirmedRevoked \subseteq Ids
    BY ConfirmedIs
  <2>3. new \in Call
    BY <1>1, <2>1, <2>2 DEF Call
  <2>4. new # NoCall
    BY <2>1 DEF NoCall, Cli, Page
  <2>5. call' = [call EXCEPT ![c] = new]
    BY <2>1 DEF Enters, Enter
  <2>6. QED
    BY <1>1, <2>1, <2>3, <2>4, <2>5 DEF TypeOK
<1>5. /\ request' \in [1..Calls -> {NoRequest} \cup Request]
      /\ \A d \in 1..Calls \ {c} : request'[d] = request[d]
      /\ request'[c].outcome = "pending"
      /\ \/ request'[c] = NoRequest
         \/ /\ request'[c].at = "sent" /\ request'[c].op = OpOf(cmd) /\ request'[c].id = id
            /\ exit = "open"
            /\ IF cmd \in Wrappers THEN id = Absent ELSE id \in Used \cup {Never, Malformed}
  <2>1. CASE request' = request
    BY <1>1, <1>2, <2>1 DEF TypeOK, ServiceTypeOK, NoRequest
  <2>2. CASE request' # request
    <3>1. PICK reads \in Nat : Send(c, OpOf(cmd), id, reads)
      BY <2>2 DEF Enters
    <3>2. /\ OpOf(cmd) \in {"wrap", "unwrap", "peek", "revoke"}
          /\ IF cmd \in Wrappers THEN id = Absent ELSE id \in Used \cup {Never, Malformed}
          /\ exit = "open"
      BY <2>2 DEF Enters
    <3>3. PICK new : new = [NoRequest EXCEPT !.at = "sent", !.op = OpOf(cmd), !.id = id,
                                             !.reads = reads]
      OBVIOUS
    <3>4. /\ new \in Request /\ new.at = "sent" /\ new.op = OpOf(cmd) /\ new.id = id
          /\ new.outcome = "pending"
      BY <3>2, <3>3 DEF NoRequest, Request, Outcomes
    <3>5. request' = [request EXCEPT ![c] = new]
      BY <3>1, <3>3 DEF Send
    <3>6. QED
      BY <1>1, <3>2, <3>4, <3>5 DEF TypeOK, ServiceTypeOK
  <2>3. QED
    BY <2>1, <2>2
<1>6. ASSUME NEW d \in 1..Calls, NEW i \in Ids PROVE Stays(d, i)
  <2>1. CASE d # c
    BY <1>5, <2>1 DEF Stays, SameReply
  <2>2. CASE d = c
    <3>1. ~Concerns(c, i)
      BY <1>2, NeverAssumption DEF Concerns, NoRequest
    <3>2. ~Concerns(c, i)'
      <4>1. CASE request'[c] = NoRequest
        BY <4>1, NeverAssumption DEF Concerns, NoRequest
      <4>2. CASE /\ request'[c].op = OpOf(cmd) /\ request'[c].id = id
                 /\ IF cmd \in Wrappers THEN id = Absent ELSE id \in Used \cup {Never, Malformed}
        <5>1. OpOf(cmd) = "wrap" <=> cmd \in Wrappers
          BY DEF OpOf, Wrappers
        <5>2. QED
          BY <1>5, <4>2, <5>1, NeverAssumption DEF Concerns, Grant, Withdrawn
      <4>3. QED
        BY <1>5, <4>1, <4>2
    <3>3. QED
      BY <2>2, <3>1, <3>2 DEF Stays
  <2>3. QED
    BY <2>1, <2>2
<1>7. /\ StoreForward /\ GrantsForward /\ Issued' = Issued /\ Used' = Used
      /\ \A i \in Ids : Budgeted(i)' /\ Granted(i)' = Granted(i)
  BY <1>1, <1>6, StoreAside
<1>8. Housekeeping'
  <2> DEFINE W == {d \in 1..Calls : call[d].cmd \in Wrappers}
             V == {d \in 1..Calls : call'[d].cmd \in Wrappers}
  <2>1. IsFiniteSet(W) /\ Cardinality(W) \in Nat /\ Cardinality(Ids \ {Never}) \in Nat
    BY CallSets, IdSets
  <2>2. c \notin W
    BY <1>2 DEF NoCall, Wrappers
  <2>3. CASE cmd \in Wrappers
    <3>1. V = W \cup {c}
      BY <1>4, <2>3
    <3>2. Cardinality(V) = Cardinality(W) + 1
      BY <2>1, <2>2, <3>1, FS_AddElement
    <3>3. Cardinality(W) < Cardinality(Ids \ {Never})
      BY <2>3 DEF Enters, MayWrap, Wrappers
    <3>4. Cardinality(V) <= Cardinality(Ids \ {Never})
      BY <2>1, <3>2, <3>3
    <3>5. QED
      BY <1>1, <3>4, HousekeepingStays
  <2>4. CASE cmd \notin Wrappers
    <3>1. V = W
      BY <1>4, <2>2, <2>4
    <3>2. Cardinality(V) <= Cardinality(Ids \ {Never})
      BY <3>1 DEF CInv, Housekeeping
    <3>3. QED
      BY <1>1, <3>2, HousekeepingStays
  <2>5. QED
    BY <2>3, <2>4
<1>9. ASSUME NEW d \in 1..Calls PROVE Shaped(d)' /\ Truthful(d)'
  <2>1. CASE d # c
    <3>1. SameReply(d) /\ call'[d] = call[d] /\ request'[d] = request[d]
      BY <1>4, <1>5, <2>1 DEF SameReply
    <3>2. QED
      BY <1>1, <1>7, <3>1, ShapedStays, TruthfulStays DEF CInv
  <2>2. CASE d = c
    <3>1. Truthful(c)'
      BY <1>5 DEF Truthful, Reasons
    <3>2. Shaped(c)'
      <4>1. CASE request'[c] = NoRequest
        BY <4>1 DEF Shaped, NoRequest
      <4>2. CASE /\ request'[c].at = "sent" /\ request'[c].op = OpOf(cmd) /\ request'[c].id = id
                 /\ IF cmd \in Wrappers THEN id = Absent ELSE id \in Used \cup {Never, Malformed}
        <5>1. OpOf(cmd) = "wrap" <=> cmd \in Wrappers
          BY DEF OpOf, Wrappers
        <5>2. QED
          BY <1>4, <1>5, <1>7, <4>2, <5>1 DEF Shaped
      <4>3. QED
        BY <1>5, <4>1, <4>2
    <3>3. QED
      BY <2>2, <3>1, <3>2
  <2>3. QED
    BY <2>1, <2>2
<1>10. ASSUME NEW d \in 1..Calls PROVE Called(d)'
  <2>1. \A e \in 1..Calls : call[e] # NoCall => call'[e] # NoCall
    BY <1>4
  <2>2. CASE d # c
    BY <1>1, <1>4, <1>5, <1>7, <2>1, <2>2, CalledKept
  <2>3. CASE d = c
    <3>1. ASSUME NEW e \in 1..(c - 1) PROVE call'[e] # NoCall
      <4>1. e \in 1..Calls
        BY CallsAssumption
      <4>2. QED
        BY <1>2, <2>1, <4>1
    <3>2. ASSUME NEW i \in call'[c].revoked
          PROVE  i \in Used' /\ (i \in Issued' => secret'[i].revoked) /\ c \notin Granted(i)'
      <4>1. i \in Used /\ (i \in Issued => secret[i].revoked)
        BY <1>4, <3>2, ConfirmedIs
      <4>2. c \notin Granted(i)'
        BY <1>5 DEF Granted
      <4>3. QED
        BY <1>1, <1>7, <4>1, <4>2 DEF StoreRests
    <3>3. /\ request'[c].at # "delivered" /\ exit \notin {"gone", "not_found"}
          /\ request'[c].at # "none" => exit = "open"
      BY <1>1, <1>5 DEF NoRequest
    <3>4. QED
      BY <1>4, <2>3, <3>1, <3>2, <3>3 DEF Called
  <2>4. QED
    BY <2>2, <2>3
<1>11. ServiceTypeOK' /\ population' \in Populations
  BY <1>1, <1>5 DEF StoreRests, TypeOK, ServiceTypeOK
<1>12. Core'
  BY <1>4, <1>7, <1>8, <1>9, <1>10, <1>11 DEF Core
<1>13. request'[c].at # "delivered" /\ request'[c].id \in {Absent, id}
  BY <1>5 DEF NoRequest
<1>14. QED
  BY <1>2, <1>3, <1>4, <1>5, <1>7, <1>12, <1>13 DEF Entered

(* A call that begins changes nothing of what others were given.            *)
LEMMA OutputsEntered ==
  ASSUME CInv, NEW c \in 1..Calls, NEW cmd, NEW id, Entered(c, cmd, id),
         cmd \in Wrappers => id = Absent, shares' = shares,
         tokens' = tokens \/ (cmd = "print" /\ id \in Used \cup {Never}
                                            /\ tokens' = tokens \cup {id} /\ Reassembled(id))
  PROVE  Outputs'
<1>1. tokens' \subseteq Used' \cup {Never} /\ shares' \subseteq Used' \X (1..NumShares)
  BY DEF CInv, Outputs, Entered
<1>2. ASSUME NEW d \in 1..Calls,
             request'[d].at = "delivered", request'[d].op = "wrap", request'[d].outcome = "ok"
      PROVE  /\ call'[d].cmd \in {"wrap", "create"} => request'[d].id \in tokens'
             /\ call'[d].cmd = "split" => AllShares(request'[d].id) \subseteq shares'
  <2>1. d # c /\ request'[d] = request[d] /\ call'[d] = call[d]
    BY <1>2 DEF Entered
  <2>2. QED
    BY <1>2, <2>1 DEF CInv, Outputs
<1>3. SplitCustody'
  <2> SUFFICES ASSUME NEW d \in 1..Calls, call'[d].cmd \in {"split", "create_split"},
                      request'[d].id \in tokens'
               PROVE  /\ \E e \in (d + 1)..Calls :
                           call'[e].cmd = "print" /\ call'[e].id = request'[d].id
                      /\ Reassembled(request'[d].id)
    BY DEF SplitCustody, Reassembled
  <2>1. d # c
    <3>1. tokens' \subseteq Ids
      BY NeverAssumption, UsedIds DEF CInv, TypeOK
    <3>2. QED
      BY <3>1, NeverAssumption DEF Entered, Wrappers
  <2>2. call'[d] = call[d] /\ request'[d] = request[d] /\ d < c
    BY <2>1 DEF Entered, NoCall
  <2>3. CASE request[d].id \in tokens
    <3>1. Reassembled(request[d].id)
      BY <2>2, <2>3 DEF CInv, Outputs, SplitCustody
    <3>2. PICK e \in (d + 1)..Calls : call[e].cmd = "print" /\ call[e].id = request[d].id
      BY <2>2, <2>3 DEF CInv, Outputs, SplitCustody
    <3>3. e \in 1..Calls /\ e # c
      BY <3>2, CallsAssumption DEF Entered, NoCall
    <3>4. QED
      BY <2>2, <3>1, <3>2, <3>3 DEF Entered
  <2>4. CASE request[d].id \notin tokens
    <3>1. cmd = "print" /\ request[d].id = id /\ Reassembled(id)
      BY <2>2, <2>4
    <3>2. c \in (d + 1)..Calls
      BY <2>2, CallsAssumption
    <3>3. QED
      BY <2>2, <3>1, <3>2 DEF Entered
  <2>5. QED
    BY <2>3, <2>4
<1>4. QED
  BY <1>1, <1>2, <1>3 DEF Outputs, AllShares

(* A command outside the page leaves the tab alone.                        *)
LEMMA TabEntered ==
  ASSUME CInv, NEW c \in 1..Calls, NEW cmd, NEW id, Entered(c, cmd, id),
         cmd \notin {"load", "click"}, tab' = tab
  PROVE  Tabbed'
<1>1. \A d \in 1..Calls : call'[d].cmd \in {"load", "click"} => call'[d] = call[d]
  BY DEF Entered
<1>2. \A d \in 1..Calls : call[d].cmd \in {"load", "click"} =>
        d # c /\ call'[d] = call[d] /\ request'[d] = request[d]
  BY DEF Entered, NoCall
<1>3. Clicked' = Clicked
  BY <1>1, <1>2 DEF Clicked
<1>4. QED
  BY <1>1, <1>2, <1>3 DEF CInv, Tabbed

(* Shares give a token that was issued, or one that never was.              *)
LEMMA CombinedIs ==
  ASSUME CInv, NEW some \in SUBSET shares
  PROVE  Combined(some) \in Used \cup {Never}
<1>1. CASE Cardinality({s[1] : s \in some}) = 1
  <2>1. some # {}
    <3>1. ASSUME some = {} PROVE FALSE
      <4>1. {s[1] : s \in some} = {}
        BY <3>1
      <4>2. QED
        BY <1>1, <4>1, FS_EmptySet
    <3>2. QED
      BY <3>1
  <2>2. PICK s \in some : s = CHOOSE t \in some : TRUE
    BY <2>1
  <2>3. s \in Used \X (1..NumShares)
    BY DEF CInv, Outputs
  <2>4. QED
    BY <1>1, <2>2, <2>3 DEF Combined
<1>2. QED
  BY <1>1 DEF Combined

(* A call that dials or ends at once.                                      *)
LEMMA DialStep ==
  ASSUME CInv, NEW c \in 1..Calls, NEW cmd \in Cli \cup Page, NEW op, op = OpOf(cmd),
         op # "none", NEW id \in Ids \cup {Malformed, Absent}, NEW reads \in Nat,
         IF cmd \in Wrappers THEN id = Absent /\ MayWrap ELSE id \in Used \cup {Never, Malformed},
         Dial(c, cmd, id, TRUE, op, reads), population' = population
  PROVE  Entered(c, cmd, id) /\ StoreRests
<1>1. StoreRests
  BY DEF Dial, Quiet, Elsewhere, StoreRests
<1>2. OpOf(cmd) \in {"wrap", "unwrap", "peek", "revoke"}
  BY DEF OpOf
<1>3. CASE server = "running"
  <2>1. Enters(c, cmd, id, "open")
    BY <1>1, <1>2, <1>3 DEF Dial, Enters
  <2>2. QED
    BY <1>1, <2>1, EnterStep
<1>4. CASE server # "running"
  <2>1. Enters(c, cmd, id, "error")
    BY <1>1, <1>4 DEF Dial, Enters
  <2>2. QED
    BY <1>1, <2>1, EnterStep
<1>5. QED
  BY <1>3, <1>4

(* A command that ends before it sends a request (cmdWrap, cmdCombine).    *)
LEMMA LocalStep ==
  ASSUME CInv, NEW c \in 1..Calls, NEW cmd \in Cli \cup Page, NEW exit \in {"ok", "usage"},
         NEW id \in Ids \cup {Absent}, cmd \in Wrappers => MayWrap,
         EndLocally(c, cmd, id, exit), population' = population
  PROVE  Entered(c, cmd, id) /\ StoreRests
<1>1. StoreRests
  BY DEF EndLocally, Quiet, Elsewhere, StoreRests
<1>2. Enters(c, cmd, id, exit)
  BY <1>1 DEF EndLocally, Enters
<1>3. QED
  BY <1>1, <1>2, EnterStep

(* The commands that leave the tab alone and show nothing at once.          *)
LEMMA PlainStep ==
  ASSUME CInv, NEW c \in 1..Calls, NEW cmd, NEW id, Entered(c, cmd, id), StoreRests,
         cmd \in Wrappers => id = Absent, cmd \notin {"load", "click"},
         UNCHANGED <<tokens, shares, tab>>
  PROVE  CInv'
<1>1. Outputs' /\ Tabbed'
  BY OutputsEntered, TabEntered
<1>2. QED
  BY <1>1, ClientStep DEF Entered

(* The commands of the CLI, and the form of the page.                      *)
LEMMA CliStep ==
  ASSUME CInv, NEW c \in 1..Calls,
         \/ cmdWrap(c) \/ cmdWrapSplit(c) \/ cmdOnToken(c) \/ cmdCombine(c) \/ create(c)
  PROVE  CInv'
<1>1. population.reads \subseteq Nat /\ population.typos \subseteq {Never, Malformed}
  BY PopulationsAssumption DEF CInv, TypeOK
<1>2. ASSUME NEW cmd \in Wrappers, NEW reads \in population.reads, MayWrap,
             Dial(c, cmd, Absent, TRUE, "wrap", reads), UNCHANGED <<population, tokens, shares, tab>>
      PROVE  CInv'
  <2>1. cmd \in Cli \cup Page /\ OpOf(cmd) = "wrap" /\ cmd \notin {"load", "click"}
    BY DEF Wrappers, Cli, Page, OpOf
  <2>2. Entered(c, cmd, Absent) /\ StoreRests
    BY <1>1, <1>2, <2>1, DialStep
  <2>3. QED
    BY <1>2, <2>1, <2>2, PlainStep
<1>3. ASSUME NEW cmd \in {"split", "combine"}, cmd = "split" => MayWrap,
             EndLocally(c, cmd, Absent, "usage"), UNCHANGED <<population, tokens, shares, tab>>
      PROVE  CInv'
  <2>1. cmd \in Cli \cup Page /\ cmd \notin {"load", "click"} /\ (cmd \in Wrappers => MayWrap)
    BY <1>3 DEF Wrappers, Cli, Page
  <2>2. Entered(c, cmd, Absent) /\ StoreRests
    BY <1>3, <2>1, LocalStep
  <2>3. QED
    BY <1>3, <2>1, <2>2, PlainStep
<1>4. ASSUME NEW cmd \in {"unwrap", "peek", "revoke", "combine"}, NEW op, op = OpOf(cmd),
             NEW id \in Used \cup {Never, Malformed},
             Dial(c, cmd, id, TRUE, op, 0), UNCHANGED <<population, tokens, shares, tab>>
      PROVE  CInv'
  <2>1. cmd \in Cli \cup Page /\ op # "none" /\ cmd \notin {"load", "click"} \cup Wrappers
    BY <1>4 DEF Wrappers, Cli, Page, OpOf
  <2>2. id \in Ids \cup {Malformed, Absent}
    BY UsedIds, NeverAssumption DEF CInv
  <2>3. Entered(c, cmd, id) /\ StoreRests
    BY <1>4, <2>1, <2>2, DialStep
  <2>4. QED
    BY <1>4, <2>1, <2>3, PlainStep
<1>5. CASE cmdWrap(c)
  <2>1. PICK reads \in population.reads : Dial(c, "wrap", Absent, TRUE, "wrap", reads)
    BY <1>5 DEF cmdWrap
  <2>2. "wrap" \in Wrappers
    BY DEF Wrappers
  <2>3. QED
    BY <1>2, <1>5, <2>1, <2>2 DEF cmdWrap
<1>6. CASE cmdWrapSplit(c)
  <2>1. MayWrap /\ UNCHANGED <<population, tokens, shares, tab>>
    BY <1>6 DEF cmdWrapSplit
  <2>2. ASSUME NEW reads \in population.reads, Dial(c, "split", Absent, TRUE, "wrap", reads)
        PROVE  CInv'
    <3>1. "split" \in Wrappers
      BY DEF Wrappers
    <3>2. QED
      BY <1>2, <2>1, <2>2, <3>1
  <2>3. ASSUME EndLocally(c, "split", Absent, "usage") PROVE CInv'
    BY <1>3, <2>1, <2>3
  <2>4. QED
    BY <1>6, <2>2, <2>3 DEF cmdWrapSplit
<1>7. CASE cmdOnToken(c)
  <2>1. PICK cmd \in {"unwrap", "peek", "revoke"}, id \in tokens \cup population.typos :
          Dial(c, cmd, id, TRUE, cmd, 0)
    BY <1>7 DEF cmdOnToken
  <2>2. id \in Used \cup {Never, Malformed}
    BY <1>1 DEF CInv, Outputs
  <2>3. cmd = OpOf(cmd)
    BY DEF OpOf, Wrappers
  <2>4. QED
    BY <1>4, <1>7, <2>1, <2>2, <2>3 DEF cmdOnToken
<1>8. CASE cmdCombine(c)
  <2>1. PICK some \in SUBSET shares :
          IF Combines(some)
            THEN Dial(c, "combine", Combined(some), TRUE, "unwrap", 0)
            ELSE EndLocally(c, "combine", Absent, "usage")
    BY <1>8 DEF cmdCombine
  <2>2. UNCHANGED <<population, tokens, shares, tab>>
    BY <1>8 DEF cmdCombine
  <2>3. CASE Combines(some)
    <3>1. PICK id \in Used \cup {Never, Malformed} : id = Combined(some)
      BY CombinedIs
    <3>2. Dial(c, "combine", id, TRUE, "unwrap", 0)
      BY <2>1, <2>3, <3>1
    <3>3. OpOf("combine") = "unwrap"
      BY DEF OpOf, Wrappers
    <3>4. QED
      BY <1>4, <2>2, <3>2, <3>3
  <2>4. CASE ~Combines(some)
    BY <1>3, <2>1, <2>2, <2>4
  <2>5. QED
    BY <2>3, <2>4
<1>9. CASE create(c)
  <2>1. PICK reads \in population.reads, cmd \in {"create", "create_split"} :
          Dial(c, cmd, Absent, TRUE, "wrap", reads)
    BY <1>9 DEF create
  <2>2. cmd \in Wrappers
    BY DEF Wrappers
  <2>3. QED
    BY <1>2, <1>9, <2>1, <2>2 DEF create
<1>10. QED
  BY <1>5, <1>6, <1>7, <1>8, <1>9

(* combine --print-token shows the token of a quorum.                       *)
LEMMA PrintStep ==
  ASSUME CInv, NEW c \in 1..Calls, cmdCombinePrint(c)
  PROVE  CInv'
<1>1. PICK some \in SUBSET shares :
        /\ Combines(some) /\ EndLocally(c, "print", Combined(some), "ok")
        /\ tokens' = tokens \cup {Combined(some)}
  BY DEF cmdCombinePrint
<1>2. UNCHANGED <<population, shares, tab>>
  BY DEF cmdCombinePrint
<1>3. "print" \in (Cli \cup Page) \ (Wrappers \cup {"load", "click"})
  BY DEF Cli, Page, Wrappers
<1>4. PICK id \in Used \cup {Never} : id = Combined(some)
  BY CombinedIs
<1>5. id \in Ids \cup {Absent}
  BY UsedIds, NeverAssumption DEF CInv
<1>6. Entered(c, "print", id) /\ StoreRests
  BY <1>1, <1>2, <1>3, <1>4, <1>5, LocalStep
<1>7. Reassembled(id)
  BY <1>1, <1>4 DEF Reassembled
<1>8. Outputs' /\ Tabbed'
  BY <1>1, <1>2, <1>3, <1>4, <1>6, <1>7, OutputsEntered, TabEntered
<1>9. QED
  BY <1>6, <1>8, ClientStep DEF Entered

(* A tab is opened: its page is the one that peeks.                         *)
LEMMA LoadStep ==
  ASSUME CInv, NEW c \in 1..Calls, beginUnwrap(c)
  PROVE  CInv'
<1>1. PICK id \in tokens : /\ Dial(c, "load", id, TRUE, "peek", 0)
                           /\ tab' = [tab EXCEPT !.id = id]
  BY DEF beginUnwrap
<1>2. UNCHANGED <<population, tokens, shares>> /\ tab.id = Absent
  BY DEF beginUnwrap
<1>3. "load" \in (Cli \cup Page) \ Wrappers /\ "peek" = OpOf("load")
  BY DEF Cli, Page, Wrappers, OpOf
<1>4. id \in Used \cup {Never, Malformed} /\ id \in Ids
  BY UsedIds, NeverAssumption DEF CInv, Outputs
<1>5. Entered(c, "load", id) /\ StoreRests
  BY <1>1, <1>2, <1>3, <1>4, DialStep
<1>6. Outputs'
  BY <1>2, <1>3, <1>5, OutputsEntered
<1>7. Tabbed'
  <2>1. /\ tab' \in [id : Ids \cup {Absent}, panels : SUBSET {"waiting", "revealed", "gone"},
                     clicks : Nat, code : Outcomes \cup {"none"}]
        /\ tab'.id = id /\ tab'.panels = tab.panels /\ tab'.clicks = tab.clicks
        /\ tab'.code = tab.code
    BY <1>1, <1>4 DEF CInv, Tabbed
  <2>2. \A d \in 1..Calls : call[d].cmd \notin {"load", "click"}
    BY <1>2 DEF CInv, Tabbed
  <2>3. \A d \in 1..Calls : call'[d].cmd \in {"load", "click"} => d = c
    BY <1>5, <2>2 DEF Entered
  <2>4. call'[c].cmd = "load" /\ call'[c].id = id
    BY <1>5 DEF Entered
  <2>5. Clicked' = Clicked
    BY <2>2, <2>3, <2>4 DEF Clicked
  <2>6. tab.code = "none" /\ ~(tab.clicks > 0) /\ "waiting" \notin tab.panels
    BY <2>2 DEF CInv, Tabbed
  <2>7. tab.clicks = Cardinality(Clicked)
    BY DEF CInv, Tabbed
  <2>8. QED
    BY <1>4, <2>1, <2>3, <2>4, <2>5, <2>6, <2>7, NeverAssumption DEF Tabbed
<1>8. QED
  BY <1>5, <1>6, <1>7, ClientStep DEF Entered

(* The reveal button is clicked, for the token that the page was loaded with.*)
LEMMA ClickStep ==
  ASSUME CInv, NEW c \in 1..Calls, clickReveal(c)
  PROVE  CInv'
<1>1. PICK l \in 1..Calls : /\ call[l].cmd = "load" /\ request[l].at = "delivered"
                            /\ request[l].outcome = "ok"
  BY DEF CInv, Tabbed, clickReveal
<1>2. PICK id : id = tab.id
  OBVIOUS
<1>3. id \in Ids /\ id \in Used \cup {Never, Malformed}
  <2>1. id = call[l].id /\ id \in Ids
    BY <1>1, <1>2 DEF CInv, Tabbed
  <2>2. request[l].op # "wrap"
    BY <1>1 DEF CInv, Shaped, OpOf, Wrappers
  <2>3. QED
    BY <1>1, <2>1, <2>2 DEF CInv, Shaped
<1>4. "click" \in (Cli \cup Page) \ Wrappers /\ "unwrap" = OpOf("click")
  BY DEF Cli, Page, Wrappers, OpOf
<1>5. UNCHANGED <<population, tokens, shares>> /\ tab' = [tab EXCEPT !.clicks = @ + 1]
  BY DEF clickReveal
<1>6. Dial(c, "click", id, TRUE, "unwrap", 0)
  BY <1>2 DEF clickReveal
<1>7. Entered(c, "click", id) /\ StoreRests
  BY <1>3, <1>4, <1>5, <1>6, DialStep
<1>8. Outputs'
  BY <1>4, <1>5, <1>7, OutputsEntered
<1>9. Tabbed'
  <2>1. /\ tab' \in [id : Ids \cup {Absent}, panels : SUBSET {"waiting", "revealed", "gone"},
                     clicks : Nat, code : Outcomes \cup {"none"}]
        /\ tab'.id = id /\ tab'.clicks = tab.clicks + 1 /\ tab'.code = tab.code
    BY <1>2, <1>5 DEF CInv, Tabbed
  <2>2. c \notin Clicked /\ IsFiniteSet(Clicked) /\ Cardinality(Clicked) \in Nat
    BY <1>7, CallSets DEF Clicked, Entered, NoCall
  <2>3. Clicked' = Clicked \cup {c}
    BY <1>7 DEF Clicked, Entered
  <2>4. Cardinality(Clicked') = Cardinality(Clicked) + 1
    BY <2>2, <2>3, FS_AddElement
  <2>5. \A d \in 1..Calls : call[d].cmd \in {"load", "click"} =>
          d # c /\ call'[d] = call[d] /\ request'[d] = request[d]
    BY <1>7 DEF Entered, NoCall
  <2>6. \A d \in 1..Calls : d # c => call'[d] = call[d]
    BY <1>7 DEF Entered
  <2>7. call'[c].cmd = "click" /\ call'[c].id = id
    BY <1>7 DEF Entered
  <2>8. /\ call'[l].cmd = "load" /\ request'[l].at = "delivered" /\ request'[l].outcome = "ok"
    BY <1>1, <2>5
  <2>9. tab.clicks = Cardinality(Clicked)
    BY DEF CInv, Tabbed
  <2>10. \A d \in 1..Calls : call'[d].cmd \in {"load", "click"} =>
           call'[d].id = tab'.id /\ tab'.id # Absent
    BY <1>2, <1>3, <2>1, <2>6, <2>7, NeverAssumption DEF CInv, Tabbed
  <2>11. \A d, e \in 1..Calls : call'[d].cmd = "load" /\ call'[e].cmd = "load" => d = e
    BY <2>6, <2>7 DEF CInv, Tabbed
  <2>12. tab'.code # "none" =>
           \E d \in 1..Calls : /\ call'[d].cmd \in {"load", "click"}
                               /\ request'[d].at = "delivered" /\ request'[d].outcome = tab'.code
    BY <2>1, <2>5 DEF CInv, Tabbed
  <2>13. QED
    BY <2>1, <2>4, <2>8, <2>9, <2>10, <2>11, <2>12 DEF Tabbed
<1>10. QED
  BY <1>7, <1>8, <1>9, ClientStep DEF Entered

(* The invariant outlives the start of a command.                          *)
LEMMA CommandStep ==
  ASSUME CInv, NEW c \in 1..Calls, Command(c)
  PROVE  CInv'
BY CliStep, PrintStep, LoadStep, ClickStep DEF Command

(* A response that is shown, and the exit code it is shown with.            *)
LEMMA DeliverCloses ==
  ASSUME CInv, NEW c \in 1..Calls, Deliver(c), population' = population,
         NEW exit, Close(c, exit),
         \/ exit = goneExit(request[c].outcome)
         \/ request[c].op = "wrap" /\ exit \in {"ok", "error"}
  PROVE  Closes(c, "delivered", exit)
<1>1. StoreRests
  BY DEF Deliver, Quiet, Elsewhere, StoreRests
<1>2. goneExit(request[c].outcome) \in {"ok", "error", "gone", "not_found"}
  BY DEF goneExit
<1>3. request[c].op = "wrap" => goneExit(request[c].outcome) \notin {"gone", "not_found"}
  BY DEF CInv, Shaped, goneExit, Reasons
<1>4. QED
  BY <1>1, <1>2, <1>3 DEF Closes, Deliver

(* What is printed or shown of a response.                                 *)
LEMMA OutputsClosed ==
  ASSUME CInv, NEW c \in 1..Calls, NEW at, NEW exit, Closes(c, at, exit),
         tokens \subseteq tokens', tokens' \subseteq tokens \cup {request[c].id},
         shares \subseteq shares', shares' \subseteq shares \cup AllShares(request[c].id),
         tokens' # tokens \/ shares' # shares => request[c].op = "wrap" /\ request[c].outcome = "ok",
         tokens' # tokens => call[c].cmd \notin {"split", "create_split"},
         at = "delivered" /\ request[c].op = "wrap" /\ request[c].outcome = "ok" =>
           /\ call[c].cmd \in {"wrap", "create"} => request[c].id \in tokens'
           /\ call[c].cmd = "split" => AllShares(request[c].id) \subseteq shares'
  PROVE  Outputs'
<1>1. /\ Core' /\ Issued' = Issued /\ Used' = Used
      /\ \A d \in 1..Calls : /\ SameReply(d)
                             /\ call'[d].cmd = call[d].cmd /\ call'[d].id = call[d].id
      /\ \A d \in 1..Calls \ {c} : request'[d] = request[d]
      /\ request'[c].at = at
  BY CloseStep
<1>2. request[c].op = "wrap" /\ request[c].outcome = "ok" => request[c].id \in Used
  BY DEF CInv, Shaped
<1>3. tokens' \subseteq Used' \cup {Never} /\ shares' \subseteq Used' \X (1..NumShares)
  BY <1>1, <1>2 DEF CInv, Outputs, AllShares
<1>4. ASSUME NEW d \in 1..Calls,
             request'[d].at = "delivered", request'[d].op = "wrap", request'[d].outcome = "ok"
      PROVE  /\ call'[d].cmd \in {"wrap", "create"} => request'[d].id \in tokens'
             /\ call'[d].cmd = "split" => AllShares(request'[d].id) \subseteq shares'
  <2>1. CASE d = c
    BY <1>1, <1>4, <2>1 DEF SameReply
  <2>2. CASE d # c
    <3>1. request'[d] = request[d] /\ call'[d].cmd = call[d].cmd
      BY <1>1, <2>2
    <3>2. QED
      BY <1>4, <3>1 DEF CInv, Outputs
  <2>3. QED
    BY <2>1, <2>2
<1>5. SplitCustody'
  <2> SUFFICES ASSUME NEW d \in 1..Calls, call'[d].cmd \in {"split", "create_split"},
                      request'[d].id \in tokens'
               PROVE  /\ \E e \in (d + 1)..Calls :
                           call'[e].cmd = "print" /\ call'[e].id = request'[d].id
                      /\ Reassembled(request[d].id)'
    BY DEF SplitCustody, Reassembled
  <2>1. call[d].cmd = call'[d].cmd /\ request[d].id = request'[d].id
    BY <1>1 DEF SameReply
  <2>2. CASE request[d].id \in tokens
    <3>1. Reassembled(request[d].id)
      BY <2>1, <2>2 DEF CInv, Outputs, SplitCustody
    <3>2. Reassembled(request[d].id)'
      BY <2>1, <3>1 DEF Reassembled
    <3>3. PICK e \in (d + 1)..Calls : call[e].cmd = "print" /\ call[e].id = request[d].id
      BY <2>1, <2>2 DEF CInv, Outputs, SplitCustody
    <3>4. e \in 1..Calls
      BY <3>3, CallsAssumption
    <3>5. QED
      BY <1>1, <2>1, <3>2, <3>3, <3>4
  <2>3. CASE request[d].id \notin tokens
    <3>1. /\ request[d].id = request[c].id /\ request[c].op = "wrap"
          /\ request[c].outcome = "ok" /\ call[c].cmd \notin {"split", "create_split"}
      BY <2>1, <2>3
    <3>2. request[c].id \in Used /\ request[c].id \in Ids
      BY <1>2, <3>1, UsedIds DEF CInv
    <3>3. request[d].op = "wrap"
      <4>1. request[d].at # "none"
        BY <3>1, <3>2, NeverAssumption DEF CInv, Shaped, NoRequest
      <4>2. QED
        BY <2>1, <4>1 DEF CInv, Shaped, OpOf, Wrappers
    <3>4. c \in Wraps(request[c].id) /\ d \in Wraps(request[c].id)
      BY <3>1, <3>3 DEF Wraps
    <3>5. c = d
      BY <3>2, <3>4 DEF CInv, Budgeted
    <3>6. QED
      BY <2>1, <3>1, <3>5
  <2>4. QED
    BY <2>2, <2>3
<1>6. QED
  BY <1>3, <1>4, <1>5 DEF Outputs, AllShares

(* What the tab's other requests said stays said.                          *)
LEMMA TabClosed ==
  ASSUME CInv, NEW c \in 1..Calls, NEW at, NEW exit, Closes(c, at, exit)
  PROVE  /\ tab' = tab => Tabbed'
         /\ Clicked' = Clicked
         /\ \A d \in 1..Calls : request[d].at = "delivered" => request'[d] = request[d]
<1>1. /\ \A d \in 1..Calls : call'[d].cmd = call[d].cmd /\ call'[d].id = call[d].id
      /\ \A d \in 1..Calls \ {c} : request'[d] = request[d]
  BY CloseStep
<1>2. request[c].at # "delivered"
  BY DEF Closes, Open, CInv, Called
<1>3. Clicked' = Clicked
  BY <1>1 DEF Clicked
<1>4. \A d \in 1..Calls : request[d].at = "delivered" => request'[d] = request[d]
  BY <1>1, <1>2
<1>5. ASSUME tab' = tab PROVE Tabbed'
  BY <1>1, <1>3, <1>4, <1>5 DEF CInv, Tabbed
<1>6. QED
  BY <1>3, <1>4, <1>5

(* It outlives a command that ends without its response.                   *)
LEMMA GiveUpStep ==
  ASSUME CInv, NEW c \in 1..Calls, GiveUp(c)
  PROVE  CInv'
<1>1. \E at : Closes(c, at, "error")
  <2>1. StoreRests /\ Open(c) /\ Close(c, "error")
    BY DEF GiveUp, Quiet, Elsewhere, StoreRests
  <2>2. request[c].at # "delivered"
    BY <2>1 DEF Open, CInv, Called
  <2>3. CASE request' = request
    <3>1. request' = [request EXCEPT ![c].at = request[c].at]
      BY <2>3 DEF CInv, TypeOK, ServiceTypeOK, NoRequest, Request
    <3>2. PICK at : at = request[c].at
      OBVIOUS
    <3>3. Closes(c, at, "error")
      BY <2>1, <2>2, <3>1, <3>2 DEF Closes
    <3>4. QED
      BY <3>3
  <2>4. CASE request[c].at = "sent" /\ request' = [request EXCEPT ![c].at = "cut"]
    BY <2>1, <2>4 DEF Closes
  <2>5. QED
    BY <2>3, <2>4 DEF GiveUp
<1>2. PICK at : Closes(c, at, "error")
  BY <1>1
<1>3. UNCHANGED <<tokens, shares, tab>>
  BY DEF GiveUp
<1>4. at = "delivered" => FALSE
  <2>1. /\ call[c].exit = "open" /\ request[c].at # "delivered"
        /\ request'[c].at = at
    BY <1>2, CloseStep DEF Closes, Open, CInv, Called
  <2>2. request'[c].at # "delivered"
    BY <2>1 DEF GiveUp, CInv, TypeOK, ServiceTypeOK, NoRequest, Request
  <2>3. QED
    BY <2>1, <2>2
<1>5. Outputs'
  BY <1>2, <1>3, <1>4, OutputsClosed
<1>6. Tabbed' /\ Core' /\ StoreRests
  BY <1>2, <1>3, TabClosed, CloseStep DEF Closes
<1>7. QED
  BY <1>5, <1>6, ClientStep

(* A response is shown outside the tab.                                    *)
LEMMA ReceiveStep ==
  ASSUME CInv, NEW c \in 1..Calls, Receive(c) \/ ReceiveSplit(c) \/ ReceiveCreateSplit(c)
  PROVE  CInv'
<1>1. Deliver(c) /\ population' = population /\ tab' = tab
  BY DEF Receive, ReceiveSplit, ReceiveCreateSplit
<1>2. request[c].at # "none" /\ request[c].op = OpOf(call[c].cmd) /\ call[c].quorum
  BY <1>1 DEF Deliver, CInv, Shaped, Called
<1>3. PICK usual : usual = goneExit(request[c].outcome)
  OBVIOUS
<1>4. ASSUME NEW exit, Closes(c, "delivered", exit), Outputs' PROVE CInv'
  <2>1. Tabbed' /\ Core' /\ StoreRests
    BY <1>1, <1>4, TabClosed, CloseStep DEF Closes
  <2>2. QED
    BY <1>4, <2>1, ClientStep
<1>5. CASE Receive(c)
  <2>1. Closes(c, "delivered", usual)
    BY <1>1, <1>3, <1>5, DeliverCloses DEF Receive
  <2>2. request[c].op = "wrap" => call[c].cmd \in {"wrap", "create"}
    BY <1>2, <1>5 DEF Receive, OpOf, Wrappers, Cli
  <2>3. /\ shares' = shares
        /\ tokens' = IF request[c].op = "wrap" /\ request[c].outcome = "ok"
                       THEN tokens \cup {request[c].id} ELSE tokens
    BY <1>5 DEF Receive
  <2>4. Outputs'
    BY <2>1, <2>2, <2>3, OutputsClosed
  <2>5. QED
    BY <1>4, <2>1, <2>4
<1>6. CASE ReceiveSplit(c)
  <2>1. call[c].cmd = "split" /\ request[c].op = "wrap" /\ tokens' = tokens
    BY <1>2, <1>6 DEF ReceiveSplit, OpOf, Wrappers
  <2>2. CASE request[c].outcome = "ok"
    <3>1. Close(c, "ok") /\ shares' = shares \cup AllShares(request[c].id)
      BY <1>2, <1>6, <2>2 DEF ReceiveSplit
    <3>2. Closes(c, "delivered", "ok")
      BY <1>1, <2>1, <3>1, DeliverCloses
    <3>3. Outputs'
      BY <2>1, <2>2, <3>1, <3>2, OutputsClosed
    <3>4. QED
      BY <1>4, <3>2, <3>3
  <2>3. CASE request[c].outcome # "ok"
    <3>1. Close(c, usual) /\ shares' = shares
      BY <1>2, <1>3, <1>6, <2>3 DEF ReceiveSplit
    <3>2. Closes(c, "delivered", usual)
      BY <1>1, <1>3, <3>1, DeliverCloses
    <3>3. Outputs'
      BY <2>1, <2>3, <3>1, <3>2, OutputsClosed
    <3>4. QED
      BY <1>4, <3>2, <3>3
  <2>4. QED
    BY <2>2, <2>3
<1>7. CASE ReceiveCreateSplit(c)
  <2>1. call[c].cmd = "create_split" /\ request[c].op = "wrap" /\ tokens' = tokens
    BY <1>2, <1>7 DEF ReceiveCreateSplit, OpOf, Wrappers
  <2>2. PICK exit \in {"ok", "error"} :
          /\ Close(c, exit)
          /\ \/ request[c].outcome = "ok" /\ shares' = shares \cup AllShares(request[c].id)
             \/ shares' = shares
    BY <1>7 DEF ReceiveCreateSplit
  <2>3. Closes(c, "delivered", exit)
    BY <1>1, <2>1, <2>2, DeliverCloses
  <2>4. Outputs'
    BY <2>1, <2>2, <2>3, OutputsClosed
  <2>5. QED
    BY <1>4, <2>3, <2>4
<1>8. QED
  BY <1>5, <1>6, <1>7

(* A response is shown in the tab.                                         *)
LEMMA ReceiveTabStep ==
  ASSUME CInv, NEW c \in 1..Calls, ReceiveTab(c)
  PROVE  CInv'
<1>1. /\ Deliver(c) /\ call[c].cmd \in {"load", "click"}
      /\ UNCHANGED <<population, tokens, shares>>
  BY DEF ReceiveTab
<1>2. PICK usual : usual = goneExit(request[c].outcome)
  OBVIOUS
<1>3. Closes(c, "delivered", usual)
  BY <1>1, <1>2, DeliverCloses DEF ReceiveTab
<1>4. request[c].op # "wrap"
  BY <1>1 DEF Deliver, CInv, Shaped, OpOf, Wrappers
<1>5. Outputs'
  BY <1>1, <1>3, <1>4, OutputsClosed
<1>6. /\ Core'
      /\ \A d \in 1..Calls : call'[d].cmd = call[d].cmd /\ call'[d].id = call[d].id
      /\ request'[c].at = "delivered" /\ request'[c].outcome = request[c].outcome
      /\ Clicked' = Clicked
      /\ \A d \in 1..Calls : request[d].at = "delivered" => request'[d] = request[d]
  BY <1>3, CloseStep, TabClosed DEF SameReply
<1>7. Tabbed'
  <2>1. /\ tab'.id = tab.id /\ tab'.clicks = tab.clicks
        /\ tab' \in [id : Ids \cup {Absent}, panels : SUBSET {"waiting", "revealed", "gone"},
                     clicks : Nat, code : Outcomes \cup {"none"}]
        /\ "waiting" \in tab'.panels =>
             "waiting" \in tab.panels \/ (call[c].cmd = "load" /\ request[c].outcome = "ok")
        /\ tab'.code = tab.code \/ tab'.code = request[c].outcome
    <3>1. tab \in [id : Ids \cup {Absent}, panels : SUBSET {"waiting", "revealed", "gone"},
                   clicks : Nat, code : Outcomes \cup {"none"}]
      BY DEF CInv, Tabbed
    <3>2. request[c].outcome \in Outcomes
      BY <1>1 DEF Deliver, CInv, TypeOK, ServiceTypeOK, NoRequest, Request
    <3>3. CASE request[c].outcome # "ok"
      <4>1. tab' = [tab EXCEPT !.panels = (@ \ {"waiting"}) \cup {"gone"},
                               !.code = request[c].outcome]
        BY <3>3 DEF ReceiveTab, renderGone
      <4>2. QED
        BY <3>1, <3>2, <4>1
    <3>4. CASE request[c].outcome = "ok" /\ call[c].cmd = "load"
      <4>1. tab' = [tab EXCEPT !.panels = @ \cup {"waiting"}]
        BY <3>4 DEF ReceiveTab
      <4>2. QED
        BY <3>1, <3>4, <4>1
    <3>5. CASE request[c].outcome = "ok" /\ call[c].cmd # "load"
      <4>1. tab' = [tab EXCEPT !.panels = (@ \ {"waiting"}) \cup {"revealed"}]
        BY <3>5 DEF ReceiveTab
      <4>2. QED
        BY <3>1, <4>1
    <3>6. QED
      BY <3>3, <3>4, <3>5
  <2>2. \A d \in 1..Calls : call'[d].cmd \in {"load", "click"} =>
          call'[d].id = tab'.id /\ tab'.id # Absent
    BY <1>6, <2>1 DEF CInv, Tabbed
  <2>3. \A d, e \in 1..Calls : call'[d].cmd = "load" /\ call'[e].cmd = "load" => d = e
    BY <1>6 DEF CInv, Tabbed
  <2>4. tab'.clicks = Cardinality(Clicked')
    BY <1>6, <2>1 DEF CInv, Tabbed
  <2>5. tab'.clicks > 0 \/ "waiting" \in tab'.panels =>
          \E d \in 1..Calls : /\ call'[d].cmd = "load"
                              /\ request'[d].at = "delivered" /\ request'[d].outcome = "ok"
    BY <1>6, <2>1 DEF CInv, Tabbed
  <2>6. tab'.code # "none" =>
          \E d \in 1..Calls : /\ call'[d].cmd \in {"load", "click"}
                              /\ request'[d].at = "delivered" /\ request'[d].outcome = tab'.code
    BY <1>1, <1>6, <2>1 DEF CInv, Tabbed
  <2>7. QED
    BY <2>1, <2>2, <2>3, <2>4, <2>5, <2>6 DEF Tabbed
<1>8. QED
  BY <1>3, <1>5, <1>6, <1>7, ClientStep DEF Closes

----------------------------------------------------------------------------
(* The invariant holds before the first command.                           *)
LEMMA InitCInv == Init => CInv
<1> SUFFICES ASSUME Init PROVE CInv
  OBVIOUS
<1>1. /\ \A c \in 1..Calls : request[c] = NoRequest /\ call[c] = NoCall
      /\ \A id \in Ids : secret[id] = Absent
      /\ spent = {} /\ forgotten = {} /\ tokens = {} /\ shares = {} /\ tab = ClosedTab
  BY DEF Init, ServiceInit, Store!Init
<1>2. Issued = {} /\ Used = {}
  BY <1>1 DEF Issued, Store!Issued, Used
<1>3. TypeOK
  BY <1>1, BootsAssumption
  DEF Init, ServiceInit, Store!Init, TypeOK, ServiceTypeOK, Zero, ClosedTab
<1>4. \A id \in Ids : Granted(id) = {} /\ Wraps(id) = {} /\ Asked(id) = 0
  BY <1>1, NeverAssumption DEF Granted, Wraps, Asked, NoRequest
<1>5. \A id \in Ids : Budgeted(id)
  BY <1>2, <1>4, FS_EmptySet DEF Budgeted
<1>6. \A c \in 1..Calls : Shaped(c) /\ Truthful(c)
  BY <1>1 DEF Shaped, Truthful, NoRequest, Reasons
<1>7. ASSUME NEW c \in 1..Calls PROVE Called(c)
  <2>1. /\ call[c] = NoCall /\ NoCall.exit = "none" /\ NoCall.revoked = {}
        /\ request[c].at = "none"
    <3>1. call[c] = NoCall
      BY <1>1
    <3>2. NoCall.exit = "none" /\ NoCall.revoked = {}
      BY DEF NoCall
    <3>3. request[c].at = "none"
      BY <1>1 DEF NoRequest
    <3>4. QED
      BY <3>1, <3>2, <3>3
  <2>2. call[c].quorum = TRUE
    BY <1>1 DEF NoCall
  <2>3. call[c].quorum
    BY <2>2, Zenon
  <2>4. QED
    BY <2>1, <2>3 DEF Called
<1>8. Housekeeping
  <2>1. {c \in 1..Calls : call[c].cmd \in Wrappers} = {}
    BY <1>1 DEF NoCall, Wrappers
  <2>2. Cardinality(Ids \ {Never}) \in Nat
    BY IdSets
  <2>3. Cardinality({c \in 1..Calls : call[c].cmd \in Wrappers}) <= Cardinality(Ids \ {Never})
    BY <2>1, <2>2, FS_EmptySet
  <2>4. QED
    BY <1>1, <1>2, <2>3 DEF Housekeeping
<1>9. Outputs
  BY <1>1 DEF Outputs, NoRequest, SplitCustody
<1>10. Tabbed
  <2>1. Clicked = {}
    BY <1>1 DEF Clicked, NoCall
  <2>2. QED
    BY <1>1, <2>1, FS_EmptySet DEF Tabbed, ClosedTab, NoCall
<1>11. QED
  BY <1>3, <1>5, <1>6, <1>7, <1>8, <1>9, <1>10 DEF CInv

(* A step that changes nothing.                                            *)
LEMMA StutterCInv == CInv /\ UNCHANGED vars => CInv'
<1> SUFFICES ASSUME CInv, UNCHANGED vars PROVE CInv'
  OBVIOUS
<1>1. /\ UNCHANGED <<secret, request, server, boots, spent, counters>>
      /\ UNCHANGED <<now, forgotten>> /\ UNCHANGED clientVars
  BY DEF vars, serviceVars, storeVars
<1>2. now' \in Nat /\ now' >= now
  BY <1>1 DEF CInv, TypeOK, ServiceTypeOK
<1>3. Store!MayForget
  BY <1>1 DEF Store!MayForget
<1>4. QED
  BY <1>1, <1>2, <1>3, ElapseStep

(* The invariant is inductive.                                             *)
LEMMA NextCInv == CInv /\ [Next]_vars => CInv'
<1> SUFFICES ASSUME CInv, Next PROVE CInv'
  BY StutterCInv
<1>1. ASSUME NEW c \in 1..Calls, Response(c) PROVE CInv'
  BY <1>1, ReceiveStep, ReceiveTabStep DEF Response
<1>2. QED
  BY <1>1, CommandStep, GiveUpStep, ServerCInv DEF Next

(* The inductive invariant holds of every behaviour of the clients and the *)
(* server.                                                                 *)
THEOREM ClientsInvariance == Spec => []CInv
<1>1. QED
  BY InitCInv, NextCInv, PTL DEF Spec

(* The types of the clients and of the server.                             *)
THEOREM ClientsTypeCorrect == Spec => []TypeOK
<1>1. CInv => TypeOK
  BY DEF CInv
<1>2. QED
  BY <1>1, ClientsInvariance, PTL

(* However many clients ask, in whatever order their requests are handled   *)
(* and answered and however often the server restarts, no secret is served  *)
(* more often than its creator asked for (Take under the store's lock).     *)
THEOREM NeverOverserved == Spec => []ServedWithinBudget
<1>1. CInv => ServedWithinBudget
  BY DEF CInv, Budgeted, ServedWithinBudget
<1>2. QED
  BY <1>1, ClientsInvariance, PTL

(* writeGone never lies: an answer of a miss names the way in which the     *)
(* secret really ended, whenever the answer arrives.                        *)
THEOREM MissesAreTrue == Spec => []MissesHaveCause
<1>1. CInv => MissesHaveCause
  BY DEF CInv, Truthful, MissesHaveCause, Reasons
<1>2. QED
  BY <1>1, ClientsInvariance, PTL

(* reads_remaining of handleUnwrap is told from the entry that Take         *)
(* returned: no two readers are told the same number, and 0 is the last.    *)
THEOREM RemainingIsTrue == Spec => []RemainingHonest
<1>1. CInv => RemainingHonest
  BY DEF CInv, Budgeted, RemainingHonest
<1>2. QED
  BY <1>1, ClientsInvariance, PTL

(* Once a revocation was confirmed, no request begun later is given the     *)
(* secret.                                                                 *)
THEOREM RevocationHolds == Spec => []RevokedStaysUnread
<1>1. CInv => RevokedStaysUnread
  BY DEF CInv, Called, RevokedStaysUnread
<1>2. QED
  BY <1>1, ClientsInvariance, PTL

(* goneExit: 3 is returned exactly for evidence of an end, 4 only where     *)
(* there is none.                                                          *)
THEOREM ExitCodesAreTrue == Spec => []ExitCodesTruthful
<1>1. CInv => ExitCodesTruthful
  <2> SUFFICES ASSUME CInv, NEW c \in 1..Calls
               PROVE  /\ request[c].at = "delivered" /\ request[c].outcome \in Reasons =>
                           call[c].exit = "gone"
                      /\ call[c].exit = "gone" =>
                           \/ call[c].id \in spent
                           \/ call[c].id \in Issued /\ Store!Over(call[c].id)
                      /\ call[c].exit = "not_found" =>
                           call[c].id \in {Never, Malformed} \cup forgotten \cup spent
    BY DEF ExitCodesTruthful
  <2>1. Shaped(c) /\ Truthful(c) /\ Called(c)
    BY DEF CInv
  <2>2. ASSUME request[c].at = "delivered", request[c].outcome \in Reasons
        PROVE  call[c].exit = "gone"
    <3>1. request[c].op # "wrap"
      BY <2>1, <2>2 DEF Shaped, Reasons
    <3>2. call[c].exit = goneExit(request[c].outcome)
      BY <2>1, <2>2, <3>1 DEF Called
    <3>3. QED
      BY <2>2, <3>2 DEF goneExit, Reasons
  <2>3. ASSUME call[c].exit \in {"gone", "not_found"}
        PROVE  /\ request[c].id = call[c].id
               /\ call[c].exit = goneExit(request[c].outcome)
    <3>1. request[c].at = "delivered" /\ request[c].op # "wrap"
      BY <2>1, <2>3 DEF Called
    <3>2. QED
      BY <2>1, <3>1 DEF Called, Shaped
  <2>4. ASSUME call[c].exit = "gone"
        PROVE  \/ call[c].id \in spent
               \/ call[c].id \in Issued /\ Store!Over(call[c].id)
    <3>1. request[c].outcome \in Reasons
      BY <2>3, <2>4 DEF goneExit
    <3>2. PICK id : id = call[c].id
      OBVIOUS
    <3>3. id \in Used /\ (id \in Issued => Store!Over(id))
      BY <2>1, <2>3, <2>4, <3>1, <3>2 DEF Truthful
    <3>4. QED
      BY <3>2, <3>3 DEF Used
  <2>5. ASSUME call[c].exit = "not_found"
        PROVE  call[c].id \in {Never, Malformed} \cup forgotten \cup spent
    <3>1. request[c].outcome \in {"not_found", "auth_fail"}
      BY <2>3, <2>5 DEF goneExit
    <3>2. QED
      BY <2>1, <2>3, <2>5, <3>1 DEF Truthful
  <2>6. QED
    BY <2>2, <2>4, <2>5
<1>2. QED
  BY <1>1, ClientsInvariance, PTL

(* Exit code 0 of an unwrap is a secret in hand; a read that was spent and   *)
(* lost on the way ends in an error, never in 3 or 4 (cf.call, goneExit).   *)
THEOREM SpentReadsShow == Spec => []OwnReadReported
<1>1. CInv => OwnReadReported
  <2> SUFFICES ASSUME CInv, NEW id \in Ids, NEW c \in Granted(id)
               PROVE  call[c].exit \in
                        IF request[c].at = "delivered" /\ request[c].outcome = "ok"
                        THEN {"ok"} ELSE {"open", "error"}
    BY DEF OwnReadReported
  <2>1. /\ c \in 1..Calls /\ request[c].op = "unwrap"
        /\ request[c].outcome \in {"ok", "tamper"}
    BY DEF Granted
  <2>2. Shaped(c) /\ Called(c) /\ request[c].at # "none"
    BY <2>1 DEF CInv, Shaped, NoRequest
  <2>3. CASE request[c].at = "delivered"
    <3>1. call[c].exit = goneExit(request[c].outcome)
      BY <2>1, <2>2, <2>3 DEF Called
    <3>2. goneExit("ok") = "ok" /\ goneExit("tamper") = "error"
      BY DEF goneExit, Reasons
    <3>3. QED
      BY <2>1, <3>1, <3>2, <2>3
  <2>4. CASE request[c].at # "delivered"
    BY <2>2, <2>4 DEF Called
  <2>5. QED
    BY <2>3, <2>4
<1>2. QED
  BY <1>1, ClientsInvariance, PTL

(* The shares of one split are a quorum that names its secret.              *)
LEMMA AllSharesName ==
  ASSUME NEW id \in Ids
  PROVE  Combines(AllShares(id)) /\ Combined(AllShares(id)) = id
<1>1. NumShares \in Nat /\ 2 <= Threshold /\ Threshold <= NumShares /\ Threshold \in Nat
  BY QuorumAssumption
<1>2. Cardinality(AllShares(id)) = NumShares
  <2> DEFINE f == [n \in 1..NumShares |-> <<id, n>>]
  <2>1. f \in Bijection(1..NumShares, AllShares(id))
    BY DEF Bijection, Injection, Surjection, IsInjective, AllShares
  <2>2. IsFiniteSet(1..NumShares) /\ Cardinality(1..NumShares) = NumShares
    BY <1>1, FS_Interval
  <2>3. ExistsBijection(1..NumShares, AllShares(id))
    BY <2>1 DEF ExistsBijection
  <2>4. QED
    BY <2>2, <2>3, FS_Bijection
<1>3. \A s, t \in AllShares(id) : s # t => s[2] # t[2]
  BY DEF AllShares
<1>4. Combines(AllShares(id))
  BY <1>1, <1>2, <1>3 DEF Combines
<1>5. {s[1] : s \in AllShares(id)} = {id}
  <2>1. <<id, 1>> \in AllShares(id)
    BY <1>1 DEF AllShares
  <2>2. \A s \in AllShares(id) : s[1] = id
    BY DEF AllShares
  <2>3. QED
    BY <2>1, <2>2
<1>6. Cardinality({s[1] : s \in AllShares(id)}) = 1
  BY <1>5, FS_Singleton
<1>7. (CHOOSE s \in AllShares(id) : TRUE)[1] = id
  <2>1. <<id, 1>> \in AllShares(id)
    BY <1>1 DEF AllShares
  <2>2. (CHOOSE s \in AllShares(id) : TRUE) \in AllShares(id)
    BY <2>1
  <2>3. QED
    BY <2>2 DEF AllShares
<1>8. QED
  BY <1>4, <1>6, <1>7 DEF Combined

(* cmdWrap prints all shares or the token of what was stored: only the page *)
(* can store a secret and show nothing.                                     *)
THEOREM OthersNeverStrand == Spec => []OnlyThePageStrands
<1>1. CInv => OnlyThePageStrands
  <2> SUFFICES ASSUME CInv, NEW c \in 1..Calls, request[c].at = "delivered",
                      request[c].op = "wrap", request[c].outcome = "ok",
                      call[c].cmd # "create_split"
               PROVE  Nameable(request[c].id)
    BY DEF OnlyThePageStrands
  <2>1. call[c].cmd \in {"wrap", "split", "create"}
    BY DEF CInv, Shaped, OpOf, Wrappers
  <2>2. PICK id \in Ids : id = request[c].id
    BY UsedIds DEF CInv, Shaped
  <2>3. CASE call[c].cmd \in {"wrap", "create"}
    BY <2>3 DEF CInv, Outputs, Nameable
  <2>4. CASE call[c].cmd = "split"
    <3>1. AllShares(id) \in SUBSET shares
      BY <2>2, <2>4 DEF CInv, Outputs
    <3>2. Nameable(id)
      BY <3>1, AllSharesName DEF Nameable, Reassembled
    <3>3. QED
      BY <2>2, <3>2
  <2>5. QED
    BY <2>1, <2>3, <2>4
<1>2. QED
  BY <1>1, ClientsInvariance, PTL

(* The whole token of a split secret appears nowhere before someone         *)
(* combined a quorum of its own shares and had it printed.                  *)
THEOREM CustodyHolds == Spec => []SplitCustody
<1>1. CInv => SplitCustody
  BY DEF CInv, Outputs
<1>2. QED
  BY <1>1, ClientsInvariance, PTL

(* The page's alarm: who clicked once and is told "consumed" was beaten to  *)
(* every read.                                                             *)
THEOREM AlarmIsReal == Spec => []SingleClickAlarm
<1>1. CInv => SingleClickAlarm
  <2> SUFFICES ASSUME CInv, tab.code = "consumed", tab.clicks <= 1
               PROVE  Cardinality({c \in Granted(tab.id) : call[c].cmd \notin {"load", "click"}})
                        = Asked(tab.id)
    BY DEF SingleClickAlarm
  <2>1. PICK c \in 1..Calls : /\ call[c].cmd \in {"load", "click"}
                              /\ request[c].at = "delivered" /\ request[c].outcome = "consumed"
    BY DEF CInv, Tabbed
  <2>2. request[c].id = tab.id
    BY <2>1 DEF CInv, Shaped, Tabbed, OpOf, Wrappers
  <2>3. PICK id : id = tab.id
    OBVIOUS
  <2>4. Cardinality(Granted(id)) = Asked(id)
    BY <2>1, <2>2, <2>3 DEF CInv, Truthful
  <2>5. ASSUME NEW d \in Granted(id), call[d].cmd \in {"load", "click"} PROVE FALSE
    <3>1. d \in 1..Calls /\ request[d].op = "unwrap" /\ request[d].outcome \in {"ok", "tamper"}
      BY <2>5 DEF Granted
    <3>2. call[d].cmd = "click" /\ d # c
      BY <2>1, <2>5, <3>1 DEF CInv, Shaped, OpOf, Wrappers, NoRequest
    <3>3. IsFiniteSet(Clicked) /\ Cardinality(Clicked) \in Nat /\ d \in Clicked
      BY <3>1, <3>2, CallSets DEF Clicked
    <3>4. Cardinality(Clicked) = tab.clicks
      BY DEF CInv, Tabbed
    <3>5. CASE call[c].cmd = "click"
      <4>1. c \in Clicked \ {d}
        BY <2>1, <3>2, <3>5 DEF Clicked
      <4>2. IsFiniteSet(Clicked \ {d}) /\ Cardinality(Clicked \ {d}) = Cardinality(Clicked) - 1
        BY <3>3, FS_RemoveElement
      <4>3. Cardinality(Clicked \ {d}) # 0
        BY <4>1, <4>2, FS_EmptySet
      <4>4. QED
        BY <3>3, <3>4, <4>2, <4>3, FS_CardinalityType
    <3>6. CASE call[c].cmd = "load"
      <4>1. Cardinality(Clicked) # 0
        BY <3>3, FS_EmptySet
      <4>2. PICK l \in 1..Calls : call[l].cmd = "load" /\ request[l].outcome = "ok"
        BY <3>3, <3>4, <4>1 DEF CInv, Tabbed
      <4>3. l = c
        BY <3>6, <4>2 DEF CInv, Tabbed
      <4>4. QED
        BY <2>1, <4>2, <4>3
    <3>7. QED
      BY <2>1, <3>5, <3>6
  <2>6. {d \in Granted(id) : call[d].cmd \notin {"load", "click"}} = Granted(id)
    BY <2>5
  <2>7. QED
    BY <2>3, <2>4, <2>6
<1>2. QED
  BY <1>1, ClientsInvariance, PTL

(* The server stops with success by returning from Shutdown alone.          *)
LEMMA StopsDrained ==
  ASSUME [Next]_vars, server' = "stopped"
  PROVE  server = "stopped" \/ Drained
<1>1. CASE UNCHANGED vars
  BY <1>1 DEF vars, serviceVars
<1>2. ASSUME NEW c \in 1..Calls, Command(c) \/ Response(c) \/ GiveUp(c)
      PROVE  server' = server
  BY <1>2 DEF Command, cmdWrap, cmdWrapSplit, cmdOnToken, cmdCombine, cmdCombinePrint, create,
     beginUnwrap, clickReveal, Dial, EndLocally, Elsewhere, Response, Receive, ReceiveSplit,
     ReceiveCreateSplit, ReceiveTab, Deliver, GiveUp
<1>3. ASSUME NEW c \in 1..Calls, Handle(c) PROVE server' = server
  BY <1>3 DEF Handle, Limit, Invalid, TokenMalformed, HandleWrap, HandleUnwrap, HandlePeek,
     HandleRevoke, Missed, Handled, Elsewhere, Respond, RespondTampered, Answer
<1>4. CASE ServiceNext
  BY <1>3, <1>4 DEF ServiceNext, Pass, Forget, Elsewhere, Boot, Signal, ShutdownReturns,
     Drained, Deadline, Crash, End
<1>5. QED
  BY <1>1, <1>2, <1>4 DEF Next, Server

(* Once every handler has returned, whoever was served was told.            *)
LEMMA DrainedOwesNothing ==
  ASSUME CInv, Drained, NEW id \in Issued
  PROVE  /\ Told(id, "wrap") # {}
         /\ Cardinality(Told(id, "unwrap")) = Asked(id) - secret[id].left
         /\ secret[id].revoked => Told(id, "revoke") # {}
<1>1. id \in Ids /\ id \notin spent /\ Budgeted(id)
  BY UsedIds DEF CInv, Housekeeping
<1>2. ASSUME NEW c \in 1..Calls, request[c].id = id, request[c].outcome \in {"ok", "tamper"}
      PROVE  request[c].at \in {"answered", "delivered"}
  <2>1. request[c] \in Request
    BY <1>1, <1>2, NeverAssumption DEF CInv, TypeOK, ServiceTypeOK, NoRequest
  <2>2. request[c].at \notin {"sent", "handled", "cut"}
    BY <1>1, <1>2 DEF CInv, Shaped, Drained
  <2>3. QED
    BY <2>1, <2>2 DEF Request
<1>3. Told(id, "wrap") # {}
  <2>1. PICK c \in Wraps(id) : TRUE
    BY <1>1 DEF Budgeted, Used
  <2>2. c \in 1..Calls /\ request[c].op = "wrap" /\ request[c].id = id
    BY DEF Wraps
  <2>3. request[c].outcome = "ok"
    BY <1>1, <2>2, NeverAssumption DEF CInv, Shaped
  <2>4. QED
    BY <1>2, <2>2, <2>3 DEF Told
<1>4. Told(id, "unwrap") = Granted(id)
  BY <1>2 DEF Told, Granted
<1>5. Cardinality(Granted(id)) \in Nat /\ secret[id].left \in Nat
  BY <1>1, CallSets, SecretType DEF Granted, CInv
<1>6. Cardinality(Granted(id)) + secret[id].left = Asked(id)
  BY <1>1 DEF Budgeted
<1>7. secret[id].revoked => Told(id, "revoke") # {}
  BY <1>1, <1>2 DEF Budgeted, Told
<1>8. QED
  BY <1>3, <1>4, <1>5, <1>6, <1>7

(* Run returns nil only after every handler has returned: nothing was       *)
(* stored, read or revoked for a client that was not told.                  *)
THEOREM CleanExit == Spec => CleanExitOwesNothing
<1> DEFINE Clean == server' = "stopped" =>
                      \A id \in Issued :
                        /\ Told(id, "wrap") # {}
                        /\ Cardinality(Told(id, "unwrap")) = Asked(id) - secret[id].left
                        /\ secret[id].revoked => Told(id, "revoke") # {}
<1>1. CInv /\ [Next]_vars => Clean
  <2> SUFFICES ASSUME CInv, [Next]_vars, server' = "stopped", NEW id \in Issued
               PROVE  /\ Told(id, "wrap") # {}
                      /\ Cardinality(Told(id, "unwrap")) = Asked(id) - secret[id].left
                      /\ secret[id].revoked => Told(id, "revoke") # {}
    OBVIOUS
  <2>1. server # "stopped"
    BY DEF CInv, Housekeeping, Running
  <2>2. QED
    BY <2>1, StopsDrained, DrainedOwesNothing
<1>2. QED
  BY <1>1, ClientsInvariance, PTL DEF Spec, CleanExitOwesNothing

----------------------------------------------------------------------------
(* A step that is no store call is one that the store allows.               *)
LEMMA QuietElapses == CInv /\ Quiet => Store!Elapse
BY DEF CInv, TypeOK, ServiceTypeOK, Quiet, Store!Elapse, Store!MayForget

(* What a handler asks of the store, the abstract store allows.             *)
LEMMA HandlerAsks ==
  ASSUME CInv, NEW c \in 1..Calls, Handle(c)
  PROVE  Store!Next
<1>1. ASSUME NEW op \in {"take", "peek", "revoke"}, request[c].id \in Ids, Missed(c, op)
      PROVE  Store!Next
  BY <1>1 DEF Missed, Store!Next
<1>2. CASE Limit(c) \/ Invalid(c) \/ TokenMalformed(c) \/ Respond(c) \/ RespondTampered(c)
  BY <1>2, QuietElapses
  DEF Limit, Invalid, TokenMalformed, Respond, RespondTampered, Answer, Store!Next
<1>3. CASE HandleWrap(c)
  <2>1. FreshId \in Ids
    BY <1>3, FreshExists DEF HandleWrap, Arrived
  <2>2. Store!Issue(FreshId) \/ Store!Refuse(FreshId)
    BY <1>3 DEF HandleWrap
  <2>3. QED
    BY <2>1, <2>2 DEF Store!Next
<1>4. CASE HandleUnwrap(c)
  BY <1>1, <1>4 DEF HandleUnwrap, Store!Next
<1>5. CASE HandlePeek(c)
  BY <1>1, <1>5 DEF HandlePeek, Store!Next
<1>6. CASE HandleRevoke(c)
  BY <1>1, <1>6 DEF HandleRevoke, Store!Next
<1>7. QED
  BY <1>2, <1>3, <1>4, <1>5, <1>6 DEF Handle

(* Whatever the clients do, the handlers use the store as OneTimeSecret     *)
(* allows, which SecretStore implements; all that a process does beyond     *)
(* that is to take the secrets with it when it ends.                        *)
THEOREM StoreUsedAsPromised ==
  Spec => [][Store!Next \/ (server' \in {"stopped", "failed"}
                            /\ secret' = [id \in Ids |-> Absent])]_storeVars
<1> DEFINE Lawful == Store!Next \/ (server' \in {"stopped", "failed"}
                                   /\ secret' = [id \in Ids |-> Absent])
<1>1. CInv /\ [Next]_vars => Lawful \/ UNCHANGED storeVars
  <2> SUFFICES ASSUME CInv, Next PROVE Lawful
    BY DEF vars, serviceVars
  <2>1. ASSUME NEW c \in 1..Calls, Command(c) \/ Response(c) \/ GiveUp(c)
        PROVE  Quiet
    BY <2>1 DEF Command, cmdWrap, cmdWrapSplit, cmdOnToken, cmdCombine, cmdCombinePrint, create,
       beginUnwrap, clickReveal, Dial, EndLocally, Response, Receive, ReceiveSplit,
       ReceiveCreateSplit, ReceiveTab, Deliver, GiveUp
  <2>2. CASE Boot \/ Signal
    BY <2>2, QuietElapses DEF Boot, Signal, Store!Next
  <2>3. CASE Pass \/ Forget
    BY <2>3 DEF Pass, Forget, Store!Next
  <2>4. CASE ShutdownReturns \/ Crash
    BY <2>4 DEF ShutdownReturns, Drained, Deadline, Crash, End
  <2>5. QED
    BY <2>1, <2>2, <2>3, <2>4, QuietElapses, HandlerAsks DEF Next, Server, ServiceNext, Store!Next
<1>2. QED
  BY <1>1, ClientsInvariance, PTL DEF Spec

----------------------------------------------------------------------------
(***************************************************************************)
(* Proof that the counters of /metrics explain the store: with what is     *)
(* between the return of the store and the response they add up to what    *)
(* was issued, read and revoked.  The clients' invariant says how much of  *)
(* each secret is left; here it is summed over all secrets.                *)
(***************************************************************************)

(* A handler that is to answer with a reason, and so to count it, has seen  *)
(* a secret that ended that way; none is to answer "tamper" yet.            *)
Backed(c) ==
  request[c].at = "handled" =>
    /\ request[c].outcome # "tamper"
    /\ request[c].outcome \in Reasons =>
         request[c].id \in Issued /\ Store!Fate(request[c].id) = request[c].outcome

KInv ==
  /\ CountersExplainStore
  /\ IsFiniteSet(UsedUp)
  /\ \A c \in 1..Calls : Backed(c)

PendingCalls(op) ==
  {c \in 1..Calls :
     request[c].at = "handled" /\ request[c].op = op /\ request[c].outcome = "ok"}

RevokedIds == {id \in Issued : secret[id].revoked}

----------------------------------------------------------------------------
(* The sets that are counted are finite.                                   *)
LEMMA CountedSets ==
  ASSUME CInv
  PROVE  /\ \A op : /\ Pending(op) = Cardinality(PendingCalls(op)) /\ Pending(op) \in Nat
                    /\ IsFiniteSet(PendingCalls(op))
         /\ IsFiniteSet(Issued) /\ Cardinality(Issued) \in Nat
         /\ IsFiniteSet(RevokedIds) /\ Cardinality(RevokedIds) \in Nat
         /\ \A name \in Counted : counters[name] \in Nat
<1>1. ASSUME NEW op
      PROVE  /\ Pending(op) = Cardinality(PendingCalls(op)) /\ Pending(op) \in Nat
             /\ IsFiniteSet(PendingCalls(op))
  <2>1. PendingCalls(op) \in SUBSET (1..Calls) /\ Pending(op) = Cardinality(PendingCalls(op))
    BY DEF PendingCalls, Pending
  <2>2. QED
    BY <2>1, CallSets
<1>2. Issued \in SUBSET Ids /\ RevokedIds \in SUBSET Ids
  BY DEF Issued, RevokedIds
<1>3. \A name \in Counted : counters[name] \in Nat
  BY DEF CInv, TypeOK, ServiceTypeOK
<1>4. QED
  BY <1>1, <1>2, <1>3, IdSets

(* How a secret ended, as a function of what is known of it and the time.   *)
FateAt(s, time) ==
  CASE s.left = 0 -> "consumed"
    [] s.left # 0 /\ s.revoked -> "revoked"
    [] s.left # 0 /\ ~s.revoked /\ time >= s.deadline -> "expired"
    [] OTHER -> "live"

(* A fate that is an end stays it as time passes.                          *)
LEMMA FateAtStays ==
  ASSUME NEW s \in [left : Nat, deadline : Nat, revoked : BOOLEAN], NEW t \in Nat, NEW u \in Nat,
         u >= t, FateAt(s, t) \in Reasons
  PROVE  FateAt(s, u) = FateAt(s, t)
<1>1. CASE s.left = 0
  BY <1>1 DEF FateAt
<1>2. CASE s.left # 0 /\ s.revoked
  BY <1>2 DEF FateAt
<1>3. CASE s.left # 0 /\ ~s.revoked /\ t >= s.deadline
  <2>1. u >= s.deadline
    BY <1>3
  <2>2. QED
    BY <1>3, <2>1 DEF FateAt
<1>4. CASE s.left # 0 /\ ~s.revoked /\ ~(t >= s.deadline)
  BY <1>4 DEF FateAt, Reasons
<1>5. QED
  BY <1>1, <1>2, <1>3, <1>4

(* How a secret that is over ended never changes.                          *)
LEMMA FateFixed ==
  ASSUME CInv, NEW id \in Issued, Store!Fate(id) \in Reasons,
         secret'[id] = secret[id], now' \in Nat, now' >= now
  PROVE  id \in Issued' /\ Store!Fate(id)' = Store!Fate(id)
<1>1. secret[id] \in [left : Nat, deadline : Nat, revoked : BOOLEAN] /\ now \in Nat
  BY SecretType DEF CInv, TypeOK, ServiceTypeOK, Issued
<1>2. id \in Issued'
  BY DEF Issued, Store!Issued
<1>3. PICK s \in [left : Nat, deadline : Nat, revoked : BOOLEAN] : s = secret[id]
  BY <1>1
<1>4. PICK t \in Nat, u \in Nat : t = now /\ u = now'
  BY <1>1
<1>5. Store!Fate(id) = FateAt(s, t) /\ Store!Fate(id)' = FateAt(s, u)
  <2>1. Store!Fate(id) = FateAt(s, t)
    BY <1>3, <1>4 DEF Store!Fate, FateAt
  <2>2. s = secret'[id]
    BY <1>3
  <2>3. Store!Fate(id)' = FateAt(s, u)
    BY <1>4, <2>2 DEF Store!Fate, FateAt
  <2>4. QED
    BY <2>1, <2>3
<1>6. QED
  BY <1>2, <1>4, <1>5, FateAtStays

(* The reads that are used up stay the same in a step that takes none.      *)
LEMMA UsedUpStays ==
  ASSUME \A id \in Issued : /\ id \in Issued' /\ Asked(id)' = Asked(id)
                            /\ secret'[id].left = secret[id].left,
         \A id \in Issued' \ Issued : secret'[id].left \in Nat /\ Asked(id)' = secret'[id].left
  PROVE  UsedUp' = UsedUp
<1>1. ASSUME NEW id \in Issued' \ Issued PROVE 1..(Asked(id)' - secret'[id].left) = {}
  BY <1>1
<1>2. ASSUME NEW x \in UsedUp' PROVE x \in UsedUp
  <2>1. PICK id \in Issued' : x \in {id} \X (1..(Asked(id)' - secret'[id].left))
    BY <1>2 DEF UsedUp
  <2>2. id \in Issued
    BY <1>1, <2>1
  <2>3. QED
    BY <2>1, <2>2 DEF UsedUp
<1>3. ASSUME NEW x \in UsedUp PROVE x \in UsedUp'
  BY <1>3 DEF UsedUp
<1>4. QED
  BY <1>2, <1>3

----------------------------------------------------------------------------
(* A step that neither gets a result from the store nor counts one: what it *)
(* may do to a request.                                                    *)
Aside(c) ==
  \/ request'[c] = request[c]
  \/ /\ request[c].at # "handled"
     /\ request'[c].at = "handled" =>
          ~(request'[c].outcome = "ok" /\ request'[c].op \in {"wrap", "unwrap", "revoke"})
     /\ Backed(c)'
     /\ \/ /\ request'[c].op = request[c].op /\ request'[c].id = request[c].id
           /\ request'[c].reads = request[c].reads
        \/ ~Wrapped(c) /\ ~Wrapped(c)'

(* Such a step changes no figure.                                          *)
LEMMA AsideStep ==
  ASSUME CInv, KInv, UNCHANGED <<secret, counters>>, now' \in Nat, now' >= now,
         \A c \in 1..Calls : Aside(c)
  PROVE  KInv'
<1>1. Issued' = Issued /\ RevokedIds' = RevokedIds
  BY DEF Issued, Store!Issued, RevokedIds
<1>2. ASSUME NEW op \in {"wrap", "unwrap", "revoke"} PROVE Pending(op)' = Pending(op)
  <2>1. PendingCalls(op)' = PendingCalls(op)
    BY <1>2 DEF PendingCalls, Aside
  <2>2. QED
    BY <2>1 DEF PendingCalls, Pending
<1>3. UsedUp' = UsedUp
  <2>1. ASSUME NEW id \in Issued PROVE Asked(id)' = Asked(id)
    <3>1. id \in Ids /\ \A c, d \in Wraps(id) : c = d
      BY DEF Issued, CInv, Budgeted
    <3>2. QED
      BY <3>1, WrapsStay DEF Aside, Wrapped, Wraps
  <2>2. QED
    BY <1>1, <2>1, UsedUpStays
<1>4. ASSUME NEW id \in Issued, Store!Fate(id) \in Reasons
      PROVE  id \in Issued' /\ Store!Fate(id)' = Store!Fate(id)
  BY <1>4, FateFixed
<1>5. ASSUME NEW c \in 1..Calls PROVE Backed(c)'
  <2>1. CASE request'[c] = request[c]
    BY <1>4, <2>1 DEF KInv, Backed
  <2>2. QED
    BY <2>1 DEF Aside
<1>6. ASSUME NEW reason \in Reasons, counters'[reason] > 0
      PROVE  \E id \in Issued' : Store!Fate(id)' = reason
  BY <1>4, <1>6 DEF KInv, CountersExplainStore
<1>7. CountersExplainStore'
  BY <1>1, <1>2, <1>3, <1>6 DEF KInv, CountersExplainStore, RevokedIds
<1>8. QED
  BY <1>3, <1>5, <1>7 DEF KInv

(* What the clients do is none of the server's books.                      *)
LEMMA CallAside ==
  ASSUME CInv, KInv, NEW c \in 1..Calls, Command(c) \/ Response(c) \/ GiveUp(c)
  PROVE  KInv'
<1>1. Quiet /\ Elsewhere
  BY DEF Command, cmdWrap, cmdWrapSplit, cmdOnToken, cmdCombine, cmdCombinePrint, create,
     beginUnwrap, clickReveal, Dial, EndLocally, Response, Receive, ReceiveSplit,
     ReceiveCreateSplit, ReceiveTab, Deliver, GiveUp
<1>2. request \in [1..Calls -> {NoRequest} \cup Request] /\ now \in Nat
  BY DEF CInv, TypeOK, ServiceTypeOK
<1>3. ASSUME NEW d \in 1..Calls, Command(c) PROVE Aside(d)
  <2>1. CASE request' = request
    BY <2>1 DEF Aside
  <2>2. ASSUME NEW op, NEW id \in Ids \cup {Malformed, Absent}, NEW reads, Send(c, op, id, reads),
               call[c] = NoCall, op = "wrap" => id = Absent
        PROVE  Aside(d)
    <3>1. request[c] = NoRequest
      BY <2>2 DEF CInv, Shaped
    <3>2. CASE d # c
      BY <1>2, <2>2, <3>2 DEF Send, Aside
    <3>3. CASE d = c
      <4>1. /\ request'[c].at = "sent" /\ request'[c].op = op /\ request'[c].id = id
            /\ request[c].at = "none" /\ request[c].op = "none"
        BY <1>2, <2>2, <3>1 DEF Send, NoRequest
      <4>2. ~Wrapped(c) /\ ~Wrapped(c)'
        BY <2>2, <4>1, NeverAssumption DEF Wrapped
      <4>3. QED
        BY <3>3, <4>1, <4>2 DEF Aside, Backed
    <3>4. QED
      BY <3>2, <3>3
  <2> DEFINE Sends ==
        \/ request' = request
        \/ \E op \in {"wrap", "unwrap", "peek", "revoke"}, id \in Ids \cup {Malformed, Absent},
              reads \in Nat :
             Send(c, op, id, reads) /\ call[c] = NoCall /\ (op = "wrap" => id = Absent)
  <2>3. Sends
    <3>1. population.reads \subseteq Nat /\ population.typos \subseteq {Never, Malformed}
      BY PopulationsAssumption DEF CInv, TypeOK
    <3>2. tokens \subseteq Ids /\ tab.id \in Ids \cup {Absent}
      BY DEF CInv, TypeOK
    <3>3. \A some \in SUBSET shares : Combined(some) \in Ids
      BY CombinedIs, UsedIds, NeverAssumption DEF CInv
    <3>4. ASSUME NEW cmd, NEW op \in {"wrap", "unwrap", "peek", "revoke"},
                 NEW id \in Ids \cup {Malformed, Absent}, NEW reads \in Nat, NEW quorum,
                 op = "wrap" => id = Absent, Dial(c, cmd, id, quorum, op, reads)
          PROVE  Sends
      BY <3>4 DEF Dial, Begins
    <3>5. CASE cmdWrap(c) \/ cmdWrapSplit(c) \/ create(c)
      BY <3>1, <3>4, <3>5 DEF cmdWrap, cmdWrapSplit, create, EndLocally
    <3>6. CASE cmdOnToken(c)
      <4>1. PICK cmd \in {"unwrap", "peek", "revoke"}, id \in tokens \cup population.typos :
              Dial(c, cmd, id, TRUE, cmd, 0)
        BY <3>6 DEF cmdOnToken
      <4>2. id \in Ids \cup {Malformed, Absent}
        BY <3>1, <3>2, NeverAssumption
      <4>3. cmd \in {"wrap", "unwrap", "peek", "revoke"} /\ cmd # "wrap"
        OBVIOUS
      <4>4. QED
        BY <3>4, <4>1, <4>2, <4>3
    <3>7. CASE cmdCombine(c) \/ cmdCombinePrint(c)
      BY <3>3, <3>4, <3>7 DEF cmdCombine, cmdCombinePrint, EndLocally
    <3>8. CASE beginUnwrap(c) \/ clickReveal(c)
      BY <3>2, <3>4, <3>8 DEF beginUnwrap, clickReveal
    <3>9. QED
      BY <1>3, <3>5, <3>6, <3>7, <3>8 DEF Command
  <2>4. QED
    BY <1>3, <2>1, <2>2, <2>3
<1>4. ASSUME NEW d \in 1..Calls, Response(c) \/ GiveUp(c) PROVE Aside(d)
  <2>1. \/ request' = request
        \/ request[c].at # "handled"
           /\ \E at \in {"delivered", "cut"} : request' = [request EXCEPT ![c].at = at]
    BY <1>4 DEF Response, Receive, ReceiveSplit, ReceiveCreateSplit, ReceiveTab, Deliver, GiveUp
  <2>2. ASSUME NEW at \in {"delivered", "cut"}, request' = [request EXCEPT ![c].at = at],
               request[c].at # "handled"
        PROVE  Aside(d)
    <3>1. CASE d # c
      BY <1>2, <2>2, <3>1 DEF Aside
    <3>2. /\ request'[c].at = at /\ request'[c].op = request[c].op
          /\ request'[c].id = request[c].id /\ request'[c].reads = request[c].reads
      BY <1>2, <2>2 DEF NoRequest, Request
    <3>3. QED
      BY <2>2, <3>1, <3>2 DEF Aside, Backed
  <2>3. QED
    BY <2>1, <2>2 DEF Aside
<1>5. QED
  BY <1>1, <1>2, <1>3, <1>4, AsideStep DEF Quiet, Elsewhere

(* Nor does a handler that grants, stores and revokes nothing.              *)
LEMMA DenialAside ==
  ASSUME CInv, KInv, NEW c \in 1..Calls, request[c].at = "sent",
         NEW outcome \in Outcomes, NEW left \in Nat, NEW id \in Ids \cup {Malformed, Absent},
         request[c].id = id, Handled(c, id, outcome, left),
         outcome # "tamper", outcome = "ok" => request[c].op = "peek",
         outcome \in Reasons => id \in Issued /\ Store!Fate(id) = outcome,
         UNCHANGED <<now, secret>>
  PROVE  KInv'
<1>1. /\ UNCHANGED <<server, boots, spent, counters>>
      /\ request'[c].at = "handled" /\ request'[c].op = request[c].op
      /\ request'[c].id = id /\ request'[c].reads = request[c].reads
      /\ request'[c].outcome = outcome
      /\ \A d \in 1..Calls \ {c} : request'[d] = request[d]
  BY HandledRequest DEF CInv
<1>2. now \in Nat
  BY DEF CInv, TypeOK, ServiceTypeOK
<1>3. ASSUME outcome \in Reasons PROVE id \in Issued' /\ Store!Fate(id)' = outcome
  BY <1>2, <1>3, FateFixed
<1>4. Backed(c)'
  BY <1>1, <1>3 DEF Backed
<1>5. \A d \in 1..Calls : Aside(d)
  BY <1>1, <1>4 DEF Aside
<1>6. QED
  BY <1>1, <1>2, <1>5, AsideStep

(* Nor a handler that finds no secret it may use.                          *)
LEMMA MissAside ==
  ASSUME CInv, KInv, NEW c \in 1..Calls, request[c].at = "sent", request[c].id \in Ids,
         NEW op, Missed(c, op)
  PROVE  KInv'
<1>1. PICK id \in Ids : request[c].id = id
  OBVIOUS
<1>2. UNCHANGED <<now, secret, forgotten>> /\ ~Store!Readable(id)
  BY <1>1 DEF Missed, AtOnce, Store!Deny
<1>3. answer'.outcome = IF ~Store!Issued(id) \/ id \in forgotten THEN "not_found" ELSE Store!Fate(id)
  BY <1>1, <1>2 DEF Missed, Store!Deny, Store!Reply
<1>4. PICK outcome : outcome = IF id \notin Issued \/ id \in forgotten THEN "not_found" ELSE Store!Fate(id)
  OBVIOUS
<1>5. Handled(c, id, outcome, 0)
  <2>1. answer'.outcome = outcome
    BY <1>3, <1>4 DEF Issued
  <2>2. QED
    BY <1>1, <2>1 DEF Missed, Handled
<1>6. outcome = "not_found" \/ (id \in Issued /\ Store!Fate(id) = outcome /\ outcome # "live")
  BY <1>2, <1>4 DEF Store!Readable, Issued
<1>7. outcome \in Reasons \cup {"not_found"}
  BY <1>6 DEF Store!Fate, Reasons
<1>8. /\ outcome \in Outcomes /\ outcome # "tamper" /\ outcome # "ok"
      /\ outcome \in Reasons => id \in Issued /\ Store!Fate(id) = outcome
  BY <1>6, <1>7 DEF Outcomes, Reasons
<1>9. QED
  BY <1>1, <1>2, <1>5, <1>8, DenialAside

----------------------------------------------------------------------------
(* A handler that got what it asked for is one more to be counted,          *)
LEMMA PendingGrows ==
  ASSUME CInv, NEW c \in 1..Calls, NEW op, request[c].at = "sent", request[c].op = op,
         request'[c].at = "handled", request'[c].op = op, request'[c].outcome = "ok",
         \A d \in 1..Calls \ {c} : request'[d] = request[d]
  PROVE  /\ Pending(op)' = Pending(op) + 1
         /\ \A o : o # op => Pending(o)' = Pending(o)
<1>1. PendingCalls(op)' = PendingCalls(op) \cup {c} /\ c \notin PendingCalls(op)
  BY DEF PendingCalls
<1>2. ASSUME NEW o, o # op PROVE PendingCalls(o)' = PendingCalls(o)
  BY <1>2 DEF PendingCalls
<1>3. Cardinality(PendingCalls(op) \cup {c}) = Cardinality(PendingCalls(op)) + 1
  BY <1>1, CountedSets, FS_AddElement
<1>4. QED
  BY <1>1, <1>2, <1>3 DEF Pending, PendingCalls

(* and one less when it has answered.                                      *)
LEMMA PendingDrops ==
  ASSUME CInv, NEW c \in 1..Calls, NEW op, request[c].at = "handled", request[c].op = op,
         request'[c].at # "handled", \A d \in 1..Calls \ {c} : request'[d] = request[d]
  PROVE  /\ Pending(op)' = Pending(op) - (IF request[c].outcome = "ok" THEN 1 ELSE 0)
         /\ \A o : o # op => Pending(o)' = Pending(o)
<1>1. PendingCalls(op)' = PendingCalls(op) \ {c}
  BY DEF PendingCalls
<1>2. ASSUME NEW o, o # op PROVE PendingCalls(o)' = PendingCalls(o)
  BY <1>2 DEF PendingCalls
<1>3. c \in PendingCalls(op) <=> request[c].outcome = "ok"
  BY DEF PendingCalls
<1>4. Cardinality(PendingCalls(op) \ {c})
        = Cardinality(PendingCalls(op)) - (IF c \in PendingCalls(op) THEN 1 ELSE 0)
  <2>1. IsFiniteSet(PendingCalls(op)) /\ Cardinality(PendingCalls(op)) \in Nat
    BY CountedSets
  <2>2. Cardinality(PendingCalls(op) \ {c}) =
          IF c \in PendingCalls(op) THEN Cardinality(PendingCalls(op)) - 1
                                     ELSE Cardinality(PendingCalls(op))
    BY <2>1, FS_RemoveElement
  <2>3. QED
    BY <2>1, <2>2
<1>5. QED
  BY <1>1, <1>2, <1>3, <1>4 DEF Pending, PendingCalls

(* Where a store call changes the life of one secret only, and that life    *)
(* was not over, the others ended as they did.                             *)
LEMMA EndsStay ==
  ASSUME CInv, KInv, NEW id \in Ids, NEW c \in 1..Calls,
         id \in Issued => Store!Fate(id) = "live",
         \A j \in Ids \ {id} : secret'[j] = secret[j], UNCHANGED <<now, counters>>,
         \A d \in 1..Calls \ {c} : request'[d] = request[d],
         request'[c].at = "handled" => request'[c].outcome = "ok"
  PROVE  /\ \A reason \in Reasons :
              counters'[reason] > 0 => \E j \in Issued' : Store!Fate(j)' = reason
         /\ \A d \in 1..Calls : Backed(d)'
<1>1. ASSUME NEW j \in Issued, Store!Fate(j) \in Reasons
      PROVE  j \in Issued' /\ Store!Fate(j)' = Store!Fate(j)
  <2>1. j \in Ids \ {id}
    BY <1>1 DEF Issued, Reasons
  <2>2. now \in Nat /\ now' \in Nat /\ now' >= now
    BY DEF CInv, TypeOK, ServiceTypeOK
  <2>3. QED
    BY <1>1, <2>1, <2>2, FateFixed
<1>2. ASSUME NEW reason \in Reasons, counters'[reason] > 0
      PROVE  \E j \in Issued' : Store!Fate(j)' = reason
  BY <1>1, <1>2 DEF KInv, CountersExplainStore
<1>3. ASSUME NEW d \in 1..Calls PROVE Backed(d)'
  <2>1. CASE d = c
    BY <2>1 DEF Backed, Reasons
  <2>2. CASE d # c
    BY <1>1, <2>2 DEF KInv, Backed
  <2>3. QED
    BY <2>1, <2>2
<1>4. QED
  BY <1>2, <1>3

(* The reads asked for do not change for a secret that was issued before.   *)
LEMMA AskedFixed ==
  ASSUME CInv, NEW c \in 1..Calls, NEW id \in Issued,
         request'[c].op = request[c].op, request'[c].id = request[c].id \/ ~Wrapped(c),
         request'[c].reads = request[c].reads, request'[c].id = id => request[c].id = id,
         \A d \in 1..Calls \ {c} : request'[d] = request[d]
  PROVE  Asked(id)' = Asked(id)
<1>1. id \in Ids /\ \A d, e \in Wraps(id) : d = e
  BY DEF Issued, CInv, Budgeted
<1>2. QED
  BY <1>1, WrapsStay DEF Wrapped, Wraps

(* A secret is stored: one more is issued, of which no read is used up.     *)
LEMMA IssueCounted ==
  ASSUME CInv, CInv', KInv, NEW c \in 1..Calls, request[c].at = "sent", request[c].op = "wrap",
         Store!Issue(FreshId), secret'[FreshId].left = request[c].reads,
         Handled(c, FreshId, "ok", 0)
  PROVE  KInv'
<1>1. PICK id \in Ids : id = FreshId /\ id \notin Used \cup {Never}
  BY FreshExists
<1>2. /\ UNCHANGED <<server, boots, spent, counters>>
      /\ request'[c].at = "handled" /\ request'[c].op = "wrap"
      /\ request'[c].id = id /\ request'[c].reads = request[c].reads
      /\ request'[c].outcome = "ok"
      /\ \A d \in 1..Calls \ {c} : request'[d] = request[d]
  BY <1>1, HandledRequest DEF Outcomes, CInv
<1>3. request[c].id = Absent
  BY DEF CInv, Shaped
<1>4. PICK ttl \in TTLs, reads \in ReadCounts :
        secret' = [secret EXCEPT ![id] =
          [left |-> reads, deadline |-> now + ttl, revoked |-> FALSE]]
  BY <1>1 DEF Store!Issue
<1>5. /\ secret'[id] = [left |-> reads, deadline |-> now + ttl, revoked |-> FALSE]
      /\ \A j \in Ids \ {id} : secret'[j] = secret[j]
      /\ UNCHANGED now
  BY <1>4 DEF Store!Issue, CInv, TypeOK, ServiceTypeOK
<1>6. id \notin Issued /\ Issued' = Issued \cup {id}
  <2>1. id \in Issued'
    <3>1. c \in 1..Calls /\ request'[c].id \in Used'
      BY <1>2 DEF CInv, Shaped
    <3>2. id \notin spent'
      BY <1>1, <1>2 DEF Used
    <3>3. QED
      BY <1>2, <3>1, <3>2 DEF Used
  <2>2. QED
    BY <1>1, <1>5, <2>1 DEF Used, Issued, Store!Issued
<1>7. Asked(id)' = secret'[id].left /\ secret'[id].left \in Nat
  <2>1. c \in Wraps(id)' /\ \A d \in Wraps(id)' : d = c
    BY <1>2 DEF Wraps, CInv, Budgeted
  <2>2. Asked(id)' = request'[c].reads
    BY <2>1, AskedNextIs
  <2>3. request[c].reads \in Nat
    BY DEF CInv, TypeOK, ServiceTypeOK, Request, NoRequest
  <2>4. QED
    BY <1>1, <1>2, <2>2, <2>3
<1>8. UsedUp' = UsedUp
  <2>1. ASSUME NEW j \in Issued PROVE Asked(j)' = Asked(j)
    <3>1. j # id /\ ~Wrapped(c)
      BY <1>3, <1>6, NeverAssumption DEF Wrapped
    <3>2. QED
      BY <1>2, <3>1, AskedFixed
  <2>2. ASSUME NEW j \in Issued PROVE j \in Issued' /\ secret'[j].left = secret[j].left
    BY <1>5, <1>6 DEF Issued
  <2>3. \A j \in Issued' \ Issued : j = id
    BY <1>6
  <2>4. QED
    BY <1>7, <2>1, <2>2, <2>3, UsedUpStays
<1>9. RevokedIds' = RevokedIds
  <2>1. ~secret'[id].revoked
    BY <1>5
  <2>2. \A j \in Issued : secret'[j] = secret[j]
    BY <1>5, <1>6 DEF Issued
  <2>3. QED
    BY <1>6, <2>1, <2>2 DEF RevokedIds
<1>10. Cardinality(Issued') = Cardinality(Issued) + 1
  BY <1>6, CountedSets, FS_AddElement
<1>11. /\ Pending("wrap")' = Pending("wrap") + 1
       /\ Pending("unwrap")' = Pending("unwrap") /\ Pending("revoke")' = Pending("revoke")
  BY <1>2, PendingGrows
<1>12. counters["wrap"] \in Nat /\ Pending("wrap") \in Nat /\ Cardinality(Issued) \in Nat
  BY CountedSets DEF Counted
<1>13. /\ \A reason \in Reasons :
            counters'[reason] > 0 => \E j \in Issued' : Store!Fate(j)' = reason
       /\ \A d \in 1..Calls : Backed(d)'
  BY <1>2, <1>5, <1>6, EndsStay
<1>14. CountersExplainStore'
  <2>1. counters'["wrap"] + Pending("wrap")' = Cardinality(Issued')
    BY <1>2, <1>10, <1>11, <1>12 DEF KInv, CountersExplainStore
  <2>2. counters'["unwrap"] + counters'["tamper"] + Pending("unwrap")' = Cardinality(UsedUp')
    BY <1>2, <1>8, <1>11 DEF KInv, CountersExplainStore
  <2>3. counters'["revoke"] + Pending("revoke")' = Cardinality(RevokedIds')
    BY <1>2, <1>9, <1>11 DEF KInv, CountersExplainStore, RevokedIds
  <2>4. QED
    BY <1>13, <2>1, <2>2, <2>3 DEF CountersExplainStore, RevokedIds
<1>15. QED
  BY <1>8, <1>13, <1>14 DEF KInv

(* A read is granted: one more is used up.                                 *)
LEMMA ReadCounted ==
  ASSUME CInv, CInv', KInv, NEW c \in 1..Calls, request[c].at = "sent", request[c].op = "unwrap",
         NEW id \in Ids, request[c].id = id,
         AtOnce, Store!Read(id), Handled(c, id, "ok", secret'[id].left)
  PROVE  KInv'
<1>1. id \in Issued /\ Store!Fate(id) = "live"
  BY DEF Store!Read, Store!Readable, Issued
<1>2. secret[id] \in [left : Nat, deadline : Nat, revoked : BOOLEAN]
  BY <1>1, SecretType DEF CInv
<1>3. secret[id].left # 0
  BY <1>1 DEF Store!Fate
<1>4. /\ secret' = [secret EXCEPT ![id] = [secret[id] EXCEPT !.left = @ - 1]]
      /\ \A j \in Ids \ {id} : secret'[j] = secret[j]
      /\ UNCHANGED now
  BY DEF Store!Read, AtOnce, CInv, TypeOK, ServiceTypeOK
<1>5. /\ secret'[id].left = secret[id].left - 1 /\ secret'[id].left \in Nat
      /\ secret'[id].revoked = secret[id].revoked /\ secret'[id] # Absent
  <2>1. secret'[id] = [secret[id] EXCEPT !.left = @ - 1]
    BY <1>4 DEF CInv, TypeOK, ServiceTypeOK
  <2>2. secret'[id] \in [left : Nat, deadline : Nat, revoked : BOOLEAN]
    BY <1>2, <1>3, <2>1
  <2>3. QED
    BY <1>2, <2>1, <2>2, SecretAssumption
<1>6. /\ UNCHANGED <<server, boots, spent, counters>>
      /\ request'[c].at = "handled" /\ request'[c].op = "unwrap"
      /\ request'[c].id = id /\ request'[c].reads = request[c].reads
      /\ request'[c].outcome = "ok"
      /\ \A d \in 1..Calls \ {c} : request'[d] = request[d]
  <2>1. PICK left \in Nat : left = secret'[id].left
    BY <1>5
  <2>2. Handled(c, id, "ok", left)
    BY <2>1 DEF Handled
  <2>3. QED
    BY <2>2, HandledRequest DEF Outcomes, CInv
<1>7. Issued' = Issued /\ RevokedIds' = RevokedIds
  <2>1. Issued' = Issued
    BY <1>1, <1>4, <1>5 DEF Issued, Store!Issued
  <2>2. ASSUME NEW j \in Issued PROVE secret'[j].revoked = secret[j].revoked
    BY <1>4, <1>5 DEF Issued
  <2>3. QED
    BY <2>1, <2>2 DEF RevokedIds
<1>8. ASSUME NEW j \in Issued PROVE Asked(j)' = Asked(j)
  BY <1>6, AskedFixed
<1> DEFINE n == Asked(id) - secret[id].left
<1>9. n \in Nat /\ Asked(id)' - secret'[id].left = n + 1
  <2>1. Granted(id) \in SUBSET (1..Calls)
    BY DEF Granted
  <2>2. Cardinality(Granted(id)) \in Nat
    BY <2>1, CallSets
  <2>3. Cardinality(Granted(id)) + secret[id].left = Asked(id)
    BY <1>1 DEF CInv, Budgeted
  <2>4. n = Cardinality(Granted(id))
    BY <1>2, <2>2, <2>3
  <2>5. Asked(id) \in Nat
    BY <1>2, <2>2, <2>3
  <2>6. QED
    BY <1>1, <1>2, <1>5, <1>8, <2>2, <2>4, <2>5
<1> HIDE DEF n
<1>10. <<id, n + 1>> \notin UsedUp /\ UsedUp' = UsedUp \cup {<<id, n + 1>>}
  <2>1. ASSUME NEW j \in Issued
        PROVE  {j} \X (1..(Asked(j)' - secret'[j].left)) =
                 ({j} \X (1..(Asked(j) - secret[j].left)))
                   \cup (IF j = id THEN {<<id, n + 1>>} ELSE {})
    <3>1. CASE j = id
      <4>1. 1..(n + 1) = (1..n) \cup {n + 1}
        BY <1>9
      <4>2. {id} \X (1..(n + 1)) = ({id} \X (1..n)) \cup {<<id, n + 1>>}
        BY <4>1
      <4>3. QED
        BY <1>9, <3>1, <4>2 DEF n
    <3>2. CASE j # id
      <4>1. secret'[j] = secret[j] /\ Asked(j)' = Asked(j)
        BY <1>4, <1>8, <3>2 DEF Issued
      <4>2. QED
        BY <3>2, <4>1
    <3>3. QED
      BY <3>1, <3>2
  <2>2. UsedUp' = UsedUp \cup {<<id, n + 1>>}
    <3>1. UsedUp' = UNION {{j} \X (1..(Asked(j)' - secret'[j].left)) : j \in Issued}
      BY <1>7 DEF UsedUp
    <3>2. ASSUME NEW x \in UsedUp' PROVE x \in UsedUp \cup {<<id, n + 1>>}
      <4>1. PICK j \in Issued : x \in {j} \X (1..(Asked(j)' - secret'[j].left))
        BY <3>1, <3>2
      <4>2. QED
        BY <2>1, <4>1 DEF UsedUp
    <3>3. ASSUME NEW x \in UsedUp PROVE x \in UsedUp'
      <4>1. PICK j \in Issued : x \in {j} \X (1..(Asked(j) - secret[j].left))
        BY <3>3 DEF UsedUp
      <4>2. x \in {j} \X (1..(Asked(j)' - secret'[j].left))
        BY <2>1, <4>1
      <4>3. QED
        BY <3>1, <4>2
    <3>4. <<id, n + 1>> \in UsedUp'
      <4>1. <<id, n + 1>> \in {id} \X (1..(Asked(id)' - secret'[id].left))
        BY <1>1, <2>1
      <4>2. QED
        BY <1>1, <3>1, <4>1
    <3>5. QED
      BY <3>2, <3>3, <3>4
  <2>3. ASSUME <<id, n + 1>> \in UsedUp PROVE FALSE
    <3>1. PICK j \in Issued : <<id, n + 1>> \in {j} \X (1..(Asked(j) - secret[j].left))
      BY <2>3 DEF UsedUp
    <3>2. n + 1 \in 1..n
      BY <3>1 DEF n
    <3>3. QED
      BY <1>9, <3>2
  <2>4. QED
    BY <2>2, <2>3
<1>11. IsFiniteSet(UsedUp') /\ Cardinality(UsedUp') = Cardinality(UsedUp) + 1
  <2>1. IsFiniteSet(UsedUp)
    BY DEF KInv
  <2>2. QED
    BY <1>10, <2>1, FS_AddElement
<1>12. /\ Pending("unwrap")' = Pending("unwrap") + 1
       /\ Pending("wrap")' = Pending("wrap") /\ Pending("revoke")' = Pending("revoke")
  BY <1>6, PendingGrows
<1>13. /\ counters["unwrap"] \in Nat /\ counters["tamper"] \in Nat
       /\ Pending("unwrap") \in Nat /\ Cardinality(UsedUp) \in Nat
  <2>1. IsFiniteSet(UsedUp)
    BY DEF KInv
  <2>2. QED
    BY <2>1, CountedSets, FS_CardinalityType DEF Counted
<1>14. /\ \A reason \in Reasons :
            counters'[reason] > 0 => \E j \in Issued' : Store!Fate(j)' = reason
       /\ \A d \in 1..Calls : Backed(d)'
  BY <1>1, <1>4, <1>6, EndsStay
<1>15. CountersExplainStore'
  <2>1. counters'["wrap"] + Pending("wrap")' = Cardinality(Issued')
    BY <1>6, <1>7, <1>12 DEF KInv, CountersExplainStore
  <2>2. counters'["unwrap"] + counters'["tamper"] + Pending("unwrap")' = Cardinality(UsedUp')
    BY <1>6, <1>11, <1>12, <1>13 DEF KInv, CountersExplainStore
  <2>3. counters'["revoke"] + Pending("revoke")' = Cardinality(RevokedIds')
    BY <1>6, <1>7, <1>12 DEF KInv, CountersExplainStore, RevokedIds
  <2>4. QED
    BY <1>14, <2>1, <2>2, <2>3 DEF CountersExplainStore, RevokedIds
<1>16. QED
  BY <1>11, <1>14, <1>15 DEF KInv

(* A revocation takes place: one more is revoked, and no read used up.      *)
LEMMA WithdrawCounted ==
  ASSUME CInv, CInv', KInv, NEW c \in 1..Calls, request[c].at = "sent", request[c].op = "revoke",
         NEW id \in Ids, request[c].id = id,
         AtOnce, Store!Withdraw(id), Handled(c, id, "ok", 0)
  PROVE  KInv'
<1>1. id \in Issued /\ Store!Fate(id) = "live"
  BY DEF Store!Withdraw, Store!Readable, Issued
<1>2. secret[id] \in [left : Nat, deadline : Nat, revoked : BOOLEAN]
  BY <1>1, SecretType DEF CInv
<1>3. id \notin RevokedIds
  BY <1>1 DEF Store!Fate, RevokedIds
<1>4. /\ secret' = [secret EXCEPT ![id] = [secret[id] EXCEPT !.revoked = TRUE]]
      /\ \A j \in Ids \ {id} : secret'[j] = secret[j]
      /\ UNCHANGED now
  BY DEF Store!Withdraw, AtOnce, CInv, TypeOK, ServiceTypeOK
<1>5. secret'[id].left = secret[id].left /\ secret'[id].revoked /\ secret'[id] # Absent
  <2>1. secret'[id] = [secret[id] EXCEPT !.revoked = TRUE]
    BY <1>4 DEF CInv, TypeOK, ServiceTypeOK
  <2>2. secret'[id] \in [left : Nat, deadline : Nat, revoked : BOOLEAN]
    BY <1>2, <2>1
  <2>3. QED
    BY <1>2, <2>1, <2>2, SecretAssumption
<1>6. /\ UNCHANGED <<server, boots, spent, counters>>
      /\ request'[c].at = "handled" /\ request'[c].op = "revoke"
      /\ request'[c].id = id /\ request'[c].reads = request[c].reads
      /\ request'[c].outcome = "ok"
      /\ \A d \in 1..Calls \ {c} : request'[d] = request[d]
  BY HandledRequest DEF Outcomes, CInv
<1>7. Issued' = Issued /\ RevokedIds' = RevokedIds \cup {id}
  <2>1. Issued' = Issued
    BY <1>1, <1>4, <1>5 DEF Issued, Store!Issued
  <2>2. \A j \in Issued : j # id => secret'[j] = secret[j]
    BY <1>4 DEF Issued
  <2>3. QED
    BY <1>1, <1>5, <2>1, <2>2 DEF RevokedIds
<1>8. UsedUp' = UsedUp
  <2>1. \A j \in Issued : Asked(j)' = Asked(j)
    BY <1>6, AskedFixed
  <2>2. \A j \in Issued : secret'[j].left = secret[j].left
    BY <1>4, <1>5 DEF Issued
  <2>3. QED
    BY <1>7, <2>1, <2>2, UsedUpStays
<1>9. Cardinality(RevokedIds') = Cardinality(RevokedIds) + 1
  BY <1>3, <1>7, CountedSets, FS_AddElement
<1>10. /\ Pending("revoke")' = Pending("revoke") + 1
       /\ Pending("wrap")' = Pending("wrap") /\ Pending("unwrap")' = Pending("unwrap")
  BY <1>6, PendingGrows
<1>11. counters["revoke"] \in Nat /\ Pending("revoke") \in Nat /\ Cardinality(RevokedIds) \in Nat
  BY CountedSets DEF Counted
<1>12. /\ \A reason \in Reasons :
            counters'[reason] > 0 => \E j \in Issued' : Store!Fate(j)' = reason
       /\ \A d \in 1..Calls : Backed(d)'
  BY <1>1, <1>4, <1>6, EndsStay
<1>13. CountersExplainStore'
  <2>1. counters'["wrap"] + Pending("wrap")' = Cardinality(Issued')
    BY <1>6, <1>7, <1>10 DEF KInv, CountersExplainStore
  <2>2. counters'["unwrap"] + counters'["tamper"] + Pending("unwrap")' = Cardinality(UsedUp')
    BY <1>6, <1>8, <1>10 DEF KInv, CountersExplainStore
  <2>3. counters'["revoke"] + Pending("revoke")' = Cardinality(RevokedIds')
    BY <1>6, <1>9, <1>10, <1>11 DEF KInv, CountersExplainStore, RevokedIds
  <2>4. QED
    BY <1>12, <2>1, <2>2, <2>3 DEF CountersExplainStore, RevokedIds
<1>14. QED
  BY <1>8, <1>12, <1>13 DEF KInv

----------------------------------------------------------------------------
(* The invariant outlives the handling of a request.                       *)
LEMMA ArrivalCounted ==
  ASSUME CInv, CInv', KInv, NEW c \in 1..Calls, Arrival(c)
  PROVE  KInv'
<1>1. request[c].at = "sent" /\ (request[c].op = "wrap" => request[c].id = Absent)
  BY DEF CInv, Shaped, Arrival, Limit, Invalid, TokenMalformed, HandleWrap, HandleUnwrap,
         HandlePeek, HandleRevoke, Arrived
<1>2. PICK id \in Ids \cup {Malformed, Absent} : request[c].id = id
  BY DEF CInv, TypeOK, ServiceTypeOK, Request, NoRequest
<1>3. CASE Limit(c)
  <2>1. Handled(c, id, "limited", 0) /\ UNCHANGED <<now, secret>>
    BY <1>2, <1>3 DEF Limit, Quiet
  <2>2. QED
    BY <1>1, <1>2, <2>1, DenialAside DEF Outcomes, Reasons
<1>4. CASE Invalid(c)
  <2>1. Handled(c, id, "bad_request", 0) /\ UNCHANGED <<now, secret>>
    BY <1>1, <1>2, <1>4 DEF Invalid, Arrived, Quiet
  <2>2. QED
    BY <1>1, <1>2, <2>1, DenialAside DEF Outcomes, Reasons
<1>5. CASE TokenMalformed(c)
  <2>1. Handled(c, id, "auth_fail", 0) /\ UNCHANGED <<now, secret>>
    BY <1>2, <1>5 DEF TokenMalformed, Quiet
  <2>2. QED
    BY <1>1, <1>2, <2>1, DenialAside DEF Outcomes, Reasons
<1>6. CASE HandleWrap(c)
  <2>1. CASE Store!Issue(FreshId) /\ secret'[FreshId].left = request[c].reads
             /\ Handled(c, FreshId, "ok", 0)
    BY <1>1, <1>6, <2>1, IssueCounted DEF HandleWrap, Arrived
  <2>2. CASE Store!Refuse(FreshId) /\ Handled(c, Absent, "full", 0)
    <3>1. Handled(c, id, "full", 0) /\ UNCHANGED <<now, secret>>
      BY <1>1, <1>2, <1>6, <2>2 DEF HandleWrap, Arrived, Store!Refuse
    <3>2. QED
      BY <1>1, <1>2, <3>1, DenialAside DEF Outcomes, Reasons
  <2>3. QED
    BY <1>6, <2>1, <2>2 DEF HandleWrap
<1>7. CASE HandleUnwrap(c)
  <2>1. request[c].op = "unwrap" /\ id \in Ids
    BY <1>2, <1>7 DEF HandleUnwrap, Arrived
  <2>2. \/ AtOnce /\ Store!Read(id) /\ Handled(c, id, "ok", secret'[id].left)
        \/ Missed(c, "take")
    BY <1>2, <1>7 DEF HandleUnwrap
  <2>3. QED
    BY <1>1, <1>2, <2>1, <2>2, ReadCounted, MissAside
<1>8. CASE HandlePeek(c)
  <2>1. request[c].op = "peek" /\ id \in Ids
    BY <1>2, <1>8 DEF HandlePeek, Arrived
  <2>2. \/ Store!Look(id) /\ Handled(c, id, "ok", secret[id].left)
        \/ Missed(c, "peek")
    BY <1>2, <1>8 DEF HandlePeek
  <2>3. CASE Store!Look(id) /\ Handled(c, id, "ok", secret[id].left)
    <3>1. secret[id].left \in Nat /\ UNCHANGED <<now, secret>>
      BY <2>1, <2>3, SecretType DEF CInv, Store!Look, Store!Readable, Issued
    <3>2. PICK left \in Nat : left = secret[id].left
      BY <3>1
    <3>3. Handled(c, id, "ok", left)
      BY <2>3, <3>2
    <3>4. QED
      BY <1>1, <1>2, <2>1, <3>1, <3>3, DenialAside DEF Outcomes, Reasons
  <2>4. QED
    BY <1>1, <1>2, <2>1, <2>2, <2>3, MissAside
<1>9. CASE HandleRevoke(c)
  <2>1. request[c].op = "revoke" /\ id \in Ids
    BY <1>2, <1>9 DEF HandleRevoke, Arrived
  <2>2. \/ AtOnce /\ Store!Withdraw(id) /\ Handled(c, id, "ok", 0)
        \/ Missed(c, "revoke")
    BY <1>2, <1>9 DEF HandleRevoke
  <2>3. QED
    BY <1>1, <1>2, <2>1, <2>2, WithdrawCounted, MissAside
<1>10. QED
  BY <1>3, <1>4, <1>5, <1>6, <1>7, <1>8, <1>9 DEF Arrival

(* The name that an answer is counted under.                               *)
LEMMA CountedAs ==
  ASSUME NEW op \in {"wrap", "unwrap", "peek", "revoke"}, NEW outcome \in Outcomes
  PROVE  /\ \A name \in {"wrap", "unwrap", "revoke"} :
              name \in CounterOf(op, outcome) <=> outcome = "ok" /\ op = name
         /\ \A name \in Reasons \cup {"tamper"} :
              name \in CounterOf(op, outcome) <=> outcome = name
<1>1. CASE outcome = "ok"
  BY <1>1 DEF CounterOf, Reasons
<1>2. CASE outcome \in {"full", "limited", "not_found", "bad_request"}
  BY <1>2 DEF CounterOf, Reasons
<1>3. CASE outcome \in Reasons \cup {"pending", "auth_fail", "tamper"}
  BY <1>3 DEF CounterOf, Reasons
<1>4. QED
  BY <1>1, <1>2, <1>3 DEF Outcomes

(* A request is counted as it is answered: what was pending is in a counter.*)
LEMMA AnswerCounted ==
  ASSUME CInv, KInv, NEW c \in 1..Calls, NEW outcome \in Outcomes, NEW left,
         Answer(c, outcome, left),
         \/ outcome = request[c].outcome
         \/ outcome = "tamper" /\ request[c].op = "unwrap" /\ request[c].outcome = "ok"
  PROVE  KInv'
<1>1. /\ request[c].at = "handled" /\ UNCHANGED <<now, secret>>
      /\ request[c] \in Request /\ request[c].outcome # "tamper"
  BY DEF Answer, Quiet, CInv, TypeOK, ServiceTypeOK, NoRequest, KInv, Backed
<1>2. PICK op \in {"wrap", "unwrap", "peek", "revoke"} : op = request[c].op
  BY <1>1 DEF Request
<1>3. /\ request'[c].at = "answered" /\ request'[c].op = op
      /\ request'[c].id = request[c].id /\ request'[c].reads = request[c].reads
      /\ \A d \in 1..Calls \ {c} : request'[d] = request[d]
  <2>1. request' = [request EXCEPT ![c] =
          [request[c] EXCEPT !.at = "answered", !.outcome = outcome, !.left = left]]
    BY DEF Answer
  <2>2. request \in [1..Calls -> {NoRequest} \cup Request]
    BY DEF CInv, TypeOK, ServiceTypeOK
  <2>3. QED
    BY <1>1, <1>2, <2>1, <2>2 DEF Request
<1>4. ASSUME NEW name \in Counted
      PROVE  counters'[name] =
               counters[name] + IF name \in CounterOf(op, outcome) THEN 1 ELSE 0
  BY <1>2 DEF Answer
<1>5. /\ Pending(op)' = Pending(op) - (IF request[c].outcome = "ok" THEN 1 ELSE 0)
      /\ \A o : o # op => Pending(o)' = Pending(o)
  BY <1>1, <1>2, <1>3, PendingDrops
<1>6. Issued' = Issued /\ RevokedIds' = RevokedIds
  BY <1>1 DEF Issued, Store!Issued, RevokedIds
<1>7. UsedUp' = UsedUp
  <2>1. \A id \in Issued : Asked(id)' = Asked(id)
    BY <1>2, <1>3, AskedFixed
  <2>2. QED
    BY <1>1, <1>6, <2>1, UsedUpStays
<1>8. ASSUME NEW id \in Issued, Store!Fate(id) \in Reasons
      PROVE  id \in Issued' /\ Store!Fate(id)' = Store!Fate(id)
  <2>1. now \in Nat /\ now' \in Nat /\ now' >= now
    BY <1>1 DEF CInv, TypeOK, ServiceTypeOK
  <2>2. QED
    BY <1>1, <1>8, <2>1, FateFixed
<1>9. ASSUME NEW d \in 1..Calls PROVE Backed(d)'
  <2>1. CASE d = c
    BY <1>3, <2>1 DEF Backed
  <2>2. CASE d # c
    BY <1>3, <1>8, <2>2 DEF KInv, Backed
  <2>3. QED
    BY <2>1, <2>2
<1>10. ASSUME NEW reason \in Reasons, counters'[reason] > 0
       PROVE  \E id \in Issued' : Store!Fate(id)' = reason
  <2>1. CASE outcome = reason
    <3>1. request[c].outcome = reason
      BY <2>1 DEF Reasons
    <3>2. request[c].id \in Issued /\ Store!Fate(request[c].id) = reason
      BY <1>1, <3>1 DEF KInv, Backed
    <3>3. QED
      BY <1>8, <3>2
  <2>2. CASE outcome # reason
    <3>1. reason \in Counted /\ reason \notin CounterOf(op, outcome)
      BY <2>2, CountedAs DEF Counted
    <3>2. counters[reason] \in Nat /\ counters'[reason] = counters[reason] + 0
      BY <1>4, <3>1, CountedSets
    <3>3. counters[reason] > 0
      BY <1>10, <3>2
    <3>4. QED
      BY <1>8, <3>3 DEF KInv, CountersExplainStore
  <2>3. QED
    BY <2>1, <2>2
<1>11. ASSUME NEW name \in {"wrap", "revoke"}
       PROVE  counters'[name] + Pending(name)' = counters[name] + Pending(name)
  <2>1. name \in Counted /\ counters[name] \in Nat /\ Pending(name) \in Nat
    BY CountedSets DEF Counted
  <2>2. counters'[name] = counters[name] + IF outcome = "ok" /\ op = name THEN 1 ELSE 0
    BY <1>4, <2>1, CountedAs
  <2>3. CASE op = name
    <3>1. outcome = request[c].outcome
      BY <1>2, <2>3
    <3>2. QED
      BY <1>5, <2>1, <2>2, <2>3, <3>1
  <2>4. CASE op # name
    BY <1>5, <2>1, <2>2, <2>4
  <2>5. QED
    BY <2>3, <2>4
<1>12. counters'["unwrap"] + counters'["tamper"] + Pending("unwrap")'
         = counters["unwrap"] + counters["tamper"] + Pending("unwrap")
  <2>1. /\ counters["unwrap"] \in Nat /\ counters["tamper"] \in Nat /\ Pending("unwrap") \in Nat
        /\ "unwrap" \in Counted /\ "tamper" \in Counted
    BY CountedSets DEF Counted
  <2>2. /\ counters'["unwrap"] =
             counters["unwrap"] + IF outcome = "ok" /\ op = "unwrap" THEN 1 ELSE 0
        /\ counters'["tamper"] = counters["tamper"] + IF outcome = "tamper" THEN 1 ELSE 0
    BY <1>4, <2>1, CountedAs
  <2>3. CASE op = "unwrap"
    BY <1>1, <1>5, <2>1, <2>2, <2>3
  <2>4. CASE op # "unwrap"
    BY <1>1, <1>2, <1>5, <2>1, <2>2, <2>4
  <2>5. QED
    BY <2>3, <2>4
<1>13. CountersExplainStore'
  <2>1. counters'["wrap"] + Pending("wrap")' = Cardinality(Issued')
    BY <1>6, <1>11 DEF KInv, CountersExplainStore
  <2>2. counters'["unwrap"] + counters'["tamper"] + Pending("unwrap")' = Cardinality(UsedUp')
    BY <1>7, <1>12 DEF KInv, CountersExplainStore
  <2>3. counters'["revoke"] + Pending("revoke")' = Cardinality(RevokedIds')
    BY <1>6, <1>11 DEF KInv, CountersExplainStore, RevokedIds
  <2>4. QED
    BY <1>10, <2>1, <2>2, <2>3 DEF CountersExplainStore, RevokedIds
<1>14. QED
  BY <1>7, <1>9, <1>13 DEF KInv

(* Nothing is counted, pending or stored at the start of a process.         *)
EmptyBooks ==
  /\ \A name \in Counted : counters[name] = 0
  /\ \A id \in Ids : secret[id] = Absent
  /\ \A c \in 1..Calls : request[c].at # "handled"

(* Then there is nothing to explain.                                       *)
LEMMA NothingOwed == EmptyBooks => KInv
<1> SUFFICES ASSUME EmptyBooks PROVE KInv
  OBVIOUS
<1>1. Issued = {}
  BY DEF EmptyBooks, Issued, Store!Issued
<1>2. UsedUp = {} /\ {id \in Issued : secret[id].revoked} = {}
  BY <1>1 DEF UsedUp
<1>3. \A op : Pending(op) = 0
  <2>1. \A op : {c \in 1..Calls : request[c].at = "handled" /\ request[c].op = op
                                   /\ request[c].outcome = "ok"} = {}
    BY DEF EmptyBooks
  <2>2. QED
    BY <2>1, FS_EmptySet DEF Pending
<1>4. \A name \in Reasons \cup {"wrap", "unwrap", "tamper", "revoke"} : counters[name] = 0
  BY DEF EmptyBooks, Counted
<1>5. CountersExplainStore
  BY <1>1, <1>2, <1>3, <1>4, FS_EmptySet DEF CountersExplainStore
<1>6. \A c \in 1..Calls : Backed(c)
  BY DEF EmptyBooks, Backed
<1>7. QED
  BY <1>2, <1>5, <1>6, FS_EmptySet DEF KInv

(* The end of a process takes the counters with it, and the secrets that    *)
(* they counted.                                                           *)
LEMMA EndCounted ==
  ASSUME CInv, NEW status, End(status)
  PROVE  KInv'
<1>1. \A name \in Counted : counters'[name] = 0
  BY DEF End, Zero
<1>2. \A id \in Ids : secret'[id] = Absent
  BY DEF End
<1>3. ASSUME NEW c \in 1..Calls PROVE request'[c].at # "handled"
  <2>1. request[c] \in {NoRequest} \cup Request
    BY DEF CInv, TypeOK, ServiceTypeOK
  <2>2. CASE c \in InFlight
    <3>1. request[c] \in Request
      BY <2>1, <2>2 DEF InFlight, NoRequest
    <3>2. request'[c] = [request[c] EXCEPT !.at = "cut"]
      BY <2>2 DEF End
    <3>3. QED
      BY <3>1, <3>2 DEF Request
  <2>3. CASE c \notin InFlight
    BY <2>3 DEF End, InFlight
  <2>4. QED
    BY <2>2, <2>3
<1>4. EmptyBooks'
  BY <1>1, <1>2, <1>3 DEF EmptyBooks
<1>5. QED
  BY <1>4, NothingOwed, PTL

----------------------------------------------------------------------------
(* Every step of the server keeps the books.                               *)
LEMMA ServerCounted == CInv /\ CInv' /\ KInv /\ ServiceNext => KInv'
<1> SUFFICES ASSUME CInv, CInv', KInv, ServiceNext PROVE KInv'
  OBVIOUS
<1>1. now \in Nat
  BY DEF CInv, TypeOK, ServiceTypeOK
<1>2. ASSUME NEW c \in 1..Calls, Respond(c) PROVE KInv'
  <2>1. request[c] \in Request
    BY <1>2 DEF Respond, Answer, CInv, TypeOK, ServiceTypeOK, NoRequest
  <2>2. PICK outcome \in Outcomes : outcome = request[c].outcome
    BY <2>1 DEF Request
  <2>3. PICK left : left = request[c].left
    OBVIOUS
  <2>4. Answer(c, outcome, left)
    BY <1>2, <2>2, <2>3 DEF Respond
  <2>5. QED
    BY <2>2, <2>4, AnswerCounted
<1>3. ASSUME NEW c \in 1..Calls, RespondTampered(c) PROVE KInv'
  <2>1. /\ request[c].op = "unwrap" /\ request[c].outcome = "ok"
        /\ Answer(c, "tamper", 0) /\ "tamper" \in Outcomes
    BY <1>3 DEF RespondTampered, Outcomes
  <2>2. QED
    BY <2>1, AnswerCounted
<1>4. CASE Pass \/ Forget \/ Boot \/ Signal
  <2>1. UNCHANGED <<secret, counters, request>> /\ now' \in Nat /\ now' >= now
    BY <1>1, <1>4 DEF Pass, Forget, Boot, Signal, Quiet, Elsewhere
  <2>2. \A c \in 1..Calls : Aside(c)
    BY <2>1 DEF Aside
  <2>3. QED
    BY <2>1, <2>2, AsideStep
<1>5. CASE ShutdownReturns \/ Crash
  BY <1>5, EndCounted DEF ShutdownReturns, Drained, Deadline, Crash
<1>6. ASSUME NEW c \in 1..Calls, Handle(c) PROVE KInv'
  BY <1>2, <1>3, <1>6, ArrivalCounted DEF Handle, Arrival
<1>7. QED
  BY <1>4, <1>5, <1>6 DEF ServiceNext

(* The counters explain the store in every behaviour: with the requests     *)
(* between store call and response they add up to what was issued, read and *)
(* revoked, and no alarm is counted without a secret that ended that way.   *)
THEOREM CountersAreTrue == Spec => []CountersExplainStore
<1>1. Init => KInv
  <2> SUFFICES ASSUME Init PROVE KInv
    OBVIOUS
  <2>1. /\ \A name \in Counted : counters[name] = 0
        /\ \A id \in Ids : secret[id] = Absent
        /\ \A c \in 1..Calls : request[c] = NoRequest
    BY DEF Init, ServiceInit, Store!Init, Zero
  <2>2. \A c \in 1..Calls : request[c].at # "handled"
    BY <2>1 DEF NoRequest
  <2>3. QED
    BY <2>1, <2>2, NothingOwed DEF EmptyBooks
<1>2. CInv /\ CInv' /\ KInv /\ [Next]_vars => KInv'
  <2> SUFFICES ASSUME CInv, CInv', KInv, [Next]_vars PROVE KInv'
    OBVIOUS
  <2>1. CASE UNCHANGED vars
    <3>1. UNCHANGED <<secret, counters, request>> /\ now' \in Nat /\ now' >= now
      BY <2>1 DEF vars, serviceVars, storeVars, CInv, TypeOK, ServiceTypeOK
    <3>2. \A c \in 1..Calls : Aside(c)
      BY <3>1 DEF Aside
    <3>3. QED
      BY <3>1, <3>2, AsideStep
  <2>2. ASSUME NEW c \in 1..Calls, Command(c) \/ Response(c) \/ GiveUp(c) PROVE KInv'
    BY <2>2, CallAside
  <2>3. CASE Server
    BY <2>3, ServerCounted DEF Server
  <2>4. QED
    BY <2>1, <2>2, <2>3 DEF Next
<1>3. KInv => CountersExplainStore
  BY DEF KInv
<1>4. QED
  BY <1>1, <1>2, <1>3, ClientsInvariance, PTL DEF Spec
=============================================================================
