# secretstash in TLA+

secretstash hands out one-time secrets: a client wraps a secret and gets a
token, a recipient presents the token and consumes a read, and what is left of
a secret that is gone is a tombstone, the "tamper evidence". This directory
models the program under `src/`, checks it with TLC on small instances and
proves the properties of its core with TLAPS for every instance.

    tlc -workers 2 -config MCSecretStore_caps.cfg MCSecretStore.tla
    tlapm SecretStoreProof.tla

## 1. Inventory

| Component | State | Operations | Interacts by | Hard because |
|---|---|---|---|---|
| Store (`internal/store/store.go`) | entries, tombstones, one mutex, a clock | `Put`, `Take`, `Peek`, `Revoke`, `purge`, `Len`, `Stats` | called by handlers and janitor; returns struct copies of entries | every read mutates; expiry is lazy and swept; two caps; the clock is read twice in a critical section |
| Janitor (`store/janitor.go`) | a ticker | `purge` every 30 s until cancelled | shares the store | races lazy expiry; the only one to reclaim what nobody asks for |
| Handlers (`api/api.go`) | per request: raw token, the entry taken, plaintext | wrap, unwrap, peek, revoke, health, metrics | store, crypto, both limiters, counters | decryption happens after the store's lock is released; responses can be lost |
| Middleware (`api/middleware.go`) | none | `rateLimit`, `maxBytes`, `Recover`, headers, `remoteIP` | both limiters | test and charge are two critical sections |
| Rate limiter (`api/ratelimit.go`) | a bucket per IP, time of the last sweep | `allow`, `take`, `peekOK` | clock | refill on access, sweep of idle buckets, debt |
| Metrics (`api/metrics.go`) | atomic counters | `record*`, `writeProm` | handlers, store gauges | several counters, no common lock |
| Crypto (`crypto/crypto.go`) | none | token, `LookupID`, `Seal`, `Open`, `Wipe` | handlers, CLI | `Wipe` writes to arrays that others may hold |
| Shamir (`shamir/shamir.go`, `web/static/shamir.js`) | none | `Split`, `Combine`, field arithmetic | CLI, web page | arithmetic on bytes, validation order, what is *not* detected |
| CLI (`cli/`), web UI (`web/`) | the token or the shares in hand | wrap, unwrap, combine, peek, revoke | HTTP | several calls per user action, lost responses |
| Server (`server/`) | listener, signal context | start, shutdown | all of the above | in-flight requests at shutdown |

What makes each correct:

- *store*: exactly the reads asked for are granted; a secret cannot be read at
  or after its deadline or once revoked; evidence is true, lasts, and is dropped only
  at the cap; both caps hold; memory is reclaimed; nothing depends on whether a
  request or the janitor came first;
- *handlers*: a granted read delivers the secret; ciphertext does not survive
  the entry; each granted read is counted once;
- *limiters*: the answers are those of a token bucket that always existed; debt
  and the number of failures are bounded whatever the interleaving;
- *service and clients*: the promises of the store hold end to end, over lost
  responses, timeouts, shutdown and restart: no secret is served more often than
  asked, "consumed" means that every read can be named, a confirmed revocation
  holds, exit codes and counters tell the truth, a split token is in nobody's hands;
- *Shamir*: `k` shares give the secret back, in any order; `k - 1` reveal
  nothing; no selection of the shares of one split is accepted and wrong.

The hazards of the code, line by line, with the properties that cover each, are
in `PROJECT.json`.

## 2. Modules

| Module | Models |
|---|---|
| `SecretStore` | the store and its janitor; its properties |
| `OneTimeSecret` | abstract specification: what the store promises, without tables |
| `Unwrap` | handlers over one `SecretStore`, with decryption outside the lock |
| `RateLimiter` | one limiter with lazy refill and sweep |
| `TokenBucket` | abstract specification of a limiter |
| `RequestGate` | the rate-limit middleware over two instances of `RateLimiter` |
| `GaloisField` | bytes, `gfMul`, `gfInv`, `gfEval`, the loops of `combineRaw`; polynomials as the reference |
| `Shamir` | `Split`, and `Combine` on pasted shares |
| `Service` | the server process over `OneTimeSecret`: requests and responses, counters, shutdown, crash, restart |
| `Clients` | extends `Service`: the commands of the CLI and the web page, with lost responses and timeouts |
| `MC...` | instances for TLC |
| `SecretStoreProof` | proofs about the store, and that it implements `OneTimeSecret` |
| `RateLimiterProof`, `RequestGateProof` | proofs about a limiter, and about the gate over two of them |
| `UnwrapProof` | proofs about the handlers over the store |
| `ClientsProof` | proofs about service and clients, and about the counters |
| `FieldProof` | the laws of the field, interpolation, polynomials that vanish at the shares |
| `GaloisFieldProof` | what `gf256` checks, for any field |
| `ShamirProof` | proofs about `Split`, what `Combine` accepts and gives back, and what `k - 1` shares tell |

### SecretStore

`entries` and `tombs` are the two maps, with `Absent` for a missing key; `clock`
is what `Store.now` returns. Each exported method runs under the mutex, so each
is one action: `Put`, `Take`, `Peek`, `Revoke`, `Purge`. The alternatives of a
method are its returns: `PutFull`/`PutOk`; `TakeOne`/`TakeLast`/`Miss`; and
`Miss` is `liveLocked` not finding a live entry, in its four ways (`ExpireLazily`,
`AnswerGone`, `ForgetTomb`, `NeverSeen`). `TombLocked` is `tombLocked`, with its
cap and its floor. Because `liveLocked` or `purge` reads the clock once and
`tombLocked` reads it again, an action that makes a tombstone lets the clock
advance by up to `Lag` and dates the tombstone with the second reading. In
`Purge` the entries are visited in map order, which Go leaves open: any subset of the
expired entries that fills the table of tombstones, or all of them, gets a tombstone,
each dated with a reading of its own.

`reply` is the answer of the last call. `history` is a history variable: what
was asked for and granted, and how and when each entry left the table. It never
appears in a guard except that `Put` is called with an ID at most once: the ID
is the hash of 32 fresh random bytes.

Properties: `Bounded`, `ReadBudget`, `EvidenceTruthful`, `EvidenceRetained`
(invariants), `EntriesReclaimed`, `TombsReclaimed` (liveness) and
`ImplementsOneTimeSecret` (refinement). In `OneTimeSecret` a secret is a number
of reads left, a deadline and a revocation mark; the answer to a request
is a function of these, of the time, and of the set of secrets the store has
forgotten, which only grows and never holds a readable secret. It says, in particular,
that a live secret is always found, that the reason given for a dead one is the true
one and never changes, and that a forgotten one stays "not found".

### Unwrap

Extends `SecretStore`. `array[id]` is the backing array of the ciphertext;
`request[r]` is what a goroutine in `handleUnwrap` holds: before
authentication (`open`), between authentication and decryption (`decrypt`), or
its result. `private` says whether its slice is the clone `Take` makes on the
last read. Each of the four paths that remove an entry has the call of `crypto.Wipe` that
the code has there (`store.go:126`, `160`, `191`, `233`): `TakeCloned`, `HandleRevoke`, `Unfound`
(lazy expiry, under any handler) and `Janitor`. Without any one of them `OnlyLiveSealed` fails. `crypto.Open` is two steps because AES-GCM reads the ciphertext twice;
the outcome of the data race is a choice of where the wipe falls. Only the two
counters that account for granted reads are kept; those of denied requests
would count the model's own repetitions and no property is about them.

### RateLimiter, RequestGate

A balance is kept in the time it takes to earn it, so a token costs `Cost` units and one
clock unit earns one unit: exact where the code has `float64`. `Touch` is the
call of `refillLocked`, with `gcLocked` inside, that each method begins
with. `RequestGate` instantiates the limiter twice over one clock and gives each
request the steps of `rateLimit` and of the handlers: `Arrive` (`allow`),
`Check` (`peekOK`), the handler, and `Charge` (`failedAuth`). Between any two of
them other requests may move.

### GaloisField, Shamir

A byte is the set of its one bits; `^` is symmetric difference and a shift drops
the bits that leave the byte. The loops of `gfMul` and `gfInv` are kept, as recursive functions
over rounds. The reference is multiplication of polynomials over GF(2) and long division by
the modulus. `Shamir` splits one secret (any draw of coefficients), lets shares be pasted
(genuine, repeated, mistyped, of another split, malformed) and calls
`Combine`. The checksum is ideal: it matches only the fields it was computed from.
The Go and the JavaScript implementation are the same algorithm; they differ in parsing,
which is not modelled.

### Service, Clients

These compose the components. `Service` instantiates the *abstract* store, so what is
checked of it holds of any store that implements `OneTimeSecret`, and `SecretStore` is
proved to. A request goes through `request[c].at`:

    none -> sent -> handled -> answered -> delivered
              \________\-> cut

`handled` lies between the return of the store call and the response: the store has
already changed, no counter has, and other requests, time, forgetting and the end of the process
may come first. `HandleWrap`, `HandleUnwrap`, `HandlePeek`, `HandleRevoke` are the handlers up to
that point; `Limit`, `Invalid` and `TokenMalformed` their early returns. `Respond` counts
(`audit`, `failedAuth`, `record...`) and answers, from the copy that `Take` returned.
`RespondTampered` is finding 1 as a client sees it. Its guard (not the last read, and the secret is over)
is what `LastReadDelivers` and `AlarmOnlyWhenOver` establish in `Unwrap`; what is decrypted is left to that module,
and whether the limiters refuse to `RequestGate`: here they may refuse anything.

`server` is the process: `Signal` stops the listener, `Drained` and `Deadline` are the two
returns of `Shutdown`, `Crash` everything else that ends it, `Boot` the next start. At the end the
store and the counters are gone and requests without an answer are cut; `spent` remembers which
IDs were issued, because tokens outlive the process.

`Clients` gives each command one call, since no client of the repository repeats a request. `Dial` is
`call` in `client.go`; `Receive...` what a command or the page does with the response; `GiveUp` a
connection that fails or the 15 s of the HTTP client, after which the server may or may not still
handle the request. What is printed or shown (`tokens`, `shares`) any later command may use. A
token can be mistyped into one that does not parse (`Malformed`) or one that was never issued
(`Never`); combining the shares of several splits yields `Never` too, since the token so made is random.
The tab keeps its panels as `app.js` does: the button lives until a response hides it.

`population` is fixed at the start and is a bound of the model: it says which commands a
behaviour consists of, how many, and what may happen to the server. Eight populations take the
place of one with everything, which could only be explored to two or three calls.

Definitions marked *Fault* are not part of any specification: each is a
plausible bug in the definition that follows it, kept to show that the property
it is meant to break does break.

## 3. Runs

| Run | Instance | Shows |
|---|---|---|
| `store_caps` | 3 IDs, 2 slots, 1 tombstone, 2 reads each, TTL 1-2, floor 1, clock to 3, lag 1; IDs symmetric | budget, evidence and caps. Three IDs let two entries expire together when one tombstone is free, and let the third meet a full store |
| `store_promise` | 2 IDs, 2 slots, 1 tombstone, TTL 1 and 3, 2 reads each, clock to 4, lag 1; fair janitor and clock | refinement of `OneTimeSecret`, and reclamation. One secret is over and forgotten while the other lives; a TTL at the floor and one above it |
| `store_full` | 2 IDs, 1 slot | finding 2 |
| `unwrap` | 2 requests, 2 secrets in turn, 1-2 reads | delivery, wiping and accounting. Two readers and any remover are enough: the array of a secret is wiped once |
| `unwrap_race` | 2 requests, 1 secret of 2 reads | finding 1 |
| `rate_limiter` | 2 IPs, burst 5, cost 2, sweep every 4, debt to 3, clock to 9 | refinement of `TokenBucket`. The sweep comes due at least twice and meets full, part-filled and indebted buckets |
| `request_gate` | 3 requests of 1 IP, budget of two failures, clock to 5 | bounds on debt and failures with the check and the charge interleaved. IPs share nothing but the sweep, which `rate_limiter` covers with two |
| `failure_budget` | 1 request | finding 3 |
| `gf256` | all 65536 pairs of bytes, `Width` = 8, 0x1b | field arithmetic, exhaustively for the code's own field |
| `shamir` | `Width` = 2: every split of one byte into 3 shares, k = 2, 3, and of two bytes, k = 2; up to 3 pasted | what is accepted, reconstruction and secrecy. The sharing uses nothing of the field but its laws, which `FieldProof` proves at any width |
| `clients` | 8 populations of 2 to 4 calls, 2 secrets, 1-2 reads, quorum 2 of 2, 2 starts of the server; fair shutdown deadline | everything about `Clients` and `Service`, see below |
| `mixed_shares` | the population `Sharers` | finding 4 |

The populations of `clients` (module `MCClients`) and the question each is there for:

| Population | Commands, calls | For |
|---|---|---|
| `Readers` | wrap, unwrap; 4 | three reads race for one or two; losers learn why |
| `Revokers` | wrap, unwrap, peek, revoke; 3; time, forgetting | a revocation against a read and against expiry |
| `Unlucky` | wrap, unwrap, revoke; 3; restart | shutdown, crash and restart at every point of a request |
| `Careless` | on mistyped tokens; 2; refusals, time | every outcome a handler has |
| `Sharers` | split, combine, print, unwrap; 4 | two splits, their shares mixed, the token printed and used |
| `Makers` | the page's create, with and without split; 3; refusals | what is stranded when a step after the wrap fails |
| `Browsers` | wrap, load, click; 4 | double click on Reveal with one and two reads |
| `Rivals` | wrap, load, click, unwrap, revoke; 4 | the page against other readers and its creator |

Three calls are enough for one party to overtake another (issue, act, act); four let two readers of one
secret meet a third event, or the shares of two splits meet. Two starts of the server are one
restart; a second one finds the same state as the first, an empty store and spent IDs.

`MaxClock`, `MaxNow`, `MaxDebt`, `MaxPasted`, `MaxBoots` and `Calls` bound the models only. `MaxClock`
also bounds deadlines in `Put`, so that every secret that is put can be seen to expire. A
floor of 24 h, caps of thousands and TTLs of days become numbers of one digit;
what matters is their order: a TTL at and above the floor, more secrets than
slots, more dead secrets than tombstones.

**Fairness.** `store_promise` assumes `WF(Purge)`, since the janitor's loop purges at every
tick of a ticker for as long as the server runs (`janitor.go:14-20`), and `WF(Tick)`,
since time passes. No request is fair: a secret need not be asked for ever again. `TombsReclaimed` and
`EntriesReclaimed` are stated up to `MaxClock`, before which every deadline lies.
`clients` assumes only the deadline of `Shutdown` (`server.go:120-122`). No handler is
assumed to return, no response to arrive, and no client to give up: that the 15 s of the CLI's HTTP client
(`client.go:50`) end every command is the promise of `net/http`, and nothing of the model could add to it.

The action property and the liveness property of `clients`: a server that exits with success has told
its clients of everything it did (`CleanExitOwesNothing`); a signal ends the server even if a
handler never returns (`ShutdownEnds`). That a server ends without success may well owe: a read consumed by
a handler that is cut off is lost, and `Deadline` and `Crash` do cut.

## 4. Findings

1. **`unwrap_race`, a bug.** `Take` returns a struct copy that shares the
   ciphertext array with the store unless the read was the last
   (`store.go:119`). `handleUnwrap` decrypts after the lock is released. If the last
   read, a revocation, lazy expiry or the janitor wipes the array in between, the
   read that was granted fails authentication, and is reported as tampering with a
   500 (`api.go:222-229`); if the wipe falls inside `Open`, garbage may be
   served. The comment at `store.go:121-122` knows the hazard, and the clone there covers
   the last reader only. What does hold is in `unwrap`: the
   last read always delivers (`LastReadDelivers`), and no alarm is raised for a secret
   that is still in the table (`AlarmOnlyWhenOver`).
2. **`store_full`, a divergence.** The cap counts expired entries nobody has
   touched: `Put` returns `ErrFull` below "max live entries" (`store.go:51`)
   until the janitor comes, against "correctness never depends on janitor
   timing" (`store.go:188`).
3. **`failure_budget`, a divergence.** `peekOK` admits at a balance of zero, so
   one more failure passes than "the 5-failure budget" (`api_test.go:252`);
   with concurrent requests up to one more for each of them (`FailuresBounded`).
4. **`mixed_shares`, a divergence.** Shares of two splits with the same threshold and distinct
   coordinates combine without an error, because a checksum covers its own share only. The token that
   comes out was never issued; `combine` sends it, and the answer is a 404 and a charged
   failure. `client.go:301-302` says that such a set "fails here, before any request reaches the
   server", and `app.js:252-253` the same of the page; `shamir.go:19-20` expects "an
   AES-GCM authentication failure", which a token that misses the lookup never meets.

Not findings, but consequences a maintainer should know, each a reachable state of `clients`:

- A reader whose response to `unwrap` is lost and who tries again is told that the secret "was already
  read": the alarm cannot tell an own lost read from an interception. Only the first command shows it: it ended in an
  error, never in exit code 3 or 4 (`OwnReadReported`). `SingleClickAlarm` is as much as
  holds: with one click in the tab, all the reads went to requests made elsewhere.
- A double click on Reveal sends two unwraps. With one read left the tab ends up with the secret and
  "This secret was already read" side by side, since neither `showSecret` nor `renderGone` hides the other's panel.
- The page checks only `k > n` and wraps before it loads `shamir.js` and splits; if either fails the secret is
  stored and its token shown to nobody. `OnlyThePageStrands` shows that this is the only such path; the CLI
  validates the quorum first.
- After a restart, and once evidence has been forgotten, an issued token gets exit code 4, like one that never
  existed; `ExitCodesTruthful` says that these are the only ways.

## 5. Proofs

`SecretStoreProof` is for all `Ids` (a finite set), all caps and
floors greater than zero, any lifetimes and numbers of reads greater than zero, any `Lag`
and `MaxClock`; these assumptions are named in `SecretStore` and hold of `Limits`
with its defaults and of what `handleWrap` lets through.

The inductive invariant is `IInv == TypeOK /\ \A id \in Ids : Sound(id)`.
`Sound(id)` relates the entry, the tombstone and the history of one secret. It is
stronger than `ReadBudget /\ EvidenceTruthful /\ EvidenceRetained` in three facts without
which they are not inductive: an ID without a history has neither entry nor tombstone
(else `Put` could inherit old evidence); the entry's `expiresAt` is the history's
deadline (else the tombstone made at the end would not have the right retention);
and a life that ended as "expired" ended at or after its deadline (needed by the refinement).

- `Invariance`: `Spec => []IInv`; one lemma per action, those that end an entry over
  the common lemma `EndStep`. `TypeCorrect`, `ReadsWithinBudget`,
  `EvidenceNeverLies` and `EvidenceLasts` follow.
- `TablesBounded`: `Spec => []Bounded`, by counting: a step that adds to a table first found
  it below its cap. In `Purge` all new tombstones are counted against the old table.
- `Refinement`: `Spec => ImplementsOneTimeSecret`. `FateMap` shows that the abstract fate
  of a secret is the recorded one once it is over; `Forgetting` that what is
  forgotten stays so; then each action maps to one of the abstract
  specification, the four kinds of `Miss` to `Deny`, `Purge` and `Tick` to `Elapse`.

`RateLimiterProof` is for any keys, burst, price and sweep period, and any length of time. `IInv` is
`TypeOK /\ WellFilled`, inductive as it stands. `RefillLevel` is the heart: what `refillLocked`
returns, on a new, kept or just swept bucket, is the level the key has earned, because a swept bucket
would have been full. From it, `TouchLevel` (a call takes its price from its own key and changes no
other level) and `TickLevel`, and so `Refinement`: `Spec => ImplementsTokenBucket`. `TypeCorrect` and
`NeverOverfilled` are the two invariants.

### The handlers: `UnwrapProof`

For any number of handlers (a finite set) over any store. `UInv` adds to the `IInv` of the store, to
`UnwrapTypeOK` and to `OnlyLiveSealed` what a handler knows of the read it holds (`ReadSound`): its
secret was issued; a copy that is not its own comes from a secret of several reads; and a result
other than the secret comes from such a copy, of a secret that is over. Without the first two, nothing tells
at the end of a read that the array which was wiped could not have been the last reader's. The step
lemmas rest on two facts about every call of the store: a life never goes back (`Forward`), and only
`Put` makes an entry appear (`NoNewEntry`), and on one lemma per path that removes an entry: what it removes is what
it wipes (`RemovedWiped`). `CiphertextsWiped`, `LastReadIsServed` and `NoFalseAlarm` follow.

`LivesGoForward` states the first of the two as an action property of the store alone, and `UnwrapIsStore`
(`UnwrapSpec => Spec`) says that the composition leaves the store as it is, so that every theorem about
the store, the refinement included, holds under the handlers.

`NoReadUncounted` is `ReadsAccounted`. The reads that were granted are the pairs of a secret and
a number up to `taken`, so that counting them needs no sum: a granted read adds one pair and one
handler that holds it (`TakeAccounted`), an answer turns a holder into one more count
(`AnswerAccounted`), and no other call changes `taken` of any secret (`Steady`).

### The gate: `RequestGateProof`

For any bursts, prices, keys and finite set of handlers. Each limiter keeps the `IInv` of
`RateLimiterProof`, whose lemmas are used through two instances of that module. `GInv` adds, for each IP
(`Paid`): the debt is at most one failure for every request *not* past the check, because the
check passes only at a balance of zero or more and admits one request at a time; and burst and
elapsed time pay for all the failures and the balance together. `DebtIsBounded` is the first,
`FailuresAreBounded` the sum of the two.

### Service and clients: `ClientsProof`

For any finite set of IDs, any populations, quorum, number of calls and of starts of the server, and any
length of time. The store in `Service` is `OneTimeSecret`, which `SecretStore` is proved to implement.

`CInv` has a part for each party. `Shaped`: what a request is at each point of its way.
`Truthful`: what its answer says of the store, in a form that outlives forgetting and the end of the
process. `Budgeted`: the reads asked for are those granted and those left, while the process lives; each
reader was told a different number of reads left, none smaller than what is left now. `Housekeeping`: IDs are fresh,
`spent` and issued ones apart, what is forgotten is over. `Called`, `Outputs`, `Tabbed`: what the command, the token
holders and the tab know. The properties are not inductive without one another: "consumed" means
that all reads were granted (`MissesHaveCause`) only because the budget is exact; the budget is only because each
secret has one wrap; and a confirmed revocation holds for later calls because a call that
begins remembers IDs that are already revoked in the store, or belong to a process that has ended.

The proof handles each handler's arrival by what it does to the budget of its secret: granting
a read, storing, revoking, or nothing. The rest of the server and the clients leave the budgets alone, but for
`RespondTampered`, which keeps the read, and the end of a process, after which nothing is issued.
From `CInv`: `NeverOverserved`, `MissesAreTrue`, `RemainingIsTrue`, `RevocationHolds`, `ExitCodesAreTrue`, `SpentReadsShow`,
`OthersNeverStrand`, `CustodyHolds`, `AlarmIsReal`, and the action properties `CleanExit` and `StoreUsedAsPromised`
(the handlers use the store only as `OneTimeSecret` allows).

`CountersAreTrue` is `CountersExplainStore`, from `KInv`, which is inductive relative to `CInv`: the
spent reads, numbered within their secret, are finitely many, and a handler that is about to
answer with a reason has seen a secret that ended that way (`Backed`), which it then goes on to be (`FateFixed`). Each
handler that got what it asked for moves one from pending to a counter when it answers.

### The field: `FieldProof`, `GaloisFieldProof`

For any width of the byte and any modulus without factors. The loops of the code are recursive functions,
and the induction over their rounds is done inside set theory: the rounds at which something holds are a set of
numbers; if it were not all of them, there would be a least one missing (`LeastElement`, `SetInduction`,
`BoundedInduction`). `LoopRuns` builds the function of any loop in that way, `LoopKeeps` is the rule for invariants.

- *Multiplication.* `gfMul` is linear in each operand and doubling either doubles the result; since doubling and `^`
  generate every byte from one (`OneGenerates`), it commutes and associates (`MulCommutes`, `MulAssociates`), and since
  single bits generate every byte (`BitsGenerate`), it is multiplication of polynomials followed by long division
  (`MulMultiplies`): the remainder is linear too, and to shift a polynomial is to double its remainder.
- *Inversion.* A product is zero only if a factor is, which is the assumption on the modulus. Hence multiplying by `a`
  permutes the bytes other than zero, and their product `e` is also `a` to the `2^Width - 1` times `e`: that power is one.
  `PowerIsPow` says that square and multiply computes powers, so `gfInv` (254, one less than 255) inverts: `GfInvInverts`.
- *Interpolation.* The divided difference of a function over a set of nodes is linear, and that of the function times
  the node is known from those of the function (`DifferenceTimesNode`). A polynomial therefore has none over more nodes than
  coefficients (`DifferenceOfPolynomial`, by Horner's rule). With zero as one more node, that is the formula of
  `combineRaw`: `Interpolation`. The other direction is `VanishingPolynomial`: with fewer nodes than coefficients there
  is a polynomial that is zero at each of them and takes any value at zero.

`GaloisFieldProof` states the two invariants of `gf256` as theorems of that module: `MultiplicationIsExact` and
`InversionIsExact`.

### Sharing: `ShamirProof`

For any field as above, any calls of `Split`, any strangers and any number of pasted shares. `SInv`:
the split comes from one call that `Split` accepts and from *some* draw; what is pasted can be; the result is that
of the pasted shares. `ShareShape` gives what `Split` returns: shares that decode, told apart by their coordinates.
`CombineAccepts` turns the loop of `Combine`, which stops at the first error, into "no share is in error" (there is a
least index among the bad ones), and `MistypedFound` is the checksum at work. `CombineIsExact` is
`AcceptsQuorums`: `Combine` accepts every quorum of a split, and of what can be pasted
from one split nothing else.

`SecretComesBack` is `Reconstructs`: what it accepts then *is* the secret. The shares that pass the loop are as many
as the threshold or more, at different coordinates, none of them zero, so that their bytes are different points
(`PointInjective`, which is where `n <= 255` is needed); each byte of the secret is the constant term of a
polynomial of `k` coefficients, and `BasisIsLagrange` leads to `Interpolation`.

`FewerRevealNothing` is `Secrecy`. Between the secret that was split and any other of its length there is a *mask*, a
polynomial per byte that is zero at the `k - 1` known shares and the difference of the two secrets at zero
(`MaskExists`). Adding it to a draw that explains the shares for one secret gives one that explains them for the other,
and adding it again goes back, so that the two sets of draws are as large (`AsManyExplanations`); all of them are
equally likely.

### Assumptions

All are named in the modules that declare the constants, and TLC evaluates each on the runs:

- the IDs, the handlers and the calls are finitely many (a process serves finitely many requests);
- limits, floor, lifetimes, reads, burst, price and sweep period are numbers, positive where `Limits`,
  `handleWrap` or the constants of `ratelimit.go` make them so; a price is at most the burst;
- the quorum is at least 2 and at most the number of shares, which `Split` demands, and the CLI checks first;
- model values (`Absent`, `None`, `Never`, `Malformed`) are not values of the types they stand beside;
- a byte has at least one bit, and the modulus only bits of a byte; `Calls` of `Shamir` are well-typed calls;
- the modulus divides no product of two smaller polynomials (`PrimeAssumption`), as that of AES does not: TLC evaluates
  it for `0x11b` with `gf256`, and for the modulus of `shamir`. It is about the reference, not about `gfMul`.

### Only model-checked

Liveness (`EntriesReclaimed`, `TombsReclaimed`, `ShutdownEnds`): fairness and `ENABLED` are out of the
prover's reach. Every invariant and every action property of the passing runs is a theorem.

## 6. Not modelled

- Seal, key derivation, token and share text encoding: standard library calls, taken as
  ideal: a fresh token has a fresh ID.
- TLS set-up and the refusal of a configuration at start-up: straight-line code that runs once, before there is
  any state. Flag parsing, printing, HTML, the text of `/metrics`, health and `status`: they only read.
- `remoteIP`: a function of one request that picks the key of the buckets. `RequestGate` is about one key,
  `RateLimiter` about any number of them.
- A scrape of `/metrics` reads the gauges under the store's lock and the counters one by one without: its figures
  may be of different moments. Nothing in the repository promises otherwise, so no property says so;
  `CountersExplainStore` relates the counters themselves to the store.
- The page's own combine request: it is that of the CLI but for the timeout.
- Requests without a token header, which `unwrap ""` sends (`client.go:77-79`): the 400 (`api.go:290-293`) changes no
  state and is not counted.
- `float64` rounding of balances; the wall clock going backwards (`time.Now` carries a
  monotonic reading).

## 7. Plan

Done: store, abstract store, handlers, limiters, gate, field and sharing, service and clients; the proofs above,
which cover every safety property of the runs.

What is left is decryption inside `Service`: `RespondTampered` has the guard that `UnwrapProof` proves; a composition of
`Unwrap` with the responses would make the link formal.
