------------------------------- MODULE Unwrap -------------------------------
(***************************************************************************)
(* Concurrent HTTP handlers over one SecretStore (internal/api/api.go).      *)
(*                                                                         *)
(* handleUnwrap takes a read under the store's lock and decrypts after it   *)
(* was released.  The Entry that Take returns is a struct copy: its          *)
(* ciphertext slice is the store's own array, except after the last read,   *)
(* which gets a clone.  Whoever removes the entry wipes the array.           *)
(*                                                                         *)
(* Reading the array while another goroutine wipes it is a data race.       *)
(* crypto.Open is AES-GCM, which authenticates the ciphertext and then      *)
(* decrypts it, so it reads the array twice; a wipe may come before, between*)
(* or after the two.                                                        *)
(***************************************************************************)
EXTENDS SecretStore

CONSTANT Requests  \* the goroutines that serve unwrap requests

ASSUME RequestsAssumption == IsFiniteSet(Requests)

VARIABLES
  array,    \* the backing array of each secret's ciphertext
  request,  \* what each goroutine holds
  metrics   \* metrics.unwraps and metrics.failures["tamper"]

unwrapVars == <<array, request, metrics>>
vars == <<storeVars, unwrapVars>>

Idle == [pc |-> "idle"]
Holding == [pc : {"open", "decrypt"}, id : Ids, private : BOOLEAN]
Finished == [pc : {"done"}, id : Ids, private : BOOLEAN,
             result : {"secret", "garbage", "tamper", "denied"}]

UnwrapInit ==
  /\ Init
  /\ array = [id \in Ids |-> "none"]
  /\ request = [r \in Requests |-> Idle]
  /\ metrics = [unwraps |-> 0, tamper |-> 0]

(* crypto.Wipe of the ciphertexts of some entries.                         *)
Wipe(ids) == array' = [id \in Ids |-> IF id \in ids THEN "wiped" ELSE array[id]]

Free(r) == request[r].pc \in {"idle", "done"}

(* Does the copy that r holds still carry the ciphertext?                  *)
Readable(r) == request[r].private \/ array[request[r].id] = "sealed"

Finish(r, result) ==
  request' = [request EXCEPT ![r] =
    [pc |-> "done", id |-> @.id, private |-> @.private, result |-> result]]

----------------------------------------------------------------------------
(* handleWrap stores a freshly sealed ciphertext.                          *)
Wrap(id) ==
  /\ Put(id)
  /\ array' = [array EXCEPT ![id] = IF entries'[id] # Absent THEN "sealed" ELSE @]
  /\ UNCHANGED <<request, metrics>>

(* Faults: the shared array is wiped after every read; the last read does   *)
(* not get a clone.                                                         *)
TakeSharedWiped(r, id) ==
  /\ Free(r)
  /\ TakeOne(id)
  /\ request' = [request EXCEPT ![r] = [pc |-> "open", id |-> id, private |-> FALSE]]
  /\ array' = [array EXCEPT ![id] = "wiped"]
  /\ UNCHANGED metrics

TakeUncloned(r, id) ==
  /\ Free(r)
  /\ TakeLast(id)
  /\ request' = [request EXCEPT ![r] = [pc |-> "open", id |-> id, private |-> FALSE]]
  /\ Wipe({id})
  /\ UNCHANGED metrics

(* Fault: lazy expiry deletes the entry and leaves its ciphertext.          *)
UnfoundUnwiped(op, id) == Miss(op, id) /\ UNCHANGED array

(* liveLocked that finds no live entry: one that expired is wiped there.    *)
Unfound(op, id) ==
  \/ ExpireLazily(op, id) /\ Wipe({id})
  \/ (AnswerGone(op, id) \/ ForgetTomb(op, id) \/ NeverSeen(op, id)) /\ UNCHANGED array

(* handleUnwrap up to the return of Take, which wipes after the last read;  *)
(* a miss is answered at once.                                              *)
TakeShared(r, id) ==
  /\ Free(r)
  /\ TakeOne(id)
  /\ request' = [request EXCEPT ![r] = [pc |-> "open", id |-> id, private |-> FALSE]]
  /\ UNCHANGED <<array, metrics>>

TakeCloned(r, id) ==
  /\ Free(r)
  /\ TakeLast(id)
  /\ request' = [request EXCEPT ![r] = [pc |-> "open", id |-> id, private |-> TRUE]]
  /\ Wipe({id})
  /\ UNCHANGED metrics

TakeMissed(r, id) ==
  /\ Free(r)
  /\ Unfound("take", id)
  /\ request' = [request EXCEPT ![r] =
       [pc |-> "done", id |-> id, private |-> FALSE, result |-> "denied"]]
  /\ UNCHANGED metrics

(* Fault: the failure is logged but not counted.                           *)
OpenFailedUncounted(r) ==
  /\ request[r].pc = "open"
  /\ ~Readable(r)
  /\ Finish(r, "tamper")
  /\ UNCHANGED <<storeVars, array, metrics>>

(* crypto.Open, first pass: authentication.  A failure is reported as       *)
(* tampering: metric, WARN and 500.                                         *)
OpenPassed(r) ==
  /\ request[r].pc = "open"
  /\ Readable(r)
  /\ request' = [request EXCEPT ![r].pc = "decrypt"]
  /\ UNCHANGED <<storeVars, array, metrics>>

OpenFailed(r) ==
  /\ request[r].pc = "open"
  /\ ~Readable(r)
  /\ Finish(r, "tamper")
  /\ metrics' = [metrics EXCEPT !.tamper = @ + 1]
  /\ UNCHANGED <<storeVars, array>>

(* crypto.Open, second pass: decryption, then audit("unwrap") and 200.      *)
Respond(r) ==
  /\ request[r].pc = "decrypt"
  /\ Finish(r, IF Readable(r) THEN "secret" ELSE "garbage")
  /\ metrics' = [metrics EXCEPT !.unwraps = @ + 1]
  /\ UNCHANGED <<storeVars, array>>

(* handlePeek, one call of the store.                                      *)
HandlePeek(id) ==
  /\ \/ PeekOk(id) /\ UNCHANGED array
     \/ Unfound("peek", id)
  /\ UNCHANGED <<request, metrics>>

(* handleRevoke, one call of the store; Revoke wipes what it deletes.       *)
HandleRevoke(id) ==
  /\ \/ RevokeOk(id) /\ Wipe({id})
     \/ Unfound("revoke", id)
  /\ UNCHANGED <<request, metrics>>

(* The janitor: purge wipes each entry that it deletes.                     *)
Janitor ==
  /\ Purge
  /\ Wipe({id \in Ids : Expired(id)})
  /\ UNCHANGED <<request, metrics>>

Pass == Tick /\ UNCHANGED unwrapVars

HandleUnwrap(r) ==
  \/ \E id \in Ids : TakeShared(r, id) \/ TakeCloned(r, id) \/ TakeMissed(r, id)
  \/ OpenPassed(r) \/ OpenFailed(r) \/ Respond(r)

UnwrapNext ==
  \/ \E id \in Ids : Wrap(id) \/ HandlePeek(id) \/ HandleRevoke(id)
  \/ \E r \in Requests : HandleUnwrap(r)
  \/ Janitor
  \/ Pass

UnwrapSpec == UnwrapInit /\ [][UnwrapNext]_vars

----------------------------------------------------------------------------
(* The handlers between the return of Take and their response, and the       *)
(* reads that the store granted, numbered per secret.                       *)
Reading == {r \in Requests : request[r].pc \in {"open", "decrypt"}}
ReadsGranted ==
  UNION {{id} \X (1..history[id].taken) : id \in {i \in Ids : history[i] # Absent}}

UnwrapTypeOK ==
  /\ TypeOK
  /\ array \in [Ids -> {"none", "sealed", "wiped"}]
  /\ request \in [Requests -> {Idle} \cup Holding \cup Finished]
  /\ metrics \in [unwraps : Nat, tamper : Nat]

(* Plaintext hygiene: exactly the secrets still in the table have a         *)
(* ciphertext in memory that the store owns; however a secret ended, its    *)
(* array is wiped.                                                          *)
OnlyLiveSealed == \A id \in Ids : array[id] = "sealed" <=> entries[id] # Absent

(* The clone in Take does its job: a read that burnt the secret, and so     *)
(* every read of a one-read secret, is answered with the secret, whatever   *)
(* wipes its array in the meantime.                                         *)
LastReadDelivers ==
  \A r \in Requests :
    request[r].pc = "done" /\ request[r].result \in {"tamper", "garbage"} =>
      ~request[r].private /\ history[request[r].id].total > 1

(* The tamper alarm is never raised, and garbage never served, for a secret *)
(* that is still in the table.                                              *)
AlarmOnlyWhenOver ==
  \A r \in Requests :
    request[r].pc = "done" /\ request[r].result \in {"tamper", "garbage"} =>
      history[request[r].id].fate # "live"

(* Every read the store granted is accounted for: it is being opened, or it *)
(* was counted as an unwrap or as tampering.                                *)
ReadsAccounted ==
  metrics.unwraps + metrics.tamper + Cardinality(Reading) = Cardinality(ReadsGranted)

(* "The copy shares the ciphertext backing array; clone it before wiping    *)
(* the store's slice or the caller gets zeroed bytes" (store.go): no caller *)
(* that was granted a read gets zeroed bytes.                               *)
NoZeroedBytes ==
  \A r \in Requests : request[r].pc = "done" => request[r].result \notin {"tamper", "garbage"}
=============================================================================
