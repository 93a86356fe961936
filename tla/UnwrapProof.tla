----------------------------- MODULE UnwrapProof -----------------------------
(***************************************************************************)
(* Proofs about Unwrap, for any number of handlers and every store.         *)
(***************************************************************************)
EXTENDS Unwrap, SecretStoreProof

(* The life of a secret only goes forward: what it was issued with stays,   *)
(* and once it is over nothing changes any more.                           *)
Forward(id) ==
  history[id] # Absent =>
    /\ history'[id] # Absent
    /\ history'[id].total = history[id].total
    /\ history[id].fate # "live" => history'[id] = history[id]

(* Only Put makes an entry appear.                                         *)
NoNewEntry == \A id \in Ids : entries[id] = Absent => entries'[id] = Absent

(* Setting the life of one secret that is not over to a later one.          *)
LEMMA OneForward ==
  ASSUME IInv, NEW id \in Ids, history[id] # Absent => history[id].fate = "live",
         NEW life \in Life, history[id] # Absent => life.total = history[id].total,
         history' = [history EXCEPT ![id] = life]
  PROVE  \A j \in Ids : Forward(j)
BY AbsentAssumption DEF Forward, IInv, TypeOK

(* A life that ended keeps what it was issued with.                        *)
LEMMA EndedForward ==
  ASSUME IInv, NEW id \in Ids, entries[id] # Absent, NEW fate \in Reasons,
         NEW now \in Readings, NEW life \in Life, life.total = history[id].total,
         history' = [history EXCEPT ![id] = Ended(life, fate, now, TableFull)]
  PROVE  \A j \in Ids : Forward(j)
<1>1. history[id] # Absent /\ history[id].fate = "live"
  BY DEF IInv, Sound
<1>2. /\ Ended(life, fate, now, TableFull) \in Life
      /\ Ended(life, fate, now, TableFull).total = life.total
  BY EndedLife, ReadingsType, FullType DEF IInv
<1>3. QED
  BY <1>1, <1>2, OneForward

(* A read that was granted adds to a life.                                 *)
LEMMA GrantedLife ==
  ASSUME NEW life \in Life
  PROVE  Granted(life) \in Life /\ Granted(life).total = life.total
BY DEF Granted, Life

(* Every method but Put, and the janitor, only take entries away; no step   *)
(* turns a life back.                                                      *)
LEMMA MissEffect ==
  ASSUME IInv, NEW op, NEW id \in Ids, Miss(op, id)
  PROVE  NoNewEntry /\ \A j \in Ids : Forward(j)
<1>1. CASE ExpireLazily(op, id)
  <2>1. entries[id] # Absent /\ entries' = [entries EXCEPT ![id] = Absent]
    BY <1>1 DEF ExpireLazily, Expired
  <2>2. history[id] \in Life /\ "expired" \in Reasons
    BY <2>1 DEF IInv, TypeOK, Sound, Reasons
  <2>3. PICK now \in Readings :
          history' = [history EXCEPT ![id] = Ended(history[id], "expired", now, TableFull)]
    BY <1>1 DEF ExpireLazily
  <2>4. QED
    BY <2>1, <2>2, <2>3, EndedForward DEF NoNewEntry, IInv, TypeOK
<1>2. CASE UNCHANGED <<entries, history>>
  BY <1>2 DEF NoNewEntry, Forward
<1>3. QED
  BY <1>1, <1>2 DEF Miss, AnswerGone, ForgetTomb, NeverSeen

(* The last read ends a life and adds no entry,                            *)
LEMMA TakeLastEffect ==
  ASSUME IInv, NEW id \in Ids, TakeLast(id)
  PROVE  NoNewEntry /\ \A j \in Ids : Forward(j)
<1>1. entries[id] # Absent /\ entries' = [entries EXCEPT ![id] = Absent]
  BY DEF TakeLast, Live
<1>2. history[id] \in Life /\ "consumed" \in Reasons
  BY <1>1 DEF IInv, TypeOK, Sound, Reasons
<1>3. PICK now \in Readings :
        history' = [history EXCEPT ![id] =
          Ended(Granted(history[id]), "consumed", now, TableFull)]
  BY DEF TakeLast
<1>4. Granted(history[id]) \in Life /\ Granted(history[id]).total = history[id].total
  BY <1>2, GrantedLife
<1>5. QED
  BY <1>1, <1>2, <1>3, <1>4, EndedForward DEF NoNewEntry, IInv, TypeOK

(* a peek ends at most one that has expired,                               *)
LEMMA PeekEffect ==
  ASSUME IInv, NEW id \in Ids, Peek(id)
  PROVE  NoNewEntry /\ \A j \in Ids : Forward(j)
<1>1. CASE UNCHANGED <<entries, history>>
  BY <1>1 DEF NoNewEntry, Forward
<1>2. QED
  BY <1>1, MissEffect DEF Peek, PeekOk

(* and a revocation ends one.                                              *)
LEMMA RevokeEffect ==
  ASSUME IInv, NEW id \in Ids, Revoke(id)
  PROVE  NoNewEntry /\ \A j \in Ids : Forward(j)
<1>1. CASE RevokeOk(id)
  <2>1. entries[id] # Absent /\ entries' = [entries EXCEPT ![id] = Absent]
    BY <1>1 DEF RevokeOk, Live
  <2>2. history[id] \in Life /\ "revoked" \in Reasons
    BY <2>1 DEF IInv, TypeOK, Sound, Reasons
  <2>3. PICK now \in Readings :
          history' = [history EXCEPT ![id] = Ended(history[id], "revoked", now, TableFull)]
    BY <1>1 DEF RevokeOk
  <2>4. QED
    BY <2>1, <2>2, <2>3, EndedForward DEF NoNewEntry, IInv, TypeOK
<1>2. QED
  BY <1>1, MissEffect DEF Revoke

(* A purge ends the lives that have expired, each at some time, and leaves  *)
(* the others as they are;                                                  *)
LEMMA PurgeEnds ==
  ASSUME IInv, Purge, NEW j \in Ids
  PROVE  /\ Expired(j) => \E time \in Nat, dropped \in BOOLEAN :
              history'[j] = Ended(history[j], "expired", time, dropped)
         /\ ~Expired(j) => history'[j] = history[j]
<1> DEFINE dead == {id \in Ids : Expired(id)}
<1>1. PICK now \in Readings : \E noted \in SUBSET dead, at \in [dead -> clock..now] :
        history' = [id \in Ids |->
          IF id \in dead THEN Ended(history[id], "expired", at[id], id \notin noted)
          ELSE history[id]]
  BY DEF Purge
<1>2. PICK noted \in SUBSET dead, at \in [dead -> clock..now] :
        history' = [id \in Ids |->
          IF id \in dead THEN Ended(history[id], "expired", at[id], id \notin noted)
          ELSE history[id]]
  BY <1>1
<1>3. CASE Expired(j)
  <2>1. at[j] \in clock..now /\ clock \in Nat
    BY <1>3 DEF IInv, TypeOK
  <2>2. at[j] \in Nat /\ (j \notin noted) \in BOOLEAN
    BY <2>1
  <2>3. history'[j] = Ended(history[j], "expired", at[j], j \notin noted)
    BY <1>2, <1>3
  <2>4. QED
    BY <1>3, <2>2, <2>3
<1>4. CASE ~Expired(j)
  BY <1>2, <1>4
<1>5. QED
  BY <1>3, <1>4

(* it adds no entry and turns no life back.                                *)
LEMMA PurgeEffect == IInv /\ Purge => NoNewEntry /\ \A j \in Ids : Forward(j)
<1> SUFFICES ASSUME IInv, Purge PROVE NoNewEntry /\ \A j \in Ids : Forward(j)
  OBVIOUS
<1>1. NoNewEntry
  BY DEF NoNewEntry, Purge
<1>2. ASSUME NEW j \in Ids PROVE Forward(j)
  <2>1. CASE Expired(j)
    <3>1. history[j] \in Life /\ history[j].fate = "live"
      BY <2>1 DEF Expired, IInv, TypeOK, Sound
    <3>2. PICK time \in Nat, dropped \in BOOLEAN :
            history'[j] = Ended(history[j], "expired", time, dropped)
      BY <2>1, PurgeEnds
    <3>3. "expired" \in Reasons
      BY DEF Reasons
    <3>4. /\ Ended(history[j], "expired", time, dropped) \in Life
          /\ Ended(history[j], "expired", time, dropped)
               = [total |-> history[j].total, taken |-> history[j].taken,
                  deadline |-> history[j].deadline, fate |-> "expired",
                  died |-> time, dropped |-> dropped]
      BY <3>1, <3>3, EndedLife
    <3>5. history'[j] \in Life /\ history'[j].total = history[j].total
      BY <3>2, <3>4
    <3>6. QED
      BY <3>1, <3>5, AbsentAssumption DEF Forward
  <2>2. CASE ~Expired(j)
    BY <2>2, PurgeEnds DEF Forward
  <2>3. QED
    BY <2>1, <2>2
<1>3. QED
  BY <1>1, <1>2

(* A read that is not the last leaves the table's IDs as they are.         *)
LEMMA TakeOneEffect ==
  ASSUME IInv, NEW id \in Ids, TakeOne(id)
  PROVE  /\ history[id] \in Life /\ history[id].total > 1
         /\ \A j \in Ids : Forward(j) /\ (entries[j] = Absent <=> entries'[j] = Absent)
<1>1. /\ entries[id] \in Entry /\ history[id] \in Life /\ history[id].fate = "live"
      /\ entries[id].remaining + history[id].taken = history[id].total
      /\ entries[id].remaining - 1 > 0
  BY DEF TakeOne, Live, IInv, TypeOK, Sound
<1>2. history[id].total > 1
  BY <1>1 DEF Entry, Life
<1>3. Granted(history[id]) \in Life /\ Granted(history[id]).total = history[id].total
  BY <1>1, GrantedLife
<1>4. \A j \in Ids : Forward(j)
  BY <1>1, <1>3, OneForward DEF TakeOne
<1>5. entries'[id] \in Entry
  BY <1>1 DEF TakeOne, Entry, IInv, TypeOK
<1>6. ASSUME NEW j \in Ids PROVE entries[j] = Absent <=> entries'[j] = Absent
  <2>1. CASE j = id
    BY <1>1, <1>5, <2>1, AbsentAssumption
  <2>2. CASE j # id
    BY <2>2 DEF TakeOne, IInv, TypeOK
  <2>3. QED
    BY <2>1, <2>2
<1>7. QED
  BY <1>1, <1>2, <1>4, <1>6

(* Put concerns an ID that was never issued.                               *)
LEMMA PutEffect ==
  ASSUME IInv, NEW id \in Ids, Put(id)
  PROVE  /\ \A j \in Ids : Forward(j)
         /\ \A j \in Ids \ {id} : entries'[j] = entries[j]
         /\ entries[id] = Absent
<1>1. entries[id] = Absent /\ history[id] = Absent
  BY DEF Put, PutFull, PutOk, IInv, Sound
<1>2. CASE PutFull(id)
  BY <1>1, <1>2 DEF PutFull, Forward
<1>3. CASE PutOk(id)
  BY <1>1, <1>3 DEF PutOk, Forward, IInv, TypeOK
<1>4. QED
  BY <1>1, <1>2, <1>3 DEF Put

----------------------------------------------------------------------------
(* The inductive invariant: with the store's own invariant, what a handler  *)
(* knows of the secret it was granted a read of.  Only a copy that the      *)
(* handler owns can come from the last read, so one that is shared belongs  *)
(* to a secret of several reads; it was lost only if the secret is over.    *)
ReadSound(r) ==
  LET read == request[r] IN
  /\ read.pc \in {"open", "decrypt"} =>
       /\ history[read.id] # Absent
       /\ ~read.private => history[read.id].total > 1
  /\ read.pc = "done" /\ read.result \in {"tamper", "garbage"} =>
       /\ history[read.id] # Absent
       /\ ~read.private
       /\ history[read.id].total > 1
       /\ history[read.id].fate # "live"

UInv == IInv /\ UnwrapTypeOK /\ OnlyLiveSealed /\ \A r \in Requests : ReadSound(r)

(* The invariant holds of the empty store.                                 *)
LEMMA InitUInv == UnwrapInit => UInv
<1> SUFFICES ASSUME UnwrapInit PROVE UInv
  OBVIOUS
<1>1. IInv
  BY InitIInv DEF UnwrapInit
<1>2. UnwrapTypeOK
  BY <1>1 DEF UnwrapInit, UnwrapTypeOK, IInv
<1>3. OnlyLiveSealed /\ \A r \in Requests : ReadSound(r)
  BY DEF UnwrapInit, Init, OnlyLiveSealed, ReadSound, Idle
<1>4. QED
  BY <1>1, <1>2, <1>3 DEF UInv

(* The step of a handler or of the store: what is left to show is what      *)
(* becomes of the arrays and of the requests it changes.                    *)
LEMMA Step ==
  ASSUME UInv, IInv', \A id \in Ids : Forward(id),
         UnwrapTypeOK', OnlyLiveSealed',
         \A r \in Requests : request'[r] = request[r] \/ ReadSound(r)'
  PROVE  UInv'
<1>1. ASSUME NEW r \in Requests, request'[r] = request[r] PROVE ReadSound(r)'
  <2>1. ReadSound(r) /\ request[r] \in {Idle} \cup Holding \cup Finished
    BY DEF UInv, UnwrapTypeOK
  <2>2. request[r].pc # "idle" => request[r].id \in Ids
    BY <2>1 DEF Idle, Holding, Finished
  <2>3. request[r].pc # "idle" => Forward(request[r].id)
    BY <2>2
  <2>4. QED
    BY <1>1, <2>1, <2>3 DEF ReadSound, Forward
<1>2. QED
  BY <1>1 DEF UInv

(* What the wipes of the four paths come to: exactly what a step removes is *)
(* wiped.  Each path has a wipe of its own, so each has to be shown to.     *)
RemovedWiped ==
  array' = [id \in Ids |->
    IF entries[id] # Absent /\ entries'[id] = Absent THEN "wiped" ELSE array[id]]

(* A step that removes the entries that it wipes,                          *)
LEMMA WipesRemoved ==
  ASSUME UInv, NEW ids \in SUBSET Ids, Wipe(ids),
         \A id \in ids : entries[id] # Absent /\ entries'[id] = Absent,
         \A id \in Ids \ ids : entries'[id] = entries[id]
  PROVE  RemovedWiped
BY DEF Wipe, RemovedWiped

(* a step that removes none and wipes none,                                *)
LEMMA NoneRemoved ==
  ASSUME UInv, UNCHANGED <<entries, array>>
  PROVE  RemovedWiped
BY DEF RemovedWiped, UInv, UnwrapTypeOK

(* lazy expiry, in whichever method,                                       *)
LEMMA UnfoundWipes ==
  ASSUME UInv, NEW op, NEW id \in Ids, Unfound(op, id)
  PROVE  Miss(op, id) /\ RemovedWiped
<1>1. CASE ExpireLazily(op, id) /\ Wipe({id})
  <2>1. entries[id] # Absent /\ entries' = [entries EXCEPT ![id] = Absent]
    BY <1>1 DEF ExpireLazily, Expired
  <2>2. RemovedWiped
    BY <1>1, <2>1, WipesRemoved DEF UInv, IInv, TypeOK
  <2>3. QED
    BY <1>1, <2>2 DEF Miss
<1>2. CASE /\ AnswerGone(op, id) \/ ForgetTomb(op, id) \/ NeverSeen(op, id)
           /\ UNCHANGED array
  <2>1. UNCHANGED entries
    BY <1>2 DEF AnswerGone, ForgetTomb, NeverSeen
  <2>2. QED
    BY <1>2, <2>1, NoneRemoved DEF Miss
<1>3. QED
  BY <1>1, <1>2 DEF Unfound

(* the last read,                                                          *)
LEMMA TakeLastWipes ==
  ASSUME UInv, NEW id \in Ids, TakeLast(id), Wipe({id})
  PROVE  RemovedWiped
<1>1. entries[id] # Absent /\ entries' = [entries EXCEPT ![id] = Absent]
  BY DEF TakeLast, Live
<1>2. QED
  BY <1>1, WipesRemoved DEF UInv, IInv, TypeOK

(* a peek, which can only expire,                                          *)
LEMMA PeekWipes ==
  ASSUME UInv, NEW id \in Ids, HandlePeek(id)
  PROVE  Peek(id) /\ RemovedWiped
<1>1. CASE PeekOk(id) /\ UNCHANGED array
  BY <1>1, NoneRemoved DEF PeekOk, Peek
<1>2. CASE Unfound("peek", id)
  BY <1>2, UnfoundWipes DEF Peek
<1>3. QED
  BY <1>1, <1>2 DEF HandlePeek

(* a revocation,                                                           *)
LEMMA RevokeWipes ==
  ASSUME UInv, NEW id \in Ids, HandleRevoke(id)
  PROVE  Revoke(id) /\ RemovedWiped
<1>1. CASE RevokeOk(id) /\ Wipe({id})
  <2>1. entries[id] # Absent /\ entries' = [entries EXCEPT ![id] = Absent]
    BY <1>1 DEF RevokeOk, Live
  <2>2. QED
    BY <1>1, <2>1, WipesRemoved DEF Revoke, UInv, IInv, TypeOK
<1>2. CASE Unfound("revoke", id)
  BY <1>2, UnfoundWipes DEF Revoke
<1>3. QED
  BY <1>1, <1>2 DEF HandleRevoke

(* and the janitor.                                                        *)
LEMMA JanitorWipes ==
  ASSUME UInv, Janitor
  PROVE  RemovedWiped
<1> DEFINE dead == {id \in Ids : Expired(id)}
<1>1. entries' = [id \in Ids |-> IF id \in dead THEN Absent ELSE entries[id]]
  BY DEF Janitor, Purge
<1>2. \A id \in dead : entries[id] # Absent
  BY DEF Expired
<1>3. dead \in SUBSET Ids /\ Wipe(dead)
  BY DEF Janitor
<1> HIDE DEF dead
<1>4. QED
  BY <1>1, <1>2, <1>3, WipesRemoved

(* Wiping what is removed keeps exactly the ciphertexts of the table.       *)
LEMMA WipeKeeps ==
  ASSUME UInv, RemovedWiped, NoNewEntry
  PROVE  array' \in [Ids -> {"none", "sealed", "wiped"}] /\ OnlyLiveSealed'
<1>1. array' \in [Ids -> {"none", "sealed", "wiped"}]
  BY DEF RemovedWiped, UInv, UnwrapTypeOK
<1>2. ASSUME NEW id \in Ids PROVE array'[id] = "sealed" <=> entries'[id] # Absent
  BY DEF RemovedWiped, NoNewEntry, UInv, OnlyLiveSealed
<1>3. QED
  BY <1>1, <1>2 DEF OnlyLiveSealed

(* The invariant outlives a wrap, which writes a fresh array.              *)
LEMMA WrapStep ==
  ASSUME UInv, NEW id \in Ids, Wrap(id)
  PROVE  UInv'
<1>1. IInv' /\ Put(id) /\ UNCHANGED <<request, metrics>>
  BY PutStep DEF Wrap, UInv
<1>2. /\ \A j \in Ids : Forward(j)
      /\ \A j \in Ids \ {id} : entries'[j] = entries[j]
      /\ entries[id] = Absent
  BY <1>1, PutEffect DEF UInv
<1>3. array' = [array EXCEPT ![id] = IF entries'[id] # Absent THEN "sealed" ELSE @]
  BY DEF Wrap
<1>4. array \in [Ids -> {"none", "sealed", "wiped"}] /\ OnlyLiveSealed
  BY DEF UInv, UnwrapTypeOK
<1>5. UnwrapTypeOK'
  <2>1. array' \in [Ids -> {"none", "sealed", "wiped"}]
    BY <1>3, <1>4
  <2>2. QED
    BY <1>1, <2>1 DEF UInv, UnwrapTypeOK, IInv
<1>6. OnlyLiveSealed'
  BY <1>2, <1>3, <1>4 DEF OnlyLiveSealed
<1>7. QED
  BY <1>1, <1>2, <1>5, <1>6, Step

(* A step that only takes entries away and wipes what they held.            *)
LEMMA RemovalStep ==
  ASSUME UInv, IInv', NoNewEntry, \A id \in Ids : Forward(id), RemovedWiped,
         UNCHANGED metrics,
         request' \in [Requests -> {Idle} \cup Holding \cup Finished],
         \A r \in Requests : request'[r] = request[r] \/ ReadSound(r)'
  PROVE  UInv'
<1>1. UnwrapTypeOK' /\ OnlyLiveSealed'
  BY WipeKeeps DEF UInv, UnwrapTypeOK, IInv
<1>2. QED
  BY <1>1, Step

(* A granted read that is not the last: the copy is shared, and there are   *)
(* several reads.                                                          *)
LEMMA TakeSharedStep ==
  ASSUME UInv, NEW r \in Requests, NEW id \in Ids, TakeShared(r, id)
  PROVE  UInv'
<1>1. TakeOne(id) /\ UNCHANGED <<array, metrics>>
  BY DEF TakeShared
<1>2. /\ history[id] \in Life /\ history[id].total > 1
      /\ \A j \in Ids : Forward(j) /\ (entries[j] = Absent <=> entries'[j] = Absent)
  BY <1>1, TakeOneEffect DEF UInv
<1>3. IInv'
  BY <1>1, TakeStep DEF Take, UInv
<1>4. request' = [request EXCEPT ![r] = [pc |-> "open", id |-> id, private |-> FALSE]]
  BY DEF TakeShared
<1>5. UnwrapTypeOK'
  BY <1>1, <1>3, <1>4 DEF UInv, UnwrapTypeOK, IInv, Holding
<1>6. OnlyLiveSealed'
  BY <1>1, <1>2 DEF UInv, OnlyLiveSealed
<1>7. request'[r] = [pc |-> "open", id |-> id, private |-> FALSE]
  BY <1>4 DEF UInv, UnwrapTypeOK
<1>8. ReadSound(r)'
  BY <1>2, <1>7, AbsentAssumption DEF ReadSound, Forward
<1>9. \A q \in Requests : request'[q] = request[q] \/ ReadSound(q)'
  BY <1>4, <1>8 DEF UInv, UnwrapTypeOK
<1>10. QED
  BY <1>2, <1>3, <1>5, <1>6, <1>9, Step

(* The last read gets a copy of its own.                                   *)
LEMMA TakeClonedStep ==
  ASSUME UInv, NEW r \in Requests, NEW id \in Ids, TakeCloned(r, id)
  PROVE  UInv'
<1>1. TakeLast(id) /\ RemovedWiped /\ UNCHANGED metrics
  BY TakeLastWipes DEF TakeCloned
<1>2. NoNewEntry /\ \A j \in Ids : Forward(j)
  BY <1>1, TakeLastEffect DEF UInv
<1>3. IInv'
  BY <1>1, TakeStep DEF Take, UInv
<1>4. request' = [request EXCEPT ![r] = [pc |-> "open", id |-> id, private |-> TRUE]]
  BY DEF TakeCloned
<1>5. request' \in [Requests -> {Idle} \cup Holding \cup Finished]
  BY <1>4 DEF UInv, UnwrapTypeOK, Holding
<1>6. history[id] # Absent
  BY <1>1 DEF TakeLast, Live, UInv, IInv, Sound
<1>7. request'[r] = [pc |-> "open", id |-> id, private |-> TRUE]
  BY <1>4 DEF UInv, UnwrapTypeOK
<1>8. ReadSound(r)'
  BY <1>2, <1>6, <1>7 DEF ReadSound, Forward
<1>9. \A q \in Requests : request'[q] = request[q] \/ ReadSound(q)'
  BY <1>4, <1>8 DEF UInv, UnwrapTypeOK
<1>10. QED
  BY <1>1, <1>2, <1>3, <1>5, <1>9, RemovalStep

(* It outlives a read that finds no secret,                                *)
LEMMA TakeMissedStep ==
  ASSUME UInv, NEW r \in Requests, NEW id \in Ids, TakeMissed(r, id)
  PROVE  UInv'
<1>1. Miss("take", id) /\ RemovedWiped /\ UNCHANGED metrics
  BY UnfoundWipes DEF TakeMissed
<1>2. NoNewEntry /\ \A j \in Ids : Forward(j)
  BY <1>1, MissEffect DEF UInv
<1>3. IInv'
  BY <1>1, MissStep DEF Ops, UInv
<1>4. request' = [request EXCEPT ![r] =
        [pc |-> "done", id |-> id, private |-> FALSE, result |-> "denied"]]
  BY DEF TakeMissed
<1>5. request' \in [Requests -> {Idle} \cup Holding \cup Finished]
  BY <1>4 DEF UInv, UnwrapTypeOK, Finished
<1>6. request'[r] = [pc |-> "done", id |-> id, private |-> FALSE, result |-> "denied"]
  BY <1>4 DEF UInv, UnwrapTypeOK
<1>7. ReadSound(r)'
  BY <1>6 DEF ReadSound
<1>8. \A q \in Requests : request'[q] = request[q] \/ ReadSound(q)'
  BY <1>4, <1>7 DEF UInv, UnwrapTypeOK
<1>9. QED
  BY <1>1, <1>2, <1>3, <1>5, <1>8, RemovalStep

----------------------------------------------------------------------------
(* What a holder knows: its secret was issued, and if its copy is gone then *)
(* the copy was shared, the secret had several reads and it is over.        *)
LEMMA HolderKnows ==
  ASSUME UInv, NEW r \in Requests, request[r].pc \in {"open", "decrypt"}
  PROVE  /\ request[r] \in Holding /\ history[request[r].id] # Absent
         /\ ~Readable(r) => /\ ~request[r].private
                            /\ history[request[r].id].total > 1
                            /\ history[request[r].id].fate # "live"
<1>1. request[r] \in Holding
  BY DEF UInv, UnwrapTypeOK, Idle, Finished
<1>2. request[r].id \in Ids /\ request[r].private \in BOOLEAN
  BY <1>1 DEF Holding
<1>3. /\ history[request[r].id] # Absent
      /\ ~request[r].private => history[request[r].id].total > 1
  BY DEF UInv, ReadSound
<1>4. array[request[r].id] = "sealed" <=> entries[request[r].id] # Absent
  BY <1>2 DEF UInv, OnlyLiveSealed
<1>5. entries[request[r].id] # Absent <=> history[request[r].id].fate = "live"
  BY <1>2, <1>3 DEF UInv, IInv, Sound
<1>6. QED
  BY <1>1, <1>3, <1>4, <1>5 DEF Readable

(* A step of crypto.Open, or the answer: the store is not involved.         *)
LEMMA LocalStep ==
  ASSUME UInv, UNCHANGED <<storeVars, array>>, NEW r \in Requests,
         NEW read \in Holding \cup Finished, request' = [request EXCEPT ![r] = read],
         metrics' \in [unwraps : Nat, tamper : Nat], ReadSound(r)'
  PROVE  UInv'
<1>1. IInv'
  BY NextIInv DEF UInv
<1>2. \A id \in Ids : Forward(id)
  BY DEF Forward, storeVars
<1>3. UnwrapTypeOK'
  BY <1>1 DEF UInv, UnwrapTypeOK, IInv
<1>4. OnlyLiveSealed'
  BY DEF UInv, OnlyLiveSealed, storeVars
<1>5. \A q \in Requests : request'[q] = request[q] \/ ReadSound(q)'
  BY DEF UInv, UnwrapTypeOK
<1>6. QED
  BY <1>1, <1>2, <1>3, <1>4, <1>5, Step

(* The invariant outlives a verification that finds the copy intact,       *)
LEMMA OpenPassedStep ==
  ASSUME UInv, NEW r \in Requests, OpenPassed(r)
  PROVE  UInv'
<1> DEFINE read == [request[r] EXCEPT !.pc = "decrypt"]
<1>1. request[r] \in Holding
  BY HolderKnows DEF OpenPassed
<1>2. read \in Holding /\ read.pc = "decrypt" /\ read.id = request[r].id
      /\ read.private = request[r].private
  BY <1>1 DEF Holding
<1>3. request' = [request EXCEPT ![r] = read] /\ request'[r] = read
  BY DEF OpenPassed, UInv, UnwrapTypeOK
<1>4. ReadSound(r)
  BY DEF UInv
<1>5. ReadSound(r)'
  BY <1>2, <1>3, <1>4 DEF OpenPassed, ReadSound, storeVars
<1>6. metrics' \in [unwraps : Nat, tamper : Nat]
  BY DEF OpenPassed, UInv, UnwrapTypeOK
<1> HIDE DEF read
<1>7. QED
  BY <1>2, <1>3, <1>5, <1>6, LocalStep DEF OpenPassed

(* An answer that is not the secret is given only if the copy is gone.      *)
LEMMA FinishStep ==
  ASSUME UInv, UNCHANGED <<storeVars, array>>, NEW r \in Requests,
         request[r].pc \in {"open", "decrypt"},
         NEW result \in {"secret", "garbage", "tamper"}, Finish(r, result),
         result # "secret" => ~Readable(r), metrics' \in [unwraps : Nat, tamper : Nat]
  PROVE  UInv'
<1> DEFINE read == [pc |-> "done", id |-> request[r].id,
                    private |-> request[r].private, result |-> result]
<1>1. /\ request[r] \in Holding /\ history[request[r].id] # Absent
      /\ ~Readable(r) => /\ ~request[r].private
                         /\ history[request[r].id].total > 1
                         /\ history[request[r].id].fate # "live"
  BY HolderKnows
<1>2. read \in Finished
  BY <1>1 DEF Holding, Finished
<1>3. request' = [request EXCEPT ![r] = read] /\ request'[r] = read
  BY DEF Finish, UInv, UnwrapTypeOK
<1>4. ReadSound(r)'
  BY <1>1, <1>3 DEF ReadSound, storeVars
<1> HIDE DEF read
<1>5. QED
  BY <1>2, <1>3, <1>4, LocalStep

(* one that finds it wiped,                                                *)
LEMMA OpenFailedStep ==
  ASSUME UInv, NEW r \in Requests, OpenFailed(r)
  PROVE  UInv'
<1>1. metrics' \in [unwraps : Nat, tamper : Nat]
  BY DEF OpenFailed, UInv, UnwrapTypeOK
<1>2. QED
  BY <1>1, FinishStep DEF OpenFailed

(* and the response to the read, intact or garbled.                        *)
LEMMA RespondStep ==
  ASSUME UInv, NEW r \in Requests, Respond(r)
  PROVE  UInv'
<1>1. metrics' \in [unwraps : Nat, tamper : Nat]
  BY DEF Respond, UInv, UnwrapTypeOK
<1>2. CASE Readable(r)
  BY <1>1, <1>2, FinishStep DEF Respond
<1>3. CASE ~Readable(r)
  BY <1>1, <1>3, FinishStep DEF Respond
<1>4. QED
  BY <1>2, <1>3

----------------------------------------------------------------------------
(* The invariant is inductive.                                             *)
LEMMA NextUInv == UInv /\ [UnwrapNext]_vars => UInv'
<1> SUFFICES ASSUME UInv, [UnwrapNext]_vars PROVE UInv'
  OBVIOUS
<1>1. IInv /\ request \in [Requests -> {Idle} \cup Holding \cup Finished]
  BY DEF UInv, UnwrapTypeOK
<1>2. ASSUME NEW id \in Ids, Wrap(id) PROVE UInv'
  BY <1>2, WrapStep
<1>3. ASSUME NEW id \in Ids, HandlePeek(id) PROVE UInv'
  BY <1>1, <1>3, PeekWipes, PeekEffect, PeekStep, RemovalStep DEF HandlePeek
<1>4. ASSUME NEW id \in Ids, HandleRevoke(id) PROVE UInv'
  BY <1>1, <1>4, RevokeWipes, RevokeEffect, RevokeStep, RemovalStep DEF HandleRevoke
<1>5. ASSUME NEW r \in Requests, HandleUnwrap(r) PROVE UInv'
  BY <1>5, TakeSharedStep, TakeClonedStep, TakeMissedStep,
     OpenPassedStep, OpenFailedStep, RespondStep DEF HandleUnwrap
<1>6. CASE Janitor
  BY <1>1, <1>6, JanitorWipes, PurgeEffect, PurgeStep, RemovalStep DEF Janitor
<1>7. CASE Pass
  <2>1. IInv' /\ UNCHANGED <<entries, history, array, request, metrics>>
    BY <1>1, <1>7, TickStep DEF Pass, Tick, unwrapVars
  <2>2. /\ \A id \in Ids : Forward(id)
        /\ UnwrapTypeOK' /\ OnlyLiveSealed'
    BY <2>1 DEF Forward, UInv, UnwrapTypeOK, IInv, OnlyLiveSealed
  <2>3. QED
    BY <2>1, <2>2, Step
<1>8. CASE UNCHANGED vars
  <2>1. IInv' /\ UNCHANGED <<entries, history, array, request, metrics>>
    BY <1>1, <1>8, NextIInv DEF vars, storeVars, unwrapVars
  <2>2. /\ \A id \in Ids : Forward(id)
        /\ UnwrapTypeOK' /\ OnlyLiveSealed'
    BY <2>1 DEF Forward, UInv, UnwrapTypeOK, IInv, OnlyLiveSealed
  <2>3. QED
    BY <2>1, <2>2, Step
<1>9. QED
  BY <1>2, <1>3, <1>4, <1>5, <1>6, <1>7, <1>8 DEF UnwrapNext

(* The inductive invariant holds of every behaviour of the handlers.        *)
THEOREM UnwrapInvariance == UnwrapSpec => []UInv
BY InitUInv, NextUInv, PTL DEF UnwrapSpec

(* The state of the handlers is always well formed.                        *)
THEOREM UnwrapTypeCorrect == UnwrapSpec => []UnwrapTypeOK
<1>1. UInv => UnwrapTypeOK
  BY DEF UInv
<1>2. QED
  BY <1>1, UnwrapInvariance, PTL

(* Exactly the secrets in the table have a ciphertext in the store's memory.*)
THEOREM CiphertextsWiped == UnwrapSpec => []OnlyLiveSealed
<1>1. UInv => OnlyLiveSealed
  BY DEF UInv
<1>2. QED
  BY <1>1, UnwrapInvariance, PTL

(* Whatever wipes its array in the meantime, the read that burnt a secret,  *)
(* and so every read of a one-read secret, is answered with the secret.     *)
THEOREM LastReadIsServed == UnwrapSpec => []LastReadDelivers
<1>1. UInv => LastReadDelivers
  BY DEF UInv, ReadSound, LastReadDelivers
<1>2. QED
  BY <1>1, UnwrapInvariance, PTL

(* The tamper alarm is never raised over a secret still in the table.       *)
THEOREM NoFalseAlarm == UnwrapSpec => []AlarmOnlyWhenOver
<1>1. UInv => AlarmOnlyWhenOver
  BY DEF UInv, ReadSound, AlarmOnlyWhenOver
<1>2. QED
  BY <1>1, UnwrapInvariance, PTL

(* Under the handlers the store behaves as it does alone.                  *)
THEOREM UnwrapIsStore == UnwrapSpec => Spec
<1>1. UnwrapInit => Init
  BY DEF UnwrapInit
<1>2. [UnwrapNext]_vars => [Next]_storeVars
  BY DEF UnwrapNext, vars, Wrap, HandlePeek, HandleRevoke, HandleUnwrap, TakeShared,
         TakeCloned, TakeMissed, OpenPassed, OpenFailed, Respond, Janitor, Pass,
         Next, Take, Unfound, Miss, Peek, Revoke
<1>3. QED
  BY <1>1, <1>2, PTL DEF UnwrapSpec, Spec

(* No step of the store turns a life back: a secret that is over stays over *)
(* as it ended, whatever is asked of it later.                              *)
THEOREM LivesGoForward == Spec => [][\A id \in Ids : Forward(id)]_storeVars
<1>1. IInv /\ [Next]_storeVars => [\A id \in Ids : Forward(id)]_storeVars
  <2> SUFFICES ASSUME IInv, [Next]_storeVars PROVE \A id \in Ids : Forward(id)
    OBVIOUS
  <2>1. ASSUME NEW id \in Ids, Put(id) \/ Take(id) \/ Peek(id) \/ Revoke(id)
        PROVE  \A j \in Ids : Forward(j)
    BY <2>1, PutEffect, TakeOneEffect, TakeLastEffect, MissEffect, PeekEffect,
       RevokeEffect DEF Take
  <2>2. CASE Purge
    BY <2>2, PurgeEffect
  <2>3. CASE Tick \/ UNCHANGED storeVars
    BY <2>3 DEF Tick, storeVars, Forward
  <2>4. QED
    BY <2>1, <2>2, <2>3 DEF Next
<1>2. QED
  BY <1>1, Invariance, PTL DEF Spec
----------------------------------------------------------------------------
(* Every granted read is accounted for.  The inductive invariant adds that  *)
(* the granted reads are finitely many, so that one more counts as one more.*)
RInv == ReadsAccounted /\ IsFiniteSet(ReadsGranted)

(* A step grants no read of a secret: as many were taken as before, and of  *)
(* one that it issues none.                                                *)
Steady(id) ==
  /\ history[id] # Absent => history'[id] # Absent /\ history'[id].taken = history[id].taken
  /\ history[id] = Absent /\ history'[id] # Absent => history'[id].taken = 0

(* A life that ends keeps the reads that were taken.                       *)
LEMMA EndedSteady ==
  ASSUME IInv, NEW id \in Ids, entries[id] # Absent, NEW fate \in Reasons,
         NEW now \in Readings,
         history' = [history EXCEPT ![id] = Ended(history[id], fate, now, TableFull)]
  PROVE  \A j \in Ids : Steady(j)
<1>1. history[id] \in Life
  BY DEF IInv, TypeOK, Sound
<1>2. PICK life \in Life : life = history[id]
  BY <1>1
<1>3. PICK dropped \in BOOLEAN, time \in Nat : dropped = TableFull /\ time = now
  BY ReadingsType, FullType DEF IInv
<1>4. PICK end \in Life : end = Ended(life, fate, time, dropped) /\ end.taken = life.taken
  <2>1. /\ Ended(life, fate, time, dropped) \in Life
        /\ Ended(life, fate, time, dropped)
             = [total |-> life.total, taken |-> life.taken, deadline |-> life.deadline,
                fate |-> fate, died |-> time, dropped |-> dropped]
    BY EndedLife
  <2>2. Ended(life, fate, time, dropped).taken = life.taken
    BY <2>1
  <2>3. QED
    BY <2>1, <2>2
<1>5. history' = [history EXCEPT ![id] = end]
  BY <1>2, <1>3, <1>4
<1>6. QED
  BY <1>2, <1>4, <1>5, AbsentAssumption DEF Steady, IInv, TypeOK

(* A denied call grants no read,                                           *)
LEMMA MissSteady ==
  ASSUME IInv, NEW op, NEW id \in Ids, Miss(op, id)
  PROVE  \A j \in Ids : Steady(j)
<1>1. CASE ExpireLazily(op, id)
  <2>1. entries[id] # Absent
    BY <1>1 DEF ExpireLazily, Expired
  <2>2. PICK now \in Readings :
          history' = [history EXCEPT ![id] = Ended(history[id], "expired", now, TableFull)]
    BY <1>1 DEF ExpireLazily
  <2>3. QED
    BY <2>1, <2>2, EndedSteady DEF Reasons
<1>2. CASE UNCHANGED history
  BY <1>2 DEF Steady
<1>3. QED
  BY <1>1, <1>2 DEF Miss, AnswerGone, ForgetTomb, NeverSeen

(* nor does a peek,                                                        *)
LEMMA PeekSteady ==
  ASSUME IInv, NEW id \in Ids, Peek(id)
  PROVE  \A j \in Ids : Steady(j)
<1>1. CASE UNCHANGED history
  BY <1>1 DEF Steady
<1>2. QED
  BY <1>1, MissSteady DEF Peek, PeekOk

(* nor a revocation,                                                       *)
LEMMA RevokeSteady ==
  ASSUME IInv, NEW id \in Ids, Revoke(id)
  PROVE  \A j \in Ids : Steady(j)
<1>1. CASE RevokeOk(id)
  <2>1. entries[id] # Absent
    BY <1>1 DEF RevokeOk, Live
  <2>2. PICK now \in Readings :
          history' = [history EXCEPT ![id] = Ended(history[id], "revoked", now, TableFull)]
    BY <1>1 DEF RevokeOk
  <2>3. QED
    BY <2>1, <2>2, EndedSteady DEF Reasons
<1>2. QED
  BY <1>1, MissSteady DEF Revoke

(* nor the janitor,                                                        *)
LEMMA PurgeSteady == IInv /\ Purge => \A j \in Ids : Steady(j)
<1> SUFFICES ASSUME IInv, Purge, NEW j \in Ids PROVE Steady(j)
  OBVIOUS
<1>1. CASE Expired(j)
  <2>1. history[j] \in Life /\ "expired" \in Reasons
    BY <1>1 DEF Expired, IInv, TypeOK, Sound, Reasons
  <2>2. PICK time \in Nat, dropped \in BOOLEAN :
          history'[j] = Ended(history[j], "expired", time, dropped)
    BY <1>1, PurgeEnds
  <2>3. /\ history'[j] \in Life
        /\ history'[j] = [total |-> history[j].total, taken |-> history[j].taken,
                          deadline |-> history[j].deadline, fate |-> "expired",
                          died |-> time, dropped |-> dropped]
    BY <2>1, <2>2, EndedLife
  <2>4. history'[j].taken = history[j].taken
    BY <2>3
  <2>5. QED
    BY <2>1, <2>3, <2>4, AbsentAssumption DEF Steady
<1>2. CASE ~Expired(j)
  BY <1>2, PurgeEnds DEF Steady
<1>3. QED
  BY <1>1, <1>2

(* and a secret that is stored has all its reads left.                     *)
LEMMA PutSteady ==
  ASSUME IInv, NEW id \in Ids, Put(id)
  PROVE  \A j \in Ids : Steady(j)
<1>1. CASE PutFull(id)
  BY <1>1 DEF PutFull, Steady
<1>2. CASE PutOk(id)
  BY <1>2 DEF PutOk, Steady, IInv, TypeOK
<1>3. QED
  BY <1>1, <1>2 DEF Put

(* A granted read is one more of its secret's.                             *)
LEMMA TakeGrants ==
  ASSUME IInv, NEW id \in Ids, TakeOne(id) \/ TakeLast(id)
  PROVE  /\ history[id] \in Life /\ history'[id] # Absent
         /\ history'[id].taken = history[id].taken + 1
         /\ \A j \in Ids \ {id} : Steady(j)
<1>1. entries[id] # Absent /\ history[id] \in Life
  BY DEF TakeOne, TakeLast, Live, IInv, TypeOK, Sound
<1>2. PICK life \in Life : life = history[id]
  BY <1>1
<1>3. PICK next \in Life : next = Granted(life) /\ next.taken = life.taken + 1
  <2>1. Granted(life) \in Life /\ Granted(life).taken = life.taken + 1
    BY DEF Granted, Life
  <2>2. QED
    BY <2>1
<1>4. PICK end \in Life : history' = [history EXCEPT ![id] = end] /\ end.taken = next.taken
  <2>1. CASE TakeOne(id)
    BY <1>2, <1>3, <2>1 DEF TakeOne
  <2>2. CASE TakeLast(id)
    <3>1. PICK now \in Readings :
            history' = [history EXCEPT ![id] =
              Ended(Granted(history[id]), "consumed", now, TableFull)]
      BY <2>2 DEF TakeLast
    <3>2. PICK dropped \in BOOLEAN, time \in Nat : dropped = TableFull /\ time = now
      BY ReadingsType, FullType DEF IInv
    <3>3. /\ Ended(next, "consumed", time, dropped) \in Life
          /\ Ended(next, "consumed", time, dropped)
               = [total |-> next.total, taken |-> next.taken, deadline |-> next.deadline,
                  fate |-> "consumed", died |-> time, dropped |-> dropped]
      BY EndedLife DEF Reasons
    <3>4. Ended(next, "consumed", time, dropped).taken = next.taken
      BY <3>3
    <3>5. history' = [history EXCEPT ![id] = Ended(next, "consumed", time, dropped)]
      BY <1>2, <1>3, <3>1, <3>2
    <3>6. QED
      BY <3>3, <3>4, <3>5
  <2>3. QED
    BY <2>1, <2>2
<1>5. history'[id] = end /\ \A j \in Ids \ {id} : history'[j] = history[j]
  BY <1>4 DEF IInv, TypeOK
<1>6. QED
  BY <1>2, <1>3, <1>4, <1>5, AbsentAssumption DEF Steady

----------------------------------------------------------------------------
(* What is counted is finite.                                              *)
LEMMA ReadingFinite == IsFiniteSet(Reading) /\ Cardinality(Reading) \in Nat
<1>1. Reading \subseteq Requests
  BY DEF Reading
<1>2. QED
  BY <1>1, RequestsAssumption, FS_Subset, FS_CardinalityType

(* Steps that grant nothing leave the granted reads alone.                 *)
LEMMA GrantedStays ==
  ASSUME \A id \in Ids : Steady(id)
  PROVE  ReadsGranted' = ReadsGranted
<1>1. ASSUME NEW id \in Ids, history[id] = Absent, history'[id] # Absent
      PROVE  1..history'[id].taken = {}
  BY <1>1 DEF Steady
<1>2. ASSUME NEW x \in ReadsGranted' PROVE x \in ReadsGranted
  <2>1. PICK id \in Ids : history'[id] # Absent /\ x \in {id} \X (1..history'[id].taken)
    BY <1>2 DEF ReadsGranted
  <2>2. history[id] # Absent /\ history'[id].taken = history[id].taken
    BY <1>1, <2>1 DEF Steady
  <2>3. QED
    BY <2>1, <2>2 DEF ReadsGranted
<1>3. ASSUME NEW x \in ReadsGranted PROVE x \in ReadsGranted'
  BY <1>3 DEF ReadsGranted, Steady
<1>4. QED
  BY <1>2, <1>3

(* A step that grants nothing and lets no handler begin or end a read.     *)
LEMMA SteadyStep ==
  ASSUME RInv, \A id \in Ids : Steady(id), Reading' = Reading, UNCHANGED metrics
  PROVE  RInv'
BY GrantedStays DEF RInv, ReadsAccounted

(* A granted read is one more, and one more handler holds it.              *)
LEMMA TakeAccounted ==
  ASSUME UInv, RInv, NEW r \in Requests, NEW id \in Ids, Free(r), TakeOne(id) \/ TakeLast(id),
         NEW private \in BOOLEAN, UNCHANGED metrics,
         request' = [request EXCEPT ![r] = [pc |-> "open", id |-> id, private |-> private]]
  PROVE  RInv'
<1>1. /\ history[id] \in Life /\ history'[id] # Absent
      /\ history'[id].taken = history[id].taken + 1
      /\ \A j \in Ids \ {id} : Steady(j)
  BY TakeGrants DEF UInv
<1>2. PICK n \in Nat : n = history[id].taken
  BY <1>1 DEF Life
<1>3. history[id] # Absent
  BY <1>1, AbsentAssumption
<1>4. <<id, n + 1>> \notin ReadsGranted
  <2>1. n + 1 \notin 1..n
    OBVIOUS
  <2>2. QED
    BY <1>2, <2>1 DEF ReadsGranted
<1>5. ReadsGranted' = ReadsGranted \cup {<<id, n + 1>>}
  <2>1. 1..(n + 1) = 1..n \cup {n + 1}
    OBVIOUS
  <2>2. ASSUME NEW j \in Ids \ {id}, history[j] = Absent, history'[j] # Absent
        PROVE  1..history'[j].taken = {}
    BY <1>1, <2>2 DEF Steady
  <2>3. ASSUME NEW x \in ReadsGranted' PROVE x \in ReadsGranted \cup {<<id, n + 1>>}
    <3>1. PICK j \in Ids : history'[j] # Absent /\ x \in {j} \X (1..history'[j].taken)
      BY <2>3 DEF ReadsGranted
    <3>2. CASE j = id
      BY <1>1, <1>2, <1>3, <2>1, <3>1, <3>2 DEF ReadsGranted
    <3>3. CASE j # id
      <4>1. history[j] # Absent /\ history'[j].taken = history[j].taken
        BY <1>1, <2>2, <3>1, <3>3 DEF Steady
      <4>2. QED
        BY <3>1, <4>1 DEF ReadsGranted
    <3>4. QED
      BY <3>2, <3>3
  <2>4. ASSUME NEW x \in ReadsGranted PROVE x \in ReadsGranted'
    <3>1. PICK j \in Ids : history[j] # Absent /\ x \in {j} \X (1..history[j].taken)
      BY <2>4 DEF ReadsGranted
    <3>2. CASE j = id
      <4>1. x \in {id} \X (1..(n + 1))
        BY <1>2, <2>1, <3>1, <3>2
      <4>2. QED
        BY <1>1, <1>2, <4>1 DEF ReadsGranted
    <3>3. CASE j # id
      <4>1. history'[j] # Absent /\ history'[j].taken = history[j].taken
        BY <1>1, <3>1, <3>3 DEF Steady
      <4>2. QED
        BY <3>1, <4>1 DEF ReadsGranted
    <3>4. QED
      BY <3>2, <3>3
  <2>5. <<id, n + 1>> \in ReadsGranted'
    <3>1. n + 1 \in 1..history'[id].taken
      BY <1>1, <1>2, <2>1
    <3>2. QED
      BY <1>1, <3>1 DEF ReadsGranted
  <2>6. QED
    BY <2>3, <2>4, <2>5
<1>6. Reading' = Reading \cup {r} /\ r \notin Reading
  BY DEF Reading, Free, UInv, UnwrapTypeOK
<1>7. Cardinality(Reading') = Cardinality(Reading) + 1
  BY <1>6, ReadingFinite, FS_AddElement
<1>8. /\ IsFiniteSet(ReadsGranted')
      /\ Cardinality(ReadsGranted') = Cardinality(ReadsGranted) + 1
  BY <1>4, <1>5, FS_AddElement DEF RInv
<1>9. metrics.unwraps \in Nat /\ metrics.tamper \in Nat
  BY DEF UInv, UnwrapTypeOK
<1>10. QED
  BY <1>7, <1>8, <1>9, ReadingFinite DEF RInv, ReadsAccounted

(* An answered read leaves its handler and enters one of the counters.      *)
LEMMA AnswerAccounted ==
  ASSUME UInv, RInv, NEW r \in Requests, request[r].pc \in {"open", "decrypt"},
         UNCHANGED storeVars, NEW result, Finish(r, result),
         metrics'.unwraps + metrics'.tamper = metrics.unwraps + metrics.tamper + 1
  PROVE  RInv'
<1>1. ReadsGranted' = ReadsGranted
  BY DEF ReadsGranted, storeVars
<1>2. Reading' = Reading \ {r} /\ r \in Reading
  BY DEF Reading, Finish, UInv, UnwrapTypeOK
<1>3. Cardinality(Reading') = Cardinality(Reading) - 1
  <2>1. Cardinality(Reading \ {r}) =
          IF r \in Reading THEN Cardinality(Reading) - 1 ELSE Cardinality(Reading)
    BY ReadingFinite, FS_RemoveElement
  <2>2. QED
    BY <1>2, <2>1
<1>4. metrics.unwraps \in Nat /\ metrics.tamper \in Nat
  BY DEF UInv, UnwrapTypeOK
<1>5. QED
  BY <1>1, <1>3, <1>4, ReadingFinite DEF RInv, ReadsAccounted

(* No step of a handler loses a read.                                      *)
LEMMA HandleUnwrapAccounted ==
  ASSUME UInv, RInv, NEW r \in Requests, HandleUnwrap(r)
  PROVE  RInv'
<1>1. /\ request \in [Requests -> {Idle} \cup Holding \cup Finished]
      /\ metrics \in [unwraps : Nat, tamper : Nat] /\ IInv
  BY DEF UInv, UnwrapTypeOK
<1>2. ASSUME NEW id \in Ids, TakeShared(r, id) \/ TakeCloned(r, id) PROVE RInv'
  BY <1>2, TakeAccounted DEF TakeShared, TakeCloned
<1>3. ASSUME NEW id \in Ids, TakeMissed(r, id) PROVE RInv'
  <2>1. Miss("take", id) /\ UNCHANGED metrics
    BY <1>3, UnfoundWipes DEF TakeMissed
  <2>2. Reading' = Reading
    BY <1>1, <1>3 DEF TakeMissed, Reading, Free
  <2>3. QED
    BY <1>1, <2>1, <2>2, MissSteady, SteadyStep
<1>4. CASE OpenPassed(r)
  <2>1. \A id \in Ids : Steady(id)
    BY <1>4 DEF OpenPassed, storeVars, Steady
  <2>2. Reading' = Reading
    <3>1. request[r] \in Holding
      BY <1>4, HolderKnows DEF OpenPassed
    <3>2. request'[r].pc = "decrypt" /\ \A q \in Requests \ {r} : request'[q] = request[q]
      BY <1>1, <1>4, <3>1 DEF OpenPassed, Holding
    <3>3. QED
      BY <1>4, <3>2 DEF OpenPassed, Reading
  <2>3. QED
    BY <1>4, <2>1, <2>2, SteadyStep DEF OpenPassed
<1>5. CASE OpenFailed(r)
  <2>1. metrics'.unwraps + metrics'.tamper = metrics.unwraps + metrics.tamper + 1
    BY <1>1, <1>5 DEF OpenFailed
  <2>2. QED
    BY <1>5, <2>1, AnswerAccounted DEF OpenFailed
<1>6. CASE Respond(r)
  <2>1. metrics'.unwraps + metrics'.tamper = metrics.unwraps + metrics.tamper + 1
    BY <1>1, <1>6 DEF Respond
  <2>2. PICK result : Finish(r, result)
    BY <1>6 DEF Respond
  <2>3. QED
    BY <1>6, <2>1, <2>2, AnswerAccounted DEF Respond
<1>7. QED
  BY <1>2, <1>3, <1>4, <1>5, <1>6 DEF HandleUnwrap

(* Every read the store granted is being opened or was counted, as an       *)
(* unwrap or as tampering.                                                 *)
THEOREM NoReadUncounted == UnwrapSpec => []ReadsAccounted
<1>1. UnwrapInit => RInv
  <2> SUFFICES ASSUME UnwrapInit PROVE RInv
    OBVIOUS
  <2>1. Reading = {} /\ ReadsGranted = {}
    BY DEF UnwrapInit, Init, Idle, Reading, ReadsGranted
  <2>2. metrics.unwraps = 0 /\ metrics.tamper = 0
    BY DEF UnwrapInit
  <2>3. QED
    BY <2>1, <2>2, FS_EmptySet DEF RInv, ReadsAccounted
<1>2. UInv /\ RInv /\ [UnwrapNext]_vars => RInv'
  <2> SUFFICES ASSUME UInv, RInv, [UnwrapNext]_vars PROVE RInv'
    OBVIOUS
  <2>1. IInv
    BY DEF UInv
  <2>2. ASSUME UNCHANGED <<request, metrics>>, \A id \in Ids : Steady(id) PROVE RInv'
    BY <2>2, SteadyStep DEF Reading
  <2>3. ASSUME NEW id \in Ids, Wrap(id) \/ HandlePeek(id) \/ HandleRevoke(id) PROVE RInv'
    BY <2>1, <2>2, <2>3, PutSteady, PeekWipes, RevokeWipes, PeekSteady, RevokeSteady
    DEF Wrap, HandlePeek, HandleRevoke
  <2>4. ASSUME NEW r \in Requests, HandleUnwrap(r) PROVE RInv'
    BY <2>4, HandleUnwrapAccounted
  <2>5. CASE Janitor
    BY <2>1, <2>2, <2>5, PurgeSteady DEF Janitor
  <2>6. CASE Pass \/ UNCHANGED vars
    BY <2>2, <2>6 DEF Pass, Tick, vars, storeVars, unwrapVars, Steady
  <2>7. QED
    BY <2>3, <2>4, <2>5, <2>6 DEF UnwrapNext
<1>3. RInv => ReadsAccounted
  BY DEF RInv
<1>4. QED
  BY <1>1, <1>2, <1>3, UnwrapInvariance, PTL DEF UnwrapSpec
=============================================================================
