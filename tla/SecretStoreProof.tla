-------------------------- MODULE SecretStoreProof --------------------------
(***************************************************************************)
(* Proofs about SecretStore, for every set of IDs, every cap, floor,        *)
(* lifetime and number of reads, and any length of time.                    *)
(***************************************************************************)
EXTENDS SecretStore, FiniteSetTheorems, TLAPS

(* The inductive invariant: the life of one secret, as its history and the  *)
(* two tables tell it.  Nothing is on record before the secret is issued;   *)
(* the entry knows the deadline it was issued with, and expires no earlier. *)
Sound(id) ==
  /\ history[id] = Absent => entries[id] = Absent /\ tombs[id] = Absent
  /\ history[id] # Absent =>
       /\ history[id].taken <= history[id].total
       /\ entries[id] # Absent <=> history[id].fate = "live"
       /\ entries[id] # Absent => /\ entries[id].remaining > 0
                                  /\ entries[id].remaining + history[id].taken
                                       = history[id].total
                                  /\ entries[id].expiresAt = history[id].deadline
       /\ history[id].fate = "consumed" <=> history[id].taken = history[id].total
       /\ history[id].fate = "expired" => clock >= history[id].deadline
  /\ tombs[id] # Absent =>
       /\ entries[id] = Absent
       /\ tombs[id].reason = history[id].fate
       /\ tombs[id].at = IF history[id].fate = "expired" THEN history[id].deadline
                                                         ELSE history[id].died
       /\ tombs[id].expiresAt = Retention(history[id])
  /\ (/\ history[id] # Absent
      /\ history[id].fate # "live"
      /\ ~history[id].dropped
      /\ clock < Retention(history[id])) => tombs[id] # Absent

IInv == TypeOK /\ \A id \in Ids : Sound(id)

(* A tombstone that tombLocked makes is one.                                *)
LEMMA NewTombType ==
  ASSUME NEW reason \in Reasons, NEW deadline \in Nat, NEW now \in Nat
  PROVE  NewTomb(reason, deadline, now) \in Tombstone
BY TimeAssumption, SMT DEF NewTomb, Tombstone, Max2, Reasons

(* The tables are finite, so that counting them makes sense.               *)
LEMMA CountType ==
  ASSUME NEW S \in SUBSET Ids
  PROVE  IsFiniteSet(S) /\ Cardinality(S) \in Nat
BY IdsAssumption, FS_Subset, FS_CardinalityType

(* Whether the table of tombstones is full is a question with an answer.   *)
LEMMA FullType == TableFull \in BOOLEAN
<1>1. TombIds \in SUBSET Ids
  BY DEF TombIds
<1>2. Cardinality(TombIds) \in Nat
  BY <1>1, CountType
<1>3. QED
  BY <1>2, LimitsAssumption DEF TableFull

(* The empty store satisfies the inductive invariant.                      *)
LEMMA InitIInv == Init => IInv
BY SMT DEF Init, IInv, TypeOK, Sound

(* What an ended life still tells.                                         *)
LEMMA EndedLife ==
  ASSUME NEW life \in Life, NEW fate \in Reasons, NEW now \in Nat, NEW dropped \in BOOLEAN
  PROVE  /\ Ended(life, fate, now, dropped) \in Life
         /\ Ended(life, fate, now, dropped)
              = [total |-> life.total, taken |-> life.taken, deadline |-> life.deadline,
                 fate |-> fate, died |-> now, dropped |-> dropped]
<1> DEFINE e == Ended(life, fate, now, dropped)
<1>1. e \in Life
  BY DEF Ended, Life
<1>2. /\ e.total = life.total /\ e.taken = life.taken /\ e.deadline = life.deadline
      /\ e.fate = fate /\ e.died = now /\ e.dropped = dropped
  BY DEF Ended, Life
<1> HIDE DEF e
<1>3. e = [total |-> e.total, taken |-> e.taken, deadline |-> e.deadline,
           fate |-> e.fate, died |-> e.died, dropped |-> e.dropped]
  BY <1>1 DEF Life
<1>4. QED
  BY <1>1, <1>2, <1>3 DEF e

(* The second clock reading is never earlier than the first.               *)
LEMMA ReadingsType ==
  ASSUME TypeOK, NEW now \in Readings
  PROVE  now \in Nat /\ now >= clock
BY SMT DEF TypeOK, Readings

(* What holds of a life at a time goes on holding, or stops, as time passes.*)
LEMMA TimePasses ==
  ASSUME TypeOK, NEW j \in Ids, history[j] # Absent, NEW now \in Nat, clock <= now
  PROVE  /\ now < Retention(history[j]) => clock < Retention(history[j])
         /\ clock >= history[j].deadline => now >= history[j].deadline
<1>1. history[j] \in Life /\ clock \in Nat
  BY DEF TypeOK
<1>2. Retention(history[j]) \in Int
  BY <1>1, TimeAssumption DEF Retention, Max2, Life
<1>3. QED
  BY <1>1, <1>2 DEF Life

----------------------------------------------------------------------------
(* The end of an entry, shared by lazy expiry, the last read and revocation.*)
LEMMA EndStep ==
  ASSUME IInv, NEW id \in Ids, NEW now \in Readings, NEW fate \in Reasons,
         NEW taken \in Nat, entries[id] # Absent,
         taken = IF fate = "consumed" THEN history[id].total ELSE history[id].taken,
         clock' = now,
         tombs' = TombLocked(id, fate, now),
         entries' = [entries EXCEPT ![id] = Absent],
         fate = "expired" => Expired(id),
         NEW last, last = [total |-> history[id].total, taken |-> taken,
                           deadline |-> history[id].deadline, fate |-> fate,
                           died |-> now, dropped |-> TableFull],
         history' = [history EXCEPT ![id] = last],
         reply' \in Reply \cup {Absent}
  PROVE  IInv'
PROOF
<1>1. history[id] \in Life /\ entries[id] \in Entry /\ clock \in Nat /\ now \in Nat /\ clock <= now
  BY SMT DEF IInv, TypeOK, Sound, Readings
<1>2. tombs[id] = Absent
  BY DEF IInv, Sound
<1>3. NewTomb(fate, entries[id].expiresAt, now) \in Tombstone
  BY <1>1, NewTombType DEF Entry
<1>4. history'[id] = [total |-> history[id].total, taken |-> taken,
                      deadline |-> history[id].deadline, fate |-> fate,
                      died |-> now, dropped |-> TableFull]
  BY <1>1 DEF IInv, TypeOK, Life
<1>0. history'[id] \in Life
  BY <1>1, <1>4, FullType DEF Life
<1>5. TypeOK'
  <2>1. TombLocked(id, fate, now) \in [Ids -> Tombstone \cup {Absent}]
    BY <1>3 DEF TombLocked, IInv, TypeOK
  <2>3. history' \in [Ids -> Life \cup {Absent}]
    BY <1>0 DEF IInv, TypeOK
  <2>4. QED
    BY <1>1, <2>1, <2>3 DEF IInv, TypeOK
<1>6. ASSUME NEW j \in Ids PROVE Sound(j)'
  <2>1. CASE j = id
    <3>1. Sound(id)
      BY DEF IInv
    <3>2. entries'[id] = Absent
      BY DEF IInv, TypeOK
    <3>3. tombs'[id] = IF TableFull THEN Absent
                       ELSE NewTomb(fate, history[id].deadline, now)
      BY <1>2, <3>1 DEF TombLocked, TableFull, IInv, TypeOK, Sound
    <3>4. history'[id] # Absent
      BY <1>0, AbsentAssumption
    <3>5. tombs'[id] # Absent => tombs'[id] = NewTomb(fate, history[id].deadline, now)
      BY <3>3
    <3>6. ~TableFull => tombs'[id] # Absent
      BY <1>1, <1>3, <3>1, <3>3, AbsentAssumption DEF Sound
    <3>7. /\ history'[id].taken <= history'[id].total
          /\ history'[id].fate # "live"
          /\ history'[id].fate = "consumed" <=> history'[id].taken = history'[id].total
      BY <1>1, <1>4, <3>1 DEF Sound, Life, Reasons, Entry
    <3>8. NewTomb(fate, history[id].deadline, now)
            = [reason |-> history'[id].fate,
               at |-> IF history'[id].fate = "expired" THEN history'[id].deadline
                                                       ELSE history'[id].died,
               expiresAt |-> Retention(history'[id])]
      BY <1>4 DEF NewTomb, Retention
    <3>9. history'[id].fate = "expired" => clock' >= history'[id].deadline
      BY <1>1, <1>4, <3>1 DEF Sound, Expired, Entry, Life
    <3>10. QED
      BY <2>1, <1>4, <3>2, <3>4, <3>5, <3>6, <3>7, <3>8, <3>9 DEF Sound
  <2>2. CASE j # id
    <3>1. Sound(j)
      BY DEF IInv
    <3>2. entries'[j] = entries[j] /\ tombs'[j] = tombs[j] /\ history'[j] = history[j]
      BY <2>2 DEF TombLocked, IInv, TypeOK
    <3>3. history[j] # Absent =>
            /\ clock' < Retention(history[j]) => clock < Retention(history[j])
            /\ clock >= history[j].deadline => clock' >= history[j].deadline
      BY <1>1, TimePasses DEF IInv
    <3>4. QED
      BY <3>1, <3>2, <3>3 DEF Sound, Retention
  <2>3. QED
    BY <2>1, <2>2
<1>7. QED
  BY <1>5, <1>6 DEF IInv

(* A step that leaves the entries and the history alone and at most deletes *)
(* tombstones past their retention, or lets time pass.                      *)
LEMMA QuietStep ==
  ASSUME IInv, clock' \in Nat, clock' >= clock,
         reply' \in Reply \cup {Absent},
         UNCHANGED <<entries, history>>,
         tombs' \in [Ids -> Tombstone \cup {Absent}],
         \A j \in Ids : \/ tombs'[j] = tombs[j]
                        \/ tombs'[j] = Absent /\ ~TombStanding(j)
  PROVE  IInv'
PROOF
<1>1. TypeOK'
  BY DEF IInv, TypeOK
<1>2. ASSUME NEW j \in Ids PROVE Sound(j)'
  <2>1. Sound(j) /\ clock \in Nat
    BY DEF IInv, TypeOK
  <2>4. history[j] # Absent =>
          /\ clock' < Retention(history[j]) => clock < Retention(history[j])
          /\ clock >= history[j].deadline => clock' >= history[j].deadline
    BY <2>1, TimePasses DEF IInv
  <2>5. CASE tombs'[j] = tombs[j]
    BY <2>1, <2>4, <2>5 DEF Sound, Retention
  <2>6. CASE tombs'[j] = Absent /\ ~TombStanding(j)
    <3>1. tombs[j] # Absent => ~(clock < Retention(history[j]))
      BY <2>1, <2>6 DEF Sound, TombStanding
    <3>2. QED
      BY <2>1, <2>4, <2>6, <3>1 DEF Sound, Retention
  <2>7. QED
    BY <2>5, <2>6
<1>3. QED
  BY <1>1, <1>2 DEF IInv

(* The replies that the methods give are well formed.                      *)
LEMMA AnswerType ==
  ASSUME NEW op \in Ops, NEW id \in Ids, NEW outcome \in Outcomes, Answer(op, id, outcome)
  PROVE  reply' \in Reply \cup {Absent}
BY DEF Answer, Reply

(* Put makes a well-formed entry with all its reads, for a new ID.         *)
LEMMA PutStep ==
  ASSUME IInv, NEW id \in Ids, Put(id)
  PROVE  IInv'
PROOF
<1>1. CASE PutFull(id)
  <2>1. reply' \in Reply \cup {Absent}
    BY <1>1, AnswerType DEF PutFull, Ops, Outcomes
  <2>2. QED
    BY <1>1, <2>1, QuietStep DEF PutFull, IInv, TypeOK
<1>2. CASE PutOk(id)
  <2>1. reply' \in Reply \cup {Absent}
    BY <1>2, AnswerType DEF PutOk, Ops, Outcomes
  <2>2. PICK ttl \in TTLs, reads \in ReadCounts :
          /\ entries' = [entries EXCEPT ![id] =
               [remaining |-> reads, total |-> reads, expiresAt |-> clock + ttl]]
          /\ history' = [history EXCEPT ![id] =
               [total |-> reads, taken |-> 0, deadline |-> clock + ttl,
                fate |-> "live", died |-> 0, dropped |-> FALSE]]
    BY <1>2 DEF PutOk
  <2>3. clock \in Nat /\ ttl \in Nat /\ reads \in Nat /\ reads > 0
    BY TimeAssumption, ReadsAssumption DEF IInv, TypeOK
  <2>4. /\ entries'[id] \in Entry /\ history'[id] \in Life
        /\ entries'[id].remaining = reads /\ entries'[id].expiresAt = clock + ttl
        /\ history'[id].total = reads /\ history'[id].taken = 0
        /\ history'[id].deadline = clock + ttl /\ history'[id].fate = "live"
    BY <2>2, <2>3 DEF Entry, Life, IInv, TypeOK
  <2>5. UNCHANGED <<clock, tombs>> /\ history[id] = Absent
    BY <1>2 DEF PutOk
  <2>6. TypeOK'
    BY <2>1, <2>2, <2>4, <2>5 DEF IInv, TypeOK
  <2>7. ASSUME NEW j \in Ids PROVE Sound(j)'
    <3>1. Sound(j)
      BY DEF IInv
    <3>2. CASE j = id
      BY <2>3, <2>4, <2>5, <3>1, <3>2, AbsentAssumption DEF Sound
    <3>3. CASE j # id
      <4>1. entries'[j] = entries[j] /\ tombs'[j] = tombs[j] /\ history'[j] = history[j]
        BY <2>2, <2>5, <3>3 DEF IInv, TypeOK
      <4>2. QED
        BY <2>5, <3>1, <4>1 DEF Sound, Retention
    <3>4. QED
      BY <3>2, <3>3
  <2>8. QED
    BY <2>6, <2>7 DEF IInv
<1>3. QED
  BY <1>1, <1>2 DEF Put

(* Lazy expiry ends a life at its deadline, never before.                  *)
LEMMA ExpireStep ==
  ASSUME IInv, NEW op \in Ops, NEW id \in Ids, ExpireLazily(op, id)
  PROVE  IInv'
PROOF
<1>1. PICK now \in Readings :
        /\ clock' = now
        /\ tombs' = TombLocked(id, "expired", now)
        /\ history' = [history EXCEPT ![id] = Ended(@, "expired", now, TableFull)]
  BY DEF ExpireLazily
<1>2. /\ Expired(id) /\ entries[id] # Absent
      /\ entries' = [entries EXCEPT ![id] = Absent]
  BY DEF ExpireLazily, Expired
<1>3. history[id] \in Life
  BY <1>2 DEF IInv, TypeOK, Sound
<1>4. Ended(history[id], "expired", now, TableFull)
        = [total |-> history[id].total, taken |-> history[id].taken,
           deadline |-> history[id].deadline, fate |-> "expired",
           died |-> now, dropped |-> TableFull]
  BY <1>3, EndedLife, FullType, ReadingsType DEF Reasons, IInv
<1>5. tombs'[id] \in Tombstone \cup {Absent}
  <2>1. now \in Nat /\ entries[id].expiresAt \in Nat
    BY <1>2, SMT DEF IInv, TypeOK, Entry, Readings
  <2>2. NewTomb("expired", entries[id].expiresAt, now) \in Tombstone
    BY <2>1, NewTombType DEF Reasons
  <2>3. QED
    BY <1>1, <2>2 DEF TombLocked, IInv, TypeOK
<1>6. reply' \in Reply \cup {Absent}
  BY <1>5, AnswerType DEF ExpireLazily, Outcomes, Tombstone
<1>7. QED
  BY <1>1, <1>2, <1>3, <1>4, <1>6, EndStep DEF Reasons, Life

(* The four ways of finding nothing.                                       *)
LEMMA MissStep ==
  ASSUME IInv, NEW op \in Ops, NEW id \in Ids, Miss(op, id)
  PROVE  IInv'
PROOF
<1>1. CASE ExpireLazily(op, id)
  BY <1>1, ExpireStep
<1>2. CASE AnswerGone(op, id)
  <2>1. tombs[id].reason \in Outcomes
    BY <1>2 DEF AnswerGone, TombStanding, IInv, TypeOK, Tombstone, Outcomes
  <2>2. reply' \in Reply \cup {Absent}
    BY <1>2, <2>1, AnswerType DEF AnswerGone
  <2>3. QED
    BY <1>2, <2>2, QuietStep DEF AnswerGone, IInv, TypeOK
<1>3. CASE ForgetTomb(op, id)
  <2>1. reply' \in Reply \cup {Absent}
    BY <1>3, AnswerType DEF ForgetTomb, Outcomes
  <2>2. QED
    BY <1>3, <2>1, QuietStep DEF ForgetTomb, IInv, TypeOK
<1>4. CASE NeverSeen(op, id)
  <2>1. reply' \in Reply \cup {Absent}
    BY <1>4, AnswerType DEF NeverSeen, Outcomes
  <2>2. QED
    BY <1>4, <2>1, QuietStep DEF NeverSeen, IInv, TypeOK
<1>5. QED
  BY <1>1, <1>2, <1>3, <1>4 DEF Miss

(* A granted read is taken from the budget; the last one ends the entry.   *)
LEMMA TakeStep ==
  ASSUME IInv, NEW id \in Ids, Take(id)
  PROVE  IInv'
PROOF
<1>1. CASE TakeOne(id)
  <2>1. /\ entries[id] \in Entry /\ history[id] \in Life
        /\ entries[id].remaining - 1 > 0
    BY <1>1 DEF TakeOne, Live, IInv, TypeOK, Sound
  <2>2. reply' \in Reply \cup {Absent}
    BY <1>1, AnswerType DEF TakeOne, Ops, Outcomes
  <2>3. /\ entries'[id] = [entries[id] EXCEPT !.remaining = @ - 1]
        /\ history'[id] = [history[id] EXCEPT !.taken = @ + 1]
    BY <1>1 DEF TakeOne, Granted, IInv, TypeOK
  <2>4. entries'[id] \in Entry /\ history'[id] \in Life
    BY <2>1, <2>3 DEF Entry, Life
  <2>5. TypeOK'
    BY <1>1, <2>2, <2>3, <2>4 DEF TakeOne, IInv, TypeOK
  <2>6. ASSUME NEW j \in Ids PROVE Sound(j)'
    <3>1. Sound(j)
      BY DEF IInv
    <3>2. CASE j = id
      <4>1. /\ entries'[id].remaining = entries[id].remaining - 1
            /\ entries'[id].expiresAt = entries[id].expiresAt
            /\ history'[id].taken = history[id].taken + 1
            /\ history'[id].total = history[id].total
            /\ history'[id].deadline = history[id].deadline
            /\ history'[id].fate = history[id].fate
        BY <2>1, <2>3 DEF Entry, Life
      <4>2. entries[id] # Absent /\ entries'[id] # Absent /\ history'[id] # Absent
        BY <2>1, <2>4, AbsentAssumption
      <4>3. history[id].fate = "live" /\ tombs'[id] = Absent
        BY <1>1, <2>1, <3>1, <3>2, <4>2, AbsentAssumption DEF TakeOne, Sound
      <4>4. /\ entries[id].remaining + history[id].taken = history[id].total
            /\ entries[id].expiresAt = history[id].deadline
        BY <3>1, <3>2, <4>2, <2>1, AbsentAssumption DEF Sound
      <4>5. /\ entries'[id].remaining > 0
            /\ entries'[id].remaining + history'[id].taken = history'[id].total
            /\ history'[id].taken < history'[id].total
        BY <2>1, <4>1, <4>4 DEF Entry, Life
      <4>6. history'[id].taken <= history'[id].total /\ history'[id].taken # history'[id].total
        BY <2>4, <4>5 DEF Life
      <4>7. QED
        <5>1. history'[id].fate = "live" /\ history'[id].fate # "consumed"
          BY <4>1, <4>3
        <5>2. entries'[id].expiresAt = history'[id].deadline
          BY <4>1, <4>4
        <5>3. history'[id] # Absent /\ (entries'[id] # Absent <=> history'[id].fate = "live")
          BY <4>2, <5>1
        <5>4. history'[id].fate = "consumed" <=> history'[id].taken = history'[id].total
          BY <4>6, <5>1
        <5>5. QED
          BY <3>2, <4>2, <4>3, <4>5, <4>6, <5>1, <5>2, <5>3, <5>4 DEF Sound
    <3>3. CASE j # id
      <4>1. entries'[j] = entries[j] /\ history'[j] = history[j]
        BY <1>1, <3>3 DEF TakeOne, IInv, TypeOK
      <4>2. tombs'[j] = tombs[j] /\ clock' = clock
        BY <1>1 DEF TakeOne
      <4>3. QED
        BY <3>1, <4>1, <4>2 DEF Sound, Retention
    <3>4. QED
      BY <3>2, <3>3
  <2>7. QED
    BY <2>5, <2>6 DEF IInv
<1>2. CASE TakeLast(id)
  <2>1. PICK now \in Readings :
          /\ clock' = now
          /\ tombs' = TombLocked(id, "consumed", now)
          /\ history' = [history EXCEPT ![id] =
               Ended(Granted(@), "consumed", now, TableFull)]
    BY <1>2 DEF TakeLast
  <2>2. /\ entries[id] # Absent /\ entries[id] \in Entry /\ history[id] \in Life
        /\ entries[id].remaining - 1 <= 0
        /\ entries' = [entries EXCEPT ![id] = Absent]
    BY <1>2 DEF TakeLast, Live, IInv, TypeOK, Sound
  <2>3. history[id].taken + 1 = history[id].total
    BY <2>2 DEF IInv, Sound, Entry, Life
  <2>4. Ended(Granted(history[id]), "consumed", now, TableFull)
          = [total |-> history[id].total, taken |-> history[id].total,
             deadline |-> history[id].deadline, fate |-> "consumed",
             died |-> now, dropped |-> TableFull]
    <3> DEFINE h == Granted(history[id])
    <3>1. /\ h \in Life
          /\ h.total = history[id].total /\ h.taken = history[id].total
          /\ h.deadline = history[id].deadline
      BY <2>2, <2>3 DEF Life, Granted
    <3> HIDE DEF h
    <3>2. Ended(h, "consumed", now, TableFull)
            = [total |-> h.total, taken |-> h.taken, deadline |-> h.deadline,
               fate |-> "consumed", died |-> now, dropped |-> TableFull]
      BY <3>1, EndedLife, FullType, ReadingsType DEF Reasons, IInv
    <3>3. QED
      BY <3>1, <3>2 DEF h
  <2>5. reply' \in Reply \cup {Absent}
    BY <1>2, AnswerType DEF TakeLast, Ops, Outcomes
  <2>6. /\ "consumed" \in Reasons /\ history[id].total \in Nat
        /\ history' = [history EXCEPT ![id] =
             Ended(Granted(history[id]), "consumed", now, TableFull)]
    BY <2>1, <2>2 DEF Reasons, Life
  <2>7. QED
    BY <2>1, <2>2, <2>4, <2>5, <2>6, EndStep
<1>3. CASE Miss("take", id)
  BY <1>3, MissStep DEF Ops
<1>4. QED
  BY <1>1, <1>2, <1>3 DEF Take

(* Peek changes the tables only by a miss.                                 *)
LEMMA PeekStep ==
  ASSUME IInv, NEW id \in Ids, Peek(id)
  PROVE  IInv'
PROOF
<1>1. CASE PeekOk(id)
  <2>1. reply' \in Reply \cup {Absent}
    BY <1>1, AnswerType DEF PeekOk, Ops, Outcomes
  <2>2. QED
    BY <1>1, <2>1, QuietStep DEF PeekOk, IInv, TypeOK
<1>2. CASE Miss("peek", id)
  BY <1>2, MissStep DEF Ops
<1>3. QED
  BY <1>1, <1>2 DEF Peek

(* Revocation ends a live entry whose budget is not used up.               *)
LEMMA RevokeStep ==
  ASSUME IInv, NEW id \in Ids, Revoke(id)
  PROVE  IInv'
PROOF
<1>1. CASE RevokeOk(id)
  <2>1. PICK now \in Readings :
          /\ clock' = now
          /\ tombs' = TombLocked(id, "revoked", now)
          /\ history' = [history EXCEPT ![id] = Ended(@, "revoked", now, TableFull)]
    BY <1>1 DEF RevokeOk
  <2>2. /\ entries[id] # Absent /\ history[id] \in Life
        /\ entries' = [entries EXCEPT ![id] = Absent]
    BY <1>1 DEF RevokeOk, Live, IInv, TypeOK, Sound
  <2>3. Ended(history[id], "revoked", now, TableFull)
          = [total |-> history[id].total, taken |-> history[id].taken,
             deadline |-> history[id].deadline, fate |-> "revoked",
             died |-> now, dropped |-> TableFull]
    BY <2>2, EndedLife, FullType, ReadingsType DEF Reasons, IInv
  <2>4. reply' \in Reply \cup {Absent}
    BY <1>1, AnswerType DEF RevokeOk, Ops, Outcomes
  <2>5. QED
    BY <2>1, <2>2, <2>3, <2>4, EndStep DEF Reasons, Life
<1>2. CASE Miss("revoke", id)
  BY <1>2, MissStep DEF Ops
<1>3. QED
  BY <1>1, <1>2 DEF Revoke

----------------------------------------------------------------------------
(* The janitor: every expired entry ends at once.                          *)
LEMMA PurgeStep == IInv /\ Purge => IInv'
<1> SUFFICES ASSUME IInv, Purge PROVE IInv'
  OBVIOUS
<1> DEFINE dead == {id \in Ids : Expired(id)}
<1>0. PICK now \in Readings : \E noted \in SUBSET dead, at \in [dead -> clock..now] :
        /\ clock' = now
        /\ tombs' = [id \in Ids |->
             IF id \in noted THEN NewTomb("expired", entries[id].expiresAt, at[id])
             ELSE IF TombStanding(id) THEN tombs[id] ELSE Absent]
        /\ history' = [id \in Ids |->
             IF id \in dead THEN Ended(history[id], "expired", at[id], id \notin noted)
             ELSE history[id]]
  BY DEF Purge
<1>1. PICK noted \in SUBSET dead, at \in [dead -> clock..now] :
        /\ clock' = now
        /\ tombs' = [id \in Ids |->
             IF id \in noted THEN NewTomb("expired", entries[id].expiresAt, at[id])
             ELSE IF TombStanding(id) THEN tombs[id] ELSE Absent]
        /\ history' = [id \in Ids |->
             IF id \in dead THEN Ended(history[id], "expired", at[id], id \notin noted)
             ELSE history[id]]
  BY <1>0
<1>2. /\ entries' = [id \in Ids |-> IF id \in dead THEN Absent ELSE entries[id]]
      /\ reply' = Absent
  BY DEF Purge
<1>3. clock \in Nat /\ now \in Nat /\ clock <= now
  BY ReadingsType DEF IInv, TypeOK
<1>4. ASSUME NEW id \in dead
      PROVE  /\ entries[id] # Absent /\ entries[id] \in Entry /\ history[id] \in Life
             /\ history[id].fate = "live"
             /\ entries[id].expiresAt = history[id].deadline
             /\ NewTomb("expired", history[id].deadline, at[id]) \in Tombstone
             /\ Ended(history[id], "expired", at[id], id \notin noted)
                  = [total |-> history[id].total, taken |-> history[id].taken,
                     deadline |-> history[id].deadline, fate |-> "expired",
                     died |-> at[id], dropped |-> id \notin noted]
             /\ Ended(history[id], "expired", at[id], id \notin noted) \in Life
  <2>1. /\ entries[id] # Absent /\ entries[id] \in Entry /\ history[id] \in Life
        /\ history[id].fate = "live" /\ entries[id].expiresAt = history[id].deadline
    BY DEF Expired, IInv, TypeOK, Sound
  <2>0. at[id] \in clock..now /\ at[id] \in Nat
    BY <1>3
  <2>2. NewTomb("expired", history[id].deadline, at[id]) \in Tombstone
    BY <2>0, <2>1, NewTombType DEF Life, Reasons
  <2>3. "expired" \in Reasons /\ (id \notin noted) \in BOOLEAN
    BY DEF Reasons
  <2>4. /\ Ended(history[id], "expired", at[id], id \notin noted) \in Life
        /\ Ended(history[id], "expired", at[id], id \notin noted)
             = [total |-> history[id].total, taken |-> history[id].taken,
                deadline |-> history[id].deadline, fate |-> "expired",
                died |-> at[id], dropped |-> id \notin noted]
    BY <2>0, <2>1, <2>3, EndedLife
  <2>5. QED
    BY <2>1, <2>2, <2>4
<1> HIDE DEF dead
<1>5. TypeOK'
  <2>1. entries' \in [Ids -> Entry \cup {Absent}]
    BY <1>2 DEF IInv, TypeOK
  <2>2. tombs' \in [Ids -> Tombstone \cup {Absent}]
    BY <1>1, <1>4 DEF IInv, TypeOK
  <2>3. history' \in [Ids -> Life \cup {Absent}]
    BY <1>1, <1>4 DEF IInv, TypeOK
  <2>4. QED
    BY <1>1, <1>2, <1>3, <2>1, <2>2, <2>3 DEF TypeOK
<1>6. ASSUME NEW j \in Ids PROVE Sound(j)'
  <2>1. Sound(j)
    BY DEF IInv
  <2>3. history[j] # Absent =>
          /\ clock' < Retention(history[j]) => clock < Retention(history[j])
          /\ clock >= history[j].deadline => clock' >= history[j].deadline
    BY <1>1, <1>3, TimePasses DEF IInv
  <2>4. CASE j \in dead
    <3> DEFINE h == Ended(history[j], "expired", at[j], j \notin noted)
    <3>1. entries'[j] = Absent /\ history'[j] = h
      BY <1>1, <1>2, <2>4
    <3>2. /\ h \in Life /\ h # Absent
          /\ h.total = history[j].total /\ h.taken = history[j].taken
          /\ h.deadline = history[j].deadline /\ h.fate = "expired"
          /\ h.died = at[j] /\ (h.dropped <=> j \notin noted)
      <4>1. h \in Life /\ h # Absent
        BY <1>4, <2>4, AbsentAssumption
      <4>2. h = [total |-> history[j].total, taken |-> history[j].taken,
                 deadline |-> history[j].deadline, fate |-> "expired",
                 died |-> at[j], dropped |-> j \notin noted]
        BY <1>4, <2>4
      <4> HIDE DEF h
      <4>3. QED
        BY <4>1, <4>2
    <3> HIDE DEF h
    <3>3. h.taken < h.total
      BY <1>4, <2>1, <2>4, <3>2 DEF Sound, Entry, Life
    <3>4. /\ h.taken <= h.total /\ h.taken # h.total
          /\ h.fate # "live" /\ h.fate # "consumed"
      BY <3>2, <3>3 DEF Life
    <3>0. clock' >= h.deadline
      <4>1. j \in Ids /\ entries[j] \in Entry /\ clock >= entries[j].expiresAt
        BY <1>4, <2>4 DEF dead, Expired
      <4>2. entries[j].expiresAt = history[j].deadline
        BY <1>4, <2>4
      <4>3. QED
        BY <1>1, <1>3, <3>2, <4>1, <4>2 DEF Entry
    <3>5. CASE j \in noted
      <4>1. tombs'[j] = NewTomb("expired", h.deadline, at[j]) /\ tombs'[j] # Absent
        BY <1>1, <1>4, <2>4, <3>2, <3>5, AbsentAssumption
      <4>2. /\ tombs'[j].reason = h.fate /\ tombs'[j].at = h.deadline
            /\ tombs'[j].expiresAt = Retention(h)
        BY <3>2, <4>1 DEF NewTomb, Retention
      <4>3. QED
        BY <3>0, <3>1, <3>2, <3>4, <4>1, <4>2 DEF Sound
    <3>6. CASE j \notin noted
      <4>1. tombs[j] = Absent
        BY <1>4, <2>1, <2>4 DEF Sound
      <4>2. tombs'[j] = Absent
        BY <1>1, <3>6, <4>1
      <4>3. QED
        BY <3>0, <3>1, <3>2, <3>4, <3>6, <4>2 DEF Sound
    <3>7. QED
      BY <3>5, <3>6
  <2>5. CASE j \notin dead
    <3>1. /\ entries'[j] = entries[j] /\ history'[j] = history[j]
          /\ tombs'[j] = IF TombStanding(j) THEN tombs[j] ELSE Absent
      BY <1>1, <1>2, <2>5
    <3>2. CASE TombStanding(j)
      BY <2>1, <2>3, <3>1, <3>2 DEF Sound, Retention
    <3>3. CASE ~TombStanding(j)
      <4>1. tombs'[j] = Absent
        BY <3>1, <3>3
      <4>2. tombs[j] # Absent => ~(clock < Retention(history[j]))
        BY <2>1, <3>3 DEF Sound, TombStanding
      <4>3. QED
        BY <2>1, <2>3, <3>1, <4>1, <4>2 DEF Sound, Retention
    <3>4. QED
      BY <3>2, <3>3
  <2>6. QED
    BY <2>4, <2>5
<1>7. QED
  BY <1>5, <1>6 DEF IInv

(* Time passing ends nothing by itself.                                    *)
LEMMA TickStep == IInv /\ Tick => IInv'
<1> SUFFICES ASSUME IInv, Tick PROVE IInv'
  OBVIOUS
<1>1. clock' \in Nat /\ clock' >= clock
  BY DEF Tick, IInv, TypeOK
<1>2. QED
  BY <1>1, QuietStep DEF Tick, IInv, TypeOK

(* The invariant is inductive: one case per action.                        *)
LEMMA NextIInv == IInv /\ [Next]_storeVars => IInv'
<1> SUFFICES ASSUME IInv, [Next]_storeVars PROVE IInv'
  OBVIOUS
<1>1. ASSUME NEW id \in Ids, Put(id) PROVE IInv'
  BY <1>1, PutStep
<1>2. ASSUME NEW id \in Ids, Take(id) PROVE IInv'
  BY <1>2, TakeStep
<1>3. ASSUME NEW id \in Ids, Peek(id) PROVE IInv'
  BY <1>3, PeekStep
<1>4. ASSUME NEW id \in Ids, Revoke(id) PROVE IInv'
  BY <1>4, RevokeStep
<1>5. CASE Purge
  BY <1>5, PurgeStep
<1>6. CASE Tick
  BY <1>6, TickStep
<1>7. CASE UNCHANGED storeVars
  BY <1>7, QuietStep DEF storeVars, IInv, TypeOK
<1>8. QED
  BY <1>1, <1>2, <1>3, <1>4, <1>5, <1>6, <1>7 DEF Next

(* The inductive invariant holds of every behaviour of the store.           *)
THEOREM Invariance == Spec => []IInv
<1>1. Init => IInv
  BY InitIInv
<1>2. IInv /\ [Next]_storeVars => IInv'
  BY NextIInv
<1>3. QED
  BY <1>1, <1>2, PTL DEF Spec

(* The state is always well formed.                                        *)
THEOREM TypeCorrect == Spec => []TypeOK
<1>1. IInv => TypeOK
  BY DEF IInv
<1>2. QED
  BY <1>1, Invariance, PTL

(* Reads are granted within their budget, and a secret is consumed exactly  *)
(* when all of them were.                                                  *)
THEOREM ReadsWithinBudget == Spec => []ReadBudget
<1>1. IInv => ReadBudget
  BY DEF IInv, ReadBudget, Sound
<1>2. QED
  BY <1>1, Invariance, PTL

(* No tombstone lies about how, when or for how long.                       *)
THEOREM EvidenceNeverLies == Spec => []EvidenceTruthful
<1>1. IInv => EvidenceTruthful
  BY DEF IInv, EvidenceTruthful, Sound
<1>2. QED
  BY <1>1, Invariance, PTL

(* Evidence of a secret that died while there was room is kept for its      *)
(* whole retention.                                                        *)
THEOREM EvidenceLasts == Spec => []EvidenceRetained
<1>1. IInv => EvidenceRetained
  BY DEF IInv, EvidenceRetained, Sound
<1>2. QED
  BY <1>1, Invariance, PTL

----------------------------------------------------------------------------
(* The caps.                                                               *)

(* A subset of the IDs has no more elements than a set that contains it.   *)
LEMMA Fewer ==
  ASSUME NEW S \in SUBSET Ids, NEW T \in SUBSET S
  PROVE  Cardinality(T) <= Cardinality(S)
BY CountType, FS_Subset

(* One more ID is at most one more in the count.                           *)
LEMMA OneMore ==
  ASSUME NEW S \in SUBSET Ids, NEW T \in SUBSET Ids, NEW x \in Ids, T \subseteq S \cup {x}
  PROVE  Cardinality(T) <= Cardinality(S) + 1
<1>1. IsFiniteSet(S) /\ Cardinality(S) \in Nat
  BY CountType
<1>2. /\ S \cup {x} \in SUBSET Ids
      /\ Cardinality(S \cup {x}) \in {Cardinality(S), Cardinality(S) + 1}
  BY <1>1, FS_AddElement
<1>3. Cardinality(T) <= Cardinality(S \cup {x}) /\ Cardinality(T) \in Nat
  BY <1>2, Fewer, CountType
<1>4. QED
  BY <1>1, <1>2, <1>3

(* Two sets of IDs count at most as much together as each alone.           *)
LEMMA Together ==
  ASSUME NEW S \in SUBSET Ids, NEW N \in SUBSET Ids, NEW T \in SUBSET Ids,
         T \subseteq S \cup N
  PROVE  Cardinality(T) <= Cardinality(S) + Cardinality(N)
<1>1. /\ IsFiniteSet(S) /\ Cardinality(S) \in Nat
      /\ IsFiniteSet(N) /\ Cardinality(N) \in Nat
      /\ IsFiniteSet(S \cap N) /\ Cardinality(S \cap N) \in Nat
      /\ Cardinality(T) \in Nat
  BY CountType
<1>2. S \cup N \in SUBSET Ids /\ Cardinality(S \cup N) \in Nat
  BY CountType
<1>3. Cardinality(S \cup N) = Cardinality(S) + Cardinality(N) - Cardinality(S \cap N)
  BY <1>1, FS_Union
<1>4. Cardinality(T) <= Cardinality(S \cup N)
  BY <1>2, Fewer
<1>5. QED
  BY <1>1, <1>2, <1>3, <1>4

(* A step that adds nothing to either table.                               *)
LEMMA NoGrowth ==
  ASSUME Bounded, EntryIds' \subseteq EntryIds, TombIds' \subseteq TombIds
  PROVE  Bounded'
<1>1. EntryIds \in SUBSET Ids /\ TombIds \in SUBSET Ids
  BY DEF EntryIds, TombIds
<1>2. EntryIds' \in SUBSET Ids /\ TombIds' \in SUBSET Ids
  BY <1>1
<1>3. /\ Cardinality(EntryIds') <= Cardinality(EntryIds)
      /\ Cardinality(TombIds') <= Cardinality(TombIds)
  BY <1>1, Fewer
<1>4. QED
  BY <1>1, <1>2, <1>3, CountType, LimitsAssumption DEF Bounded

(* tombLocked respects its cap.                                            *)
LEMMA TombLockedBounded ==
  ASSUME TypeOK, Bounded, NEW id \in Ids, NEW reason, NEW now,
         tombs' = TombLocked(id, reason, now),
         entries' = [entries EXCEPT ![id] = Absent]
  PROVE  Bounded'
<1>1. EntryIds \in SUBSET Ids /\ TombIds \in SUBSET Ids /\ TombIds' \in SUBSET Ids
  BY DEF EntryIds, TombIds
<1>2. EntryIds' \subseteq EntryIds
  BY DEF EntryIds, TypeOK
<1>3. CASE Cardinality(TombIds) >= MaxTombstones
  <2>1. TombIds' = TombIds
    BY <1>3 DEF TombLocked, TombIds
  <2>2. QED
    BY <1>2, <2>1, NoGrowth
<1>4. CASE ~(Cardinality(TombIds) >= MaxTombstones)
  <2>1. TombIds' \subseteq TombIds \cup {id}
    BY <1>4 DEF TombLocked, TombIds, TypeOK
  <2>2. Cardinality(TombIds') <= Cardinality(TombIds) + 1
    BY <1>1, <2>1, OneMore
  <2>3. Cardinality(TombIds) \in Nat /\ Cardinality(TombIds') \in Nat
    BY <1>1, CountType
  <2>4. Cardinality(TombIds') <= MaxTombstones
    BY <1>4, <2>2, <2>3, LimitsAssumption
  <2>5. EntryIds' \in SUBSET Ids /\ Cardinality(EntryIds') <= Cardinality(EntryIds)
    BY <1>1, <1>2, Fewer
  <2>6. Cardinality(EntryIds') <= MaxSecrets
    BY <1>1, <2>5, CountType, LimitsAssumption DEF Bounded
  <2>7. QED
    BY <2>4, <2>6 DEF Bounded
<1>5. QED
  BY <1>3, <1>4

(* A miss removes at most one entry and adds at most one tombstone.        *)
LEMMA MissBounded ==
  ASSUME TypeOK, Bounded, NEW op, NEW id \in Ids, Miss(op, id)
  PROVE  Bounded'
<1>1. CASE ExpireLazily(op, id)
  BY <1>1, TombLockedBounded DEF ExpireLazily
<1>2. CASE AnswerGone(op, id) \/ NeverSeen(op, id)
  <2>1. EntryIds' \subseteq EntryIds /\ TombIds' \subseteq TombIds
    BY <1>2 DEF AnswerGone, NeverSeen, EntryIds, TombIds
  <2>2. QED
    BY <2>1, NoGrowth
<1>3. CASE ForgetTomb(op, id)
  <2>1. EntryIds' \subseteq EntryIds /\ TombIds' \subseteq TombIds
    BY <1>3 DEF ForgetTomb, EntryIds, TombIds, TypeOK
  <2>2. QED
    BY <2>1, NoGrowth
<1>4. QED
  BY <1>1, <1>2, <1>3 DEF Miss

(* The tombstones that a purge adds were counted before the swept ones     *)
(* left.                                                                   *)
LEMMA PurgeBounded == TypeOK /\ Bounded /\ Purge => Bounded'
<1> SUFFICES ASSUME TypeOK, Bounded, Purge PROVE Bounded'
  OBVIOUS
<1>1. PICK noted \in SUBSET {id \in Ids : Expired(id)} :
        /\ Cardinality(TombIds) + Cardinality(noted) <= MaxTombstones
        /\ \A id \in Ids : tombs'[id] # Absent => id \in noted \/ tombs[id] # Absent
  BY DEF Purge
<1>2. EntryIds' \subseteq EntryIds
  BY DEF Purge, EntryIds
<1>3. /\ EntryIds \in SUBSET Ids /\ EntryIds' \in SUBSET Ids
      /\ TombIds \in SUBSET Ids /\ TombIds' \in SUBSET Ids /\ noted \in SUBSET Ids
  BY DEF EntryIds, TombIds
<1>4. TombIds' \subseteq TombIds \cup noted
  BY <1>1 DEF TombIds
<1>5. /\ Cardinality(TombIds') <= Cardinality(TombIds) + Cardinality(noted)
      /\ Cardinality(EntryIds') <= Cardinality(EntryIds)
  BY <1>2, <1>3, <1>4, Together, Fewer
<1>6. /\ Cardinality(TombIds) \in Nat /\ Cardinality(TombIds') \in Nat
      /\ Cardinality(EntryIds) \in Nat /\ Cardinality(EntryIds') \in Nat
      /\ Cardinality(noted) \in Nat
  BY <1>3, CountType
<1>7. QED
  BY <1>1, <1>5, <1>6, LimitsAssumption DEF Bounded

(* No step outgrows the caps.                                              *)
LEMMA NextBounded == TypeOK /\ Bounded /\ [Next]_storeVars => Bounded'
<1> SUFFICES ASSUME TypeOK, Bounded, [Next]_storeVars PROVE Bounded'
  OBVIOUS
<1>1. ASSUME NEW id \in Ids, PutOk(id) PROVE Bounded'
  <2>1. EntryIds' \subseteq EntryIds \cup {id} /\ TombIds' = TombIds
    BY <1>1 DEF PutOk, EntryIds, TombIds, TypeOK
  <2>2. /\ EntryIds \in SUBSET Ids /\ EntryIds' \in SUBSET Ids
        /\ Cardinality(EntryIds) < MaxSecrets
    BY <1>1 DEF PutOk, EntryIds
  <2>3. Cardinality(EntryIds') <= Cardinality(EntryIds) + 1
    BY <2>1, <2>2, OneMore
  <2>4. QED
    BY <2>1, <2>2, <2>3, CountType, LimitsAssumption DEF Bounded
<1>2. ASSUME NEW id \in Ids, TakeOne(id) PROVE Bounded'
  <2>1. EntryIds' \subseteq EntryIds /\ TombIds' \subseteq TombIds
    BY <1>2 DEF TakeOne, Live, EntryIds, TombIds, TypeOK
  <2>2. QED
    BY <2>1, NoGrowth
<1>3. ASSUME NEW id \in Ids, TakeLast(id) \/ RevokeOk(id) PROVE Bounded'
  BY <1>3, TombLockedBounded DEF TakeLast, RevokeOk
<1>4. ASSUME NEW id \in Ids, PutFull(id) \/ PeekOk(id) PROVE Bounded'
  <2>1. EntryIds' \subseteq EntryIds /\ TombIds' \subseteq TombIds
    BY <1>4 DEF PutFull, PeekOk, EntryIds, TombIds
  <2>2. QED
    BY <2>1, NoGrowth
<1>5. ASSUME NEW id \in Ids, Put(id) \/ Take(id) \/ Peek(id) \/ Revoke(id) PROVE Bounded'
  BY <1>1, <1>2, <1>3, <1>4, <1>5, MissBounded DEF Put, Take, Peek, Revoke
<1>6. CASE Purge
  BY <1>6, PurgeBounded
<1>7. CASE Tick \/ UNCHANGED storeVars
  <2>1. EntryIds' \subseteq EntryIds /\ TombIds' \subseteq TombIds
    BY <1>7 DEF Tick, storeVars, EntryIds, TombIds
  <2>2. QED
    BY <2>1, NoGrowth
<1>8. QED
  BY <1>5, <1>6, <1>7 DEF Next

(* Neither table ever outgrows its cap.                                    *)
THEOREM TablesBounded == Spec => []Bounded
<1>1. Init => Bounded
  <2>1. Init => EntryIds = {} /\ TombIds = {}
    BY DEF Init, EntryIds, TombIds
  <2>2. QED
    BY <2>1, FS_EmptySet, LimitsAssumption DEF Bounded
<1>2. TypeOK /\ Bounded /\ [Next]_storeVars => Bounded'
  BY NextBounded
<1>3. QED
  BY <1>1, <1>2, TypeCorrect, PTL DEF Spec

(***************************************************************************)
(* The refinement: the store implements the one-time secrets of module      *)
(* OneTimeSecret, for every value of the constants.                         *)
(***************************************************************************)

(* How the abstract fate of a secret is read off the store: from the        *)
(* history once the entry has left the table, from the deadline before.     *)
FateMapped ==
  \A id \in Ids : history[id] # Absent =>
    Abstract!Fate(id) = IF history[id].fate # "live" THEN history[id].fate
                        ELSE IF clock < history[id].deadline THEN "live" ELSE "expired"

(* The fate that the abstract specification tells of a secret is the one   *)
(* that the history records, once it is over.                              *)
LEMMA FateMap == IInv => FateMapped
<1> SUFFICES ASSUME IInv, NEW id \in Ids, history[id] # Absent
             PROVE  Abstract!Fate(id)
                      = IF history[id].fate # "live" THEN history[id].fate
                        ELSE IF clock < history[id].deadline THEN "live" ELSE "expired"
  BY DEF FateMapped
<1> DEFINE left == history[id].total - history[id].taken
<1>1. history[id] \in Life /\ clock \in Nat /\ Sound(id)
  BY DEF IInv, TypeOK
<1>2. /\ left = 0 <=> history[id].fate = "consumed"
      /\ history[id].fate = "expired" => clock >= history[id].deadline
  BY <1>1 DEF Sound, Life
<1>3. /\ AbstractSecret(id).left = left
      /\ AbstractSecret(id).deadline = history[id].deadline
      /\ AbstractSecret(id).revoked <=> history[id].fate = "revoked"
  BY DEF AbstractSecret
<1> HIDE DEF left
<1>4. Abstract!Fate(id) =
        CASE left = 0 -> "consumed"
          [] left # 0 /\ history[id].fate = "revoked" -> "revoked"
          [] left # 0 /\ history[id].fate # "revoked" /\ clock >= history[id].deadline -> "expired"
          [] OTHER -> "live"
  BY <1>3 DEF Abstract!Fate
<1>5. CASE history[id].fate = "consumed"
  BY <1>2, <1>4, <1>5
<1>6. CASE history[id].fate = "revoked"
  BY <1>2, <1>4, <1>6
<1>7. CASE history[id].fate = "expired"
  BY <1>2, <1>4, <1>7
<1>8. CASE history[id].fate = "live"
  BY <1>1, <1>2, <1>4, <1>8 DEF Life
<1>9. QED
  BY <1>1, <1>5, <1>6, <1>7, <1>8 DEF Life, Reasons

(* A secret that was issued has an abstract state.                          *)
IssuedMapped == \A id \in Ids : Abstract!Issued(id) <=> history[id] # Absent

(* An ID is issued in the abstract exactly when it has a history.          *)
LEMMA IssuedMap == IInv => IssuedMapped
<1> SUFFICES ASSUME IInv, NEW id \in Ids
             PROVE  Abstract!Issued(id) <=> history[id] # Absent
  BY DEF IssuedMapped
<1>1. CASE history[id] = Absent
  BY <1>1 DEF Abstract!Issued, AbstractSecret
<1>2. CASE history[id] # Absent
  <2>1. history[id] \in Life /\ Sound(id)
    BY <1>2 DEF IInv, TypeOK
  <2>2. AbstractSecret(id) \in Promise
    BY <1>2, <2>1 DEF AbstractSecret, Promise, Life, Sound
  <2>3. QED
    BY <1>2, <2>2, AbsentAssumption DEF Abstract!Issued
<1>3. QED
  BY <1>1, <1>2

(* A secret can be read in the abstract exactly when its entry is live.     *)
LEMMA ReadableMap ==
  ASSUME IInv, NEW id \in Ids
  PROVE  Abstract!Readable(id) <=> Live(id)
<1>1. CASE history[id] = Absent
  <2>1. entries[id] = Absent
    BY <1>1 DEF IInv, Sound
  <2>2. QED
    BY <1>1, <2>1, IssuedMap DEF IssuedMapped, Abstract!Readable, Live
<1>2. CASE history[id] # Absent
  <2>1. /\ entries[id] # Absent <=> history[id].fate = "live"
        /\ entries[id] # Absent => entries[id].expiresAt = history[id].deadline
    BY <1>2 DEF IInv, Sound
  <2>2. Abstract!Fate(id) = "live" <=> history[id].fate = "live" /\ clock < history[id].deadline
    BY <1>2, FateMap DEF FateMapped
  <2>3. QED
    BY <1>2, <2>1, <2>2, IssuedMap DEF IssuedMapped, Abstract!Readable, Live
<1>3. QED
  BY <1>1, <1>2

(* Nothing that is forgotten comes back, and only what is over is forgotten,*)
(* in a step that makes no entry or tombstone for an ID that had an entry.  *)
LEMMA Forgetting ==
  ASSUME IInv, IInv', clock' >= clock,
         \A j \in Ids : history[j] # Absent =>
           /\ history'[j] # Absent
           /\ entries[j] = Absent =>
                entries'[j] = Absent /\ (tombs'[j] = tombs[j] \/ tombs'[j] = Absent)
  PROVE  Abstract!MayForget
<1>1. AbstractForgotten \subseteq AbstractForgotten'
  <2> SUFFICES ASSUME NEW j \in AbstractForgotten PROVE j \in AbstractForgotten'
    OBVIOUS
  <2>1. j \in Ids /\ history[j] # Absent /\ entries[j] = Absent /\ ~TombStanding(j)
    BY DEF AbstractForgotten
  <2>2. history'[j] # Absent /\ entries'[j] = Absent
    BY <2>1
  <2>3. ~TombStanding(j)'
    <3>1. CASE tombs'[j] = Absent
      BY <3>1 DEF TombStanding
    <3>2. CASE tombs'[j] = tombs[j] /\ tombs[j] # Absent
      <4>1. tombs[j].expiresAt \in Nat /\ clock \in Nat /\ clock' \in Nat
        BY <2>1, <3>2 DEF IInv, TypeOK, Tombstone
      <4>2. ~(clock < tombs[j].expiresAt)
        BY <2>1, <3>2 DEF TombStanding
      <4>3. ~(clock' < tombs'[j].expiresAt)
        BY <3>2, <4>1, <4>2
      <4>4. QED
        BY <4>3 DEF TombStanding
    <3>3. QED
      BY <2>1, <3>1, <3>2
  <2>4. QED
    BY <2>1, <2>2, <2>3 DEF AbstractForgotten
<1>2. ASSUME NEW j \in AbstractForgotten' PROVE j \in Ids /\ Abstract!Over(j)'
  <2>1. j \in Ids /\ history'[j] # Absent /\ entries'[j] = Absent
    BY DEF AbstractForgotten
  <2>2. Abstract!Issued(j)'
    <3>1. IssuedMapped'
      BY IssuedMap, PTL
    <3>2. QED
      BY <2>1, <3>1 DEF IssuedMapped
  <2>3. Abstract!Fate(j)' # "live"
    <3>1. FateMapped'
      BY FateMap, PTL
    <3>2. history'[j].fate # "live"
      BY <2>1 DEF IInv, Sound
    <3>3. QED
      BY <2>1, <3>1, <3>2 DEF FateMapped
  <2>4. QED
    BY <2>1, <2>2, <2>3 DEF Abstract!Over
<1>3. QED
  BY <1>1, <1>2 DEF Abstract!MayForget

----------------------------------------------------------------------------
(* Two ways to leave the abstract state alone.                             *)

(* A history that says the same of a secret is the same abstract secret.    *)
LEMMA SameSecrets ==
  ASSUME \A j \in Ids :
           \/ history'[j] = history[j]
           \/ /\ history[j] # Absent /\ history'[j] # Absent
              /\ history'[j].total = history[j].total
              /\ history'[j].taken = history[j].taken
              /\ history'[j].deadline = history[j].deadline
              /\ history'[j].fate = "revoked" <=> history[j].fate = "revoked"
  PROVE  [j \in Ids |-> AbstractSecret(j)]' = [j \in Ids |-> AbstractSecret(j)]
<1>1. ASSUME NEW j \in Ids PROVE AbstractSecret(j)' = AbstractSecret(j)
  <2>1. CASE history'[j] = history[j]
    BY <2>1 DEF AbstractSecret
  <2>2. CASE /\ history[j] # Absent /\ history'[j] # Absent
             /\ history'[j].total = history[j].total
             /\ history'[j].taken = history[j].taken
             /\ history'[j].deadline = history[j].deadline
             /\ history'[j].fate = "revoked" <=> history[j].fate = "revoked"
    BY <2>2 DEF AbstractSecret
  <2>3. QED
    BY <2>1, <2>2
<1>2. QED
  BY <1>1

(* A step that leaves entries, tombstones and clock alone forgets nothing. *)
LEMMA SameForgotten ==
  ASSUME UNCHANGED <<clock, entries, tombs, history>>
  PROVE  AbstractForgotten' = AbstractForgotten
BY DEF AbstractForgotten, TombStanding

----------------------------------------------------------------------------
(* The actions.                                                            *)

(* Put at the cap is a refusal.                                            *)
LEMMA PutFullMaps ==
  ASSUME IInv, NEW id \in Ids, PutFull(id)
  PROVE  Abstract!Refuse(id)
<1>1. ~Abstract!Issued(id)
  BY IssuedMap DEF IssuedMapped, PutFull
<1>2. [j \in Ids |-> AbstractSecret(j)]' = [j \in Ids |-> AbstractSecret(j)]
  BY SameSecrets DEF PutFull
<1>3. AbstractForgotten' = AbstractForgotten
  BY SameForgotten DEF PutFull
<1>4. QED
  BY <1>1, <1>2, <1>3 DEF PutFull, Abstract!Refuse, Abstract!Reply, Answer

(* A Put that succeeds issues the secret.                                  *)
LEMMA PutOkMaps ==
  ASSUME IInv, IInv', NEW id \in Ids, PutOk(id)
  PROVE  Abstract!Issue(id)
<1>1. ~Abstract!Issued(id) /\ history[id] = Absent
  BY IssuedMap DEF IssuedMapped, PutOk
<1>2. PICK ttl \in TTLs, reads \in ReadCounts :
        /\ entries' = [entries EXCEPT ![id] =
             [remaining |-> reads, total |-> reads, expiresAt |-> clock + ttl]]
        /\ history' = [history EXCEPT ![id] =
             [total |-> reads, taken |-> 0, deadline |-> clock + ttl,
              fate |-> "live", died |-> 0, dropped |-> FALSE]]
  BY DEF PutOk
<1>3. /\ history'[id] = [total |-> reads, taken |-> 0, deadline |-> clock + ttl,
                         fate |-> "live", died |-> 0, dropped |-> FALSE]
      /\ history'[id] \in Life \cup {Absent}
      /\ entries'[id] = [remaining |-> reads, total |-> reads, expiresAt |-> clock + ttl]
      /\ \A j \in Ids \ {id} : history'[j] = history[j] /\ entries'[j] = entries[j]
  BY <1>2 DEF IInv, TypeOK
<1>4. clock \in Nat /\ ttl \in Nat /\ reads \in Nat
  BY TimeAssumption, ReadsAssumption DEF IInv, TypeOK
<1>5. history'[id] # Absent /\ entries'[id] # Absent
  <2>1. history'[id] \in Life /\ entries'[id] \in Entry
    BY <1>3, <1>4 DEF Life, Entry
  <2>2. QED
    BY <2>1, AbsentAssumption
<1>6. AbstractSecret(id)' = [left |-> reads, deadline |-> clock + ttl, revoked |-> FALSE]
  <2>1. /\ history'[id].total - history'[id].taken = reads
        /\ history'[id].deadline = clock + ttl
        /\ (history'[id].fate = "revoked") = FALSE
    BY <1>3, <1>4
  <2>2. AbstractSecret(id)' = [left |-> history'[id].total - history'[id].taken,
                               deadline |-> history'[id].deadline,
                               revoked |-> history'[id].fate = "revoked"]
    BY <1>5 DEF AbstractSecret
  <2>3. QED
    BY <2>1, <2>2
<1>7. \A j \in Ids \ {id} : AbstractSecret(j)' = AbstractSecret(j)
  BY <1>3 DEF AbstractSecret
<1>8. [j \in Ids |-> AbstractSecret(j)]'
        = [[j \in Ids |-> AbstractSecret(j)] EXCEPT ![id] =
             [left |-> reads, deadline |-> clock + ttl, revoked |-> FALSE]]
  BY <1>6, <1>7
<1>9. AbstractForgotten' = AbstractForgotten
  BY <1>1, <1>3, <1>5 DEF AbstractForgotten, TombStanding, PutOk
<1>10. QED
  BY <1>1, <1>8, <1>9 DEF PutOk, Abstract!Issue, Abstract!Reply, Answer

(* Peek at a live entry is a look.                                         *)
LEMMA PeekOkMaps ==
  ASSUME IInv, NEW id \in Ids, PeekOk(id)
  PROVE  Abstract!Look(id)
<1>1. Abstract!Readable(id)
  BY ReadableMap DEF PeekOk
<1>2. [j \in Ids |-> AbstractSecret(j)]' = [j \in Ids |-> AbstractSecret(j)]
  BY SameSecrets DEF PeekOk
<1>3. AbstractForgotten' = AbstractForgotten
  BY SameForgotten DEF PeekOk
<1>4. QED
  BY <1>1, <1>2, <1>3 DEF PeekOk, Abstract!Look, Abstract!Reply, Answer

(* The end of an entry, whatever ends it, forgets only what is over.        *)
LEMMA EndForgets ==
  ASSUME IInv, IInv', NEW id \in Ids, NEW now \in Readings, NEW reason, NEW last \in Life,
         entries[id] # Absent, clock' = now,
         tombs' = TombLocked(id, reason, now),
         entries' = [entries EXCEPT ![id] = Absent],
         history' = [history EXCEPT ![id] = last]
  PROVE  Abstract!MayForget /\ clock' >= clock
<1>1. clock' >= clock
  BY ReadingsType DEF IInv
<1>2. ASSUME NEW j \in Ids, history[j] # Absent
      PROVE  /\ history'[j] # Absent
             /\ entries[j] = Absent =>
                  entries'[j] = Absent /\ (tombs'[j] = tombs[j] \/ tombs'[j] = Absent)
  <2>1. CASE j = id
    <3>1. history'[id] # Absent
      BY AbsentAssumption DEF IInv, TypeOK
    <3>2. QED
      BY <2>1, <3>1
  <2>2. CASE j # id
    BY <1>2, <2>2 DEF TombLocked, IInv, TypeOK
  <2>3. QED
    BY <2>1, <2>2
<1>3. QED
  BY <1>1, <1>2, Forgetting

(* Updates of an abstract secret.                                          *)
LEMMA LeftUpdate ==
  ASSUME NEW p \in [left : Int, deadline : Nat, revoked : BOOLEAN]
  PROVE  [p EXCEPT !.left = @ - 1]
           = [left |-> p.left - 1, deadline |-> p.deadline, revoked |-> p.revoked]
OBVIOUS

(* Revoking changes no more than the mark of an abstract secret.           *)
LEMMA RevokedUpdate ==
  ASSUME NEW p \in [left : Int, deadline : Nat, revoked : BOOLEAN], NEW b \in BOOLEAN
  PROVE  [p EXCEPT !.revoked = b]
           = [left |-> p.left, deadline |-> p.deadline, revoked |-> b]
OBVIOUS

(* A granted read, the last or not, is a read.                             *)
LEMMA TakeMaps ==
  ASSUME IInv, IInv', NEW id \in Ids, TakeOne(id) \/ TakeLast(id)
  PROVE  Abstract!Read(id)
<1>1. Abstract!Readable(id) /\ history[id] \in Life /\ history[id] # Absent
  BY ReadableMap DEF TakeOne, TakeLast, Live, IInv, TypeOK, Sound
<1>2. /\ Granted(history[id]) \in Life
      /\ Granted(history[id]).total = history[id].total
      /\ Granted(history[id]).taken = history[id].taken + 1
      /\ Granted(history[id]).deadline = history[id].deadline
      /\ Granted(history[id]).fate = history[id].fate
  BY <1>1 DEF Granted, Life
<1>3. history[id].fate = "live"
  BY <1>1 DEF TakeOne, TakeLast, Live, IInv, Sound
<1>4. PICK h \in Life :
        /\ history' = [history EXCEPT ![id] = h]
        /\ h.total = history[id].total
        /\ h.taken = history[id].taken + 1
        /\ h.deadline = history[id].deadline
        /\ h.fate # "revoked"
  <2>1. CASE TakeOne(id)
    <3>1. history' = [history EXCEPT ![id] = Granted(history[id])]
      BY <2>1 DEF TakeOne
    <3>2. QED
      BY <1>2, <1>3, <3>1
  <2>2. CASE TakeLast(id)
    <3>1. PICK now \in Readings :
            history' = [history EXCEPT ![id] =
              Ended(Granted(history[id]), "consumed", now, TableFull)]
      BY <2>2 DEF TakeLast
    <3> DEFINE h == Ended(Granted(history[id]), "consumed", now, TableFull)
    <3>2. /\ h \in Life
          /\ h = [total |-> history[id].total, taken |-> history[id].taken + 1,
                  deadline |-> history[id].deadline, fate |-> "consumed",
                  died |-> now, dropped |-> TableFull]
      BY <1>2, EndedLife, FullType, ReadingsType DEF IInv, Reasons
    <3> HIDE DEF h
    <3>3. /\ h.total = history[id].total /\ h.taken = history[id].taken + 1
          /\ h.deadline = history[id].deadline /\ h.fate # "revoked"
      BY <3>2
    <3>4. history' = [history EXCEPT ![id] = h]
      BY <3>1 DEF h
    <3>5. QED
      BY <3>2, <3>3, <3>4
  <2>3. QED
    BY <2>1, <2>2
<1>5. [j \in Ids |-> AbstractSecret(j)]'
        = [[j \in Ids |-> AbstractSecret(j)] EXCEPT ![id].left = @ - 1]
  <2>1. h # Absent /\ history'[id] = h
    BY <1>4, AbsentAssumption DEF IInv, TypeOK
  <2>2. AbstractSecret(id) = [left |-> history[id].total - history[id].taken,
                              deadline |-> history[id].deadline, revoked |-> FALSE]
    BY <1>1, <1>3 DEF AbstractSecret
  <2>3. AbstractSecret(id)' = [left |-> (history[id].total - history[id].taken) - 1,
                               deadline |-> history[id].deadline, revoked |-> FALSE]
    <3>1. /\ h.total - h.taken = (history[id].total - history[id].taken) - 1
          /\ (h.fate = "revoked") = FALSE
      BY <1>1, <1>4 DEF Life
    <3>2. AbstractSecret(id)' = [left |-> h.total - h.taken, deadline |-> h.deadline,
                                 revoked |-> h.fate = "revoked"]
      BY <2>1 DEF AbstractSecret
    <3>3. QED
      BY <1>4, <3>1, <3>2
  <2>4. AbstractSecret(id)' = [AbstractSecret(id) EXCEPT !.left = @ - 1]
    <3>1. history[id].total - history[id].taken \in Int /\ history[id].deadline \in Nat
      BY <1>1 DEF Life
    <3>2. /\ AbstractSecret(id) \in [left : Int, deadline : Nat, revoked : BOOLEAN]
          /\ AbstractSecret(id).left = history[id].total - history[id].taken
          /\ AbstractSecret(id).deadline = history[id].deadline
          /\ AbstractSecret(id).revoked = FALSE
      BY <2>2, <3>1
    <3>3. QED
      BY <2>3, <3>2, LeftUpdate
  <2>5. \A j \in Ids \ {id} : AbstractSecret(j)' = AbstractSecret(j)
    BY <1>4 DEF AbstractSecret, IInv, TypeOK
  <2>6. QED
    BY <2>4, <2>5
<1>6. Abstract!MayForget /\ clock' >= clock
  <2>1. CASE TakeOne(id)
    <3>1. clock' = clock /\ clock \in Nat /\ tombs' = tombs
      BY <2>1 DEF TakeOne, IInv, TypeOK
    <3>2. \A j \in Ids : history[j] # Absent =>
            history'[j] # Absent /\ (entries[j] = Absent => entries'[j] = Absent)
      BY <1>4, <2>1, AbsentAssumption DEF TakeOne, Live, IInv, TypeOK
    <3>3. QED
      BY <3>1, <3>2, Forgetting
  <2>2. CASE TakeLast(id)
    <3>1. entries[id] # Absent
      BY <2>2 DEF TakeLast, Live
    <3>2. QED
      BY <1>4, <2>2, <3>1, EndForgets DEF TakeLast
  <2>3. QED
    BY <2>1, <2>2
<1>7. Abstract!Reply("take", id, "ok")
  BY DEF TakeOne, TakeLast, Abstract!Reply, Answer
<1>8. QED
  BY <1>1, <1>5, <1>6, <1>7 DEF Abstract!Read

(* Revocation of a live entry is a withdrawal.                             *)
LEMMA RevokeMaps ==
  ASSUME IInv, IInv', NEW id \in Ids, RevokeOk(id)
  PROVE  Abstract!Withdraw(id)
<1>1. /\ Abstract!Readable(id) /\ entries[id] # Absent
      /\ history[id] \in Life /\ history[id] # Absent /\ history[id].fate = "live"
  BY ReadableMap DEF RevokeOk, Live, IInv, TypeOK, Sound
<1>2. PICK now \in Readings :
        /\ clock' = now
        /\ tombs' = TombLocked(id, "revoked", now)
        /\ history' = [history EXCEPT ![id] = Ended(history[id], "revoked", now, TableFull)]
  BY DEF RevokeOk
<1> DEFINE h == Ended(history[id], "revoked", now, TableFull)
<1>3. /\ h \in Life
      /\ h = [total |-> history[id].total, taken |-> history[id].taken,
              deadline |-> history[id].deadline, fate |-> "revoked",
              died |-> now, dropped |-> TableFull]
  BY <1>1, EndedLife, FullType, ReadingsType DEF IInv, Reasons
<1>4. history' = [history EXCEPT ![id] = h]
  BY <1>2
<1> HIDE DEF h
<1>5. [j \in Ids |-> AbstractSecret(j)]'
        = [[j \in Ids |-> AbstractSecret(j)] EXCEPT ![id].revoked = TRUE]
  <2>1. h # Absent /\ history'[id] = h
    BY <1>3, <1>4, AbsentAssumption DEF IInv, TypeOK
  <2>2. AbstractSecret(id) = [left |-> history[id].total - history[id].taken,
                              deadline |-> history[id].deadline, revoked |-> FALSE]
    BY <1>1 DEF AbstractSecret
  <2>3. AbstractSecret(id)' = [left |-> history[id].total - history[id].taken,
                               deadline |-> history[id].deadline, revoked |-> TRUE]
    <3>1. /\ h.total = history[id].total /\ h.taken = history[id].taken
          /\ h.deadline = history[id].deadline /\ (h.fate = "revoked") = TRUE
      BY <1>3
    <3>2. AbstractSecret(id)' = [left |-> h.total - h.taken, deadline |-> h.deadline,
                                 revoked |-> h.fate = "revoked"]
      BY <2>1 DEF AbstractSecret
    <3>3. QED
      BY <3>1, <3>2
  <2>4. AbstractSecret(id)' = [AbstractSecret(id) EXCEPT !.revoked = TRUE]
    <3>1. history[id].total - history[id].taken \in Int /\ history[id].deadline \in Nat
      BY <1>1 DEF Life
    <3>2. /\ AbstractSecret(id) \in [left : Int, deadline : Nat, revoked : BOOLEAN]
          /\ AbstractSecret(id).left = history[id].total - history[id].taken
          /\ AbstractSecret(id).deadline = history[id].deadline
          /\ AbstractSecret(id).revoked = FALSE
      BY <2>2, <3>1
    <3>3. QED
      BY <2>3, <3>2, RevokedUpdate
  <2>5. \A j \in Ids \ {id} : AbstractSecret(j)' = AbstractSecret(j)
    BY <1>4 DEF AbstractSecret, IInv, TypeOK
  <2>6. QED
    BY <2>4, <2>5
<1>6. Abstract!MayForget /\ clock' >= clock
  BY <1>1, <1>2, <1>3, <1>4, EndForgets DEF RevokeOk
<1>7. QED
  BY <1>1, <1>5, <1>6 DEF RevokeOk, Abstract!Withdraw, Abstract!Reply, Answer

(* A miss: the four ways of liveLocked to find nothing are one denial.      *)
LEMMA ExpireMaps ==
  ASSUME IInv, IInv', NEW op, NEW id \in Ids, ExpireLazily(op, id)
  PROVE  Abstract!Deny(op, id)
<1>1. /\ ~Abstract!Readable(id) /\ entries[id] # Absent /\ Expired(id)
      /\ history[id] \in Life /\ history[id] # Absent /\ history[id].fate = "live"
      /\ tombs[id] = Absent /\ entries[id].expiresAt = history[id].deadline
  BY ReadableMap DEF ExpireLazily, Expired, Live, IInv, TypeOK, Sound, Entry
<1>2. PICK now \in Readings :
        /\ clock' = now
        /\ tombs' = TombLocked(id, "expired", now)
        /\ history' = [history EXCEPT ![id] = Ended(history[id], "expired", now, TableFull)]
  BY DEF ExpireLazily
<1> DEFINE h == Ended(history[id], "expired", now, TableFull)
<1>3. /\ h \in Life
      /\ h = [total |-> history[id].total, taken |-> history[id].taken,
              deadline |-> history[id].deadline, fate |-> "expired",
              died |-> now, dropped |-> TableFull]
  BY <1>1, EndedLife, FullType, ReadingsType DEF IInv, Reasons
<1>4. history' = [history EXCEPT ![id] = h]
  BY <1>2
<1> HIDE DEF h
<1>5. h # Absent /\ history'[id] = h
  BY <1>3, <1>4, AbsentAssumption DEF IInv, TypeOK
<1>6. [j \in Ids |-> AbstractSecret(j)]' = [j \in Ids |-> AbstractSecret(j)]
  <2>1. /\ h.total = history[id].total /\ h.taken = history[id].taken
        /\ h.deadline = history[id].deadline
        /\ h.fate # "revoked" /\ history[id].fate # "revoked"
    BY <1>1, <1>3
  <2>2. \A j \in Ids \ {id} : history'[j] = history[j]
    BY <1>4 DEF IInv, TypeOK
  <2>3. QED
    BY <1>1, <1>5, <2>1, <2>2, SameSecrets
<1>7. Abstract!MayForget /\ clock' >= clock
  BY <1>1, <1>2, <1>3, <1>4, EndForgets DEF ExpireLazily
<1>8. Abstract!Issued(id) /\ Abstract!Fate(id) = "expired"
  <2>1. ~(clock < history[id].deadline)
    BY <1>1 DEF Expired, IInv, TypeOK, Entry
  <2>2. QED
    BY <1>1, <2>1, IssuedMap, FateMap DEF IssuedMapped, FateMapped
<1>9. /\ tombs'[id] # Absent => tombs'[id].reason = "expired"
      /\ id \in AbstractForgotten' <=> tombs'[id] = Absent
  <2>1. entries'[id] = Absent
    BY DEF ExpireLazily, IInv, TypeOK
  <2>2. tombs'[id] # Absent =>
          /\ tombs'[id].reason = "expired"
          /\ clock' < tombs'[id].expiresAt
    <3>1. ASSUME tombs'[id] # Absent
          PROVE  tombs'[id] = NewTomb("expired", history[id].deadline, now)
      BY <1>1, <1>2, <3>1 DEF TombLocked, IInv, TypeOK
    <3>2. now \in Nat /\ history[id].deadline \in Nat
      BY <1>1, ReadingsType DEF IInv, Life
    <3>3. NewTomb("expired", history[id].deadline, now).reason = "expired"
      BY DEF NewTomb
    <3>4. now < NewTomb("expired", history[id].deadline, now).expiresAt
      BY <3>2, TimeAssumption DEF NewTomb, Max2
    <3>5. QED
      BY <1>2, <3>1, <3>3, <3>4
  <2>3. QED
    BY <1>5, <2>1, <2>2 DEF AbstractForgotten, TombStanding
<1>10. Abstract!Reply(op, id, IF ~Abstract!Issued(id) \/ id \in AbstractForgotten'
                              THEN "not_found" ELSE Abstract!Fate(id))
  BY <1>8, <1>9 DEF ExpireLazily, Answer, Abstract!Reply
<1>11. QED
  BY <1>1, <1>6, <1>7, <1>10 DEF Abstract!Deny

(* Every miss is a denial with the answer that the promise calls for.      *)
LEMMA MissMaps ==
  ASSUME IInv, IInv', NEW op, NEW id \in Ids, Miss(op, id)
  PROVE  Abstract!Deny(op, id)
<1>1. CASE ExpireLazily(op, id)
  BY <1>1, ExpireMaps
<1>2. CASE AnswerGone(op, id) \/ ForgetTomb(op, id) \/ NeverSeen(op, id)
  <2>1. /\ entries[id] = Absent
        /\ UNCHANGED <<clock, entries, history>>
        /\ \A j \in Ids : tombs'[j] = tombs[j] \/ tombs'[j] = Absent
    BY <1>2 DEF AnswerGone, ForgetTomb, NeverSeen, IInv, TypeOK
  <2>2. ~Abstract!Readable(id)
    BY <2>1, ReadableMap DEF Live
  <2>3. [j \in Ids |-> AbstractSecret(j)]' = [j \in Ids |-> AbstractSecret(j)]
    BY <2>1, SameSecrets
  <2>4. clock' >= clock
    BY <2>1 DEF IInv, TypeOK
  <2>5. Abstract!MayForget
    BY <2>1, <2>4, Forgetting
  <2>6. Abstract!Issued(id) <=> history[id] # Absent
    BY IssuedMap DEF IssuedMapped
  <2>7. Abstract!Reply(op, id, IF ~Abstract!Issued(id) \/ id \in AbstractForgotten'
                               THEN "not_found" ELSE Abstract!Fate(id))
    <3>1. CASE AnswerGone(op, id)
      <4>1. /\ tombs[id] # Absent /\ TombStanding(id) /\ UNCHANGED <<clock, tombs>>
            /\ reply' = [op |-> op, id |-> id, outcome |-> tombs[id].reason]
        BY <3>1 DEF AnswerGone, TombStanding, Answer
      <4>2. history[id] # Absent
        BY <4>1 DEF IInv, Sound
      <4>3. history[id].fate # "live" /\ tombs[id].reason = history[id].fate
        BY <2>1, <4>1, <4>2 DEF IInv, Sound
      <4>4. Abstract!Fate(id) = tombs[id].reason
        BY <4>2, <4>3, FateMap DEF FateMapped
      <4>5. id \notin AbstractForgotten'
        BY <2>1, <4>1 DEF AbstractForgotten, TombStanding
      <4>6. QED
        BY <2>6, <4>1, <4>2, <4>4, <4>5 DEF Abstract!Reply
    <3>2. CASE ForgetTomb(op, id) \/ NeverSeen(op, id)
      <4>1. /\ reply' = [op |-> op, id |-> id, outcome |-> "not_found"]
            /\ tombs'[id] = Absent
        BY <3>2 DEF ForgetTomb, NeverSeen, Answer, IInv, TypeOK
      <4>2. history[id] # Absent => id \in AbstractForgotten'
        BY <2>1, <4>1 DEF AbstractForgotten, TombStanding
      <4>3. QED
        BY <2>6, <4>1, <4>2 DEF Abstract!Reply
    <3>3. QED
      BY <1>2, <3>1, <3>2
  <2>8. QED
    BY <2>2, <2>3, <2>4, <2>5, <2>7 DEF Abstract!Deny
<1>3. QED
  BY <1>1, <1>2 DEF Miss

(* The janitor lets time pass and forgets only what is over.               *)
LEMMA PurgeMaps == IInv /\ IInv' /\ Purge => Abstract!Elapse
<1> SUFFICES ASSUME IInv, IInv', Purge PROVE Abstract!Elapse
  OBVIOUS
<1> DEFINE dead == {id \in Ids : Expired(id)}
<1>0. PICK now \in Readings : \E noted \in SUBSET dead, at \in [dead -> clock..now] :
        /\ clock' = now
        /\ tombs' = [id \in Ids |->
             IF id \in noted THEN NewTomb("expired", entries[id].expiresAt, at[id])
             ELSE IF TombStanding(id) THEN tombs[id] ELSE Absent]
        /\ history' = [id \in Ids |->
             IF id \in dead THEN Ended(history[id], "expired", at[id], id \notin noted)
             ELSE history[id]]
  BY DEF Purge
<1>1. PICK noted \in SUBSET dead, at \in [dead -> clock..now] :
        /\ clock' = now
        /\ tombs' = [id \in Ids |->
             IF id \in noted THEN NewTomb("expired", entries[id].expiresAt, at[id])
             ELSE IF TombStanding(id) THEN tombs[id] ELSE Absent]
        /\ history' = [id \in Ids |->
             IF id \in dead THEN Ended(history[id], "expired", at[id], id \notin noted)
             ELSE history[id]]
  BY <1>0
<1>2. /\ entries' = [id \in Ids |-> IF id \in dead THEN Absent ELSE entries[id]]
      /\ reply' = Absent
  BY DEF Purge
<1>3. clock' >= clock
  BY <1>1, ReadingsType DEF IInv
<1>4. ASSUME NEW j \in dead
      PROVE  /\ entries[j] # Absent /\ history[j] # Absent /\ history'[j] # Absent
             /\ history'[j].total = history[j].total
             /\ history'[j].taken = history[j].taken
             /\ history'[j].deadline = history[j].deadline
             /\ history'[j].fate # "revoked" /\ history[j].fate # "revoked"
  <2>1. /\ j \in Ids /\ entries[j] # Absent /\ history[j] # Absent
        /\ history[j] \in Life /\ history[j].fate = "live"
    BY DEF Expired, IInv, TypeOK, Sound
  <2> DEFINE h == Ended(history[j], "expired", at[j], j \notin noted)
  <2>2. "expired" \in Reasons /\ (j \notin noted) \in BOOLEAN /\ at[j] \in Nat
    <3>1. at[j] \in clock..now /\ clock \in Nat
      BY DEF IInv, TypeOK
    <3>2. QED
      BY <3>1 DEF Reasons
  <2>3. /\ h \in Life
        /\ h = [total |-> history[j].total, taken |-> history[j].taken,
                deadline |-> history[j].deadline, fate |-> "expired",
                died |-> at[j], dropped |-> j \notin noted]
    BY <2>1, <2>2, EndedLife
  <2>4. history'[j] = h
    BY <1>1, <2>1
  <2> HIDE DEF h
  <2>5. QED
    BY <2>1, <2>3, <2>4, AbsentAssumption
<1> HIDE DEF dead
<1>5. \A j \in Ids : j \notin dead => history'[j] = history[j]
  BY <1>1
<1>6. [j \in Ids |-> AbstractSecret(j)]' = [j \in Ids |-> AbstractSecret(j)]
  BY <1>4, <1>5, SameSecrets
<1>7. ASSUME NEW j \in Ids, history[j] # Absent
      PROVE  /\ history'[j] # Absent
             /\ entries[j] = Absent =>
                  entries'[j] = Absent /\ (tombs'[j] = tombs[j] \/ tombs'[j] = Absent)
  <2>1. CASE j \in dead
    BY <1>4, <2>1
  <2>2. CASE j \notin dead
    BY <1>1, <1>2, <1>7, <2>2
  <2>3. QED
    BY <2>1, <2>2
<1>8. Abstract!MayForget
  BY <1>3, <1>7, Forgetting
<1>9. QED
  BY <1>2, <1>3, <1>6, <1>8 DEF Abstract!Elapse

(* Time passing is time passing.                                           *)
LEMMA TickMaps == IInv /\ IInv' /\ Tick => Abstract!Elapse
<1> SUFFICES ASSUME IInv, IInv', Tick PROVE Abstract!Elapse
  OBVIOUS
<1>1. clock' >= clock
  BY DEF Tick, IInv, TypeOK
<1>2. [j \in Ids |-> AbstractSecret(j)]' = [j \in Ids |-> AbstractSecret(j)]
  BY SameSecrets DEF Tick
<1>3. Abstract!MayForget
  BY <1>1, Forgetting DEF Tick
<1>4. QED
  BY <1>1, <1>2, <1>3 DEF Tick, Abstract!Elapse

(* The empty store is the empty promise.                                   *)
LEMMA InitMaps == Init => Abstract!Init
<1> SUFFICES ASSUME Init PROVE Abstract!Init
  OBVIOUS
<1>1. [id \in Ids |-> AbstractSecret(id)] = [id \in Ids |-> Absent]
  BY DEF Init, AbstractSecret
<1>2. AbstractForgotten = {}
  BY DEF Init, AbstractForgotten
<1>3. QED
  BY <1>1, <1>2 DEF Init, Abstract!Init

(* Every step of the store is a step of the promise, or a stutter.         *)
LEMMA NextMaps == IInv /\ IInv' /\ [Next]_storeVars => [Abstract!Next]_(Abstract!vars)
<1> SUFFICES ASSUME IInv, IInv', [Next]_storeVars
             PROVE  [Abstract!Next]_(Abstract!vars)
  OBVIOUS
<1>1. ASSUME NEW id \in Ids, Put(id) PROVE Abstract!Next
  BY <1>1, PutFullMaps, PutOkMaps DEF Put, Abstract!Next
<1>2. ASSUME NEW id \in Ids, NEW op \in {"take", "peek", "revoke"}, Miss(op, id)
      PROVE  Abstract!Next
  BY <1>2, MissMaps DEF Abstract!Next
<1>3. ASSUME NEW id \in Ids, Take(id) PROVE Abstract!Next
  BY <1>2, <1>3, TakeMaps DEF Take, Abstract!Next
<1>4. ASSUME NEW id \in Ids, Peek(id) PROVE Abstract!Next
  BY <1>2, <1>4, PeekOkMaps DEF Peek, Abstract!Next
<1>5. ASSUME NEW id \in Ids, Revoke(id) PROVE Abstract!Next
  BY <1>2, <1>5, RevokeMaps DEF Revoke, Abstract!Next
<1>6. CASE Purge \/ Tick
  BY <1>6, PurgeMaps, TickMaps DEF Abstract!Next
<1>7. CASE UNCHANGED storeVars
  <2>1. [j \in Ids |-> AbstractSecret(j)]' = [j \in Ids |-> AbstractSecret(j)]
    BY <1>7, SameSecrets DEF storeVars
  <2>2. AbstractForgotten' = AbstractForgotten
    BY <1>7, SameForgotten DEF storeVars
  <2>3. QED
    BY <1>7, <2>1, <2>2 DEF storeVars, Abstract!vars
<1>8. QED
  BY <1>1, <1>3, <1>4, <1>5, <1>6, <1>7 DEF Next

(* Every behaviour of the store is one of the abstract specification: the   *)
(* tables, lazy expiry, caps and the janitor are invisible, except that     *)
(* they decide when the store forgets.                                      *)
THEOREM Refinement == Spec => ImplementsOneTimeSecret
<1>1. Init => Abstract!Init
  BY InitMaps
<1>2. IInv /\ IInv' /\ [Next]_storeVars => [Abstract!Next]_(Abstract!vars)
  BY NextMaps
<1>3. QED
  BY <1>1, <1>2, Invariance, PTL DEF Spec, ImplementsOneTimeSecret, Abstract!Spec
=============================================================================
