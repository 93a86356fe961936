---------------------------- MODULE SecretStore ----------------------------
(***************************************************************************)
(* The in-memory secret table of internal/store: entries addressed by       *)
(* lookup ID, burnt on their last read, revoked or expired, and the         *)
(* tombstones ("tamper evidence") they leave behind.                        *)
(*                                                                         *)
(* Every exported method of Store runs under one sync.Mutex, so each is one *)
(* atomic action.  The clock is read more than once inside such a critical  *)
(* section, first by liveLocked or purge and then by each tombLocked: the   *)
(* later readings may be up to Lag later than the first.  A lookup ID is    *)
(* the hash of 32 fresh random bytes, so Put never sees the same ID twice.  *)
(*                                                                         *)
(* The ciphertext carried by an entry is left to module Unwrap.             *)
(***************************************************************************)
EXTENDS Integers, FiniteSets

CONSTANTS
  Ids,            \* lookup IDs that may be issued
  MaxSecrets,     \* Limits.MaxSecrets
  MaxTombstones,  \* Limits.MaxTombstones
  Floor,          \* the 24h floor of a tombstone's life
  TTLs,           \* the lifetimes that Put is called with
  ReadCounts,     \* the numbers of reads that Put is called with
  Lag,            \* how far the clock may move inside one critical section
  MaxClock,       \* bound of the model: time stops here, and no secret outlives it
  Absent          \* "no such key" in a Go map

Reasons == {"consumed", "expired", "revoked"}
Ops == {"put", "take", "peek", "revoke"}
Outcomes == Reasons \cup {"ok", "full", "not_found"}

Entry == [remaining : Nat, total : Nat, expiresAt : Nat]
Tombstone == [reason : Reasons, at : Nat, expiresAt : Nat]
Reply == [op : Ops, id : Ids, outcome : Outcomes]

(* What an observer of the table knows of an issued secret: the reads that  *)
(* were asked for and granted, and how and when its entry left the table.   *)
Life == [total : Nat, taken : Nat, deadline : Nat,
         fate : Reasons \cup {"live"}, died : Nat, dropped : BOOLEAN]

(* What module OneTimeSecret keeps of a secret.                            *)
Promise == [left : Nat, deadline : Nat, revoked : BOOLEAN]

ASSUME IdsAssumption == IsFiniteSet(Ids)
ASSUME LimitsAssumption == MaxSecrets \in Nat \ {0} /\ MaxTombstones \in Nat \ {0}
ASSUME TimeAssumption ==
  Floor \in Nat \ {0} /\ TTLs \subseteq Nat \ {0} /\ Lag \in Nat /\ MaxClock \in Nat
ASSUME ReadsAssumption == ReadCounts \subseteq Nat \ {0}
ASSUME AbsentAssumption ==
  Absent \notin Entry \cup Tombstone \cup Reply \cup Life \cup Promise

VARIABLES
  clock,    \* what Store.now returns
  entries,  \* Store.entries, Absent where the map has no key
  tombs,    \* Store.tombs, likewise
  reply,    \* what the last method call returned; Absent after a step that is no call
  history   \* history variable: the Life of each issued secret

storeVars == <<clock, entries, tombs, reply, history>>

----------------------------------------------------------------------------
(* State functions.                                                        *)

Max2(a, b) == IF a >= b THEN a ELSE b

EntryIds == {id \in Ids : entries[id] # Absent}
TombIds == {id \in Ids : tombs[id] # Absent}

(* Fault: an entry is still live at the instant of its deadline.            *)
LiveAtDeadline(id) == entries[id] # Absent /\ clock <= entries[id].expiresAt

Live(id) == entries[id] # Absent /\ clock < entries[id].expiresAt
Expired(id) == entries[id] # Absent /\ clock >= entries[id].expiresAt
TombStanding(id) == tombs[id] # Absent /\ clock < tombs[id].expiresAt

(* A later clock reading of a critical section.                            *)
Readings == {t \in clock..(clock + Lag) : t <= MaxClock}

(* Fault: the floor replaces the deadline instead of extending it.          *)
NewTombFloorOnly(reason, deadline, now) ==
  [reason |-> reason,
   at |-> IF reason = "expired" THEN deadline ELSE now,
   expiresAt |-> now + Floor]

NewTomb(reason, deadline, now) ==
  [reason |-> reason,
   at |-> IF reason = "expired" THEN deadline ELSE now,
   expiresAt |-> Max2(deadline, now + Floor)]

(* Faults: the cap on tombstones is off by one, either way.                 *)
TombLockedOneLess(id, reason, now) ==
  IF Cardinality(TombIds) >= MaxTombstones - 1
    THEN tombs
    ELSE [tombs EXCEPT ![id] = NewTomb(reason, entries[id].expiresAt, now)]

TombLockedOneMore(id, reason, now) ==
  IF Cardinality(TombIds) > MaxTombstones
    THEN tombs
    ELSE [tombs EXCEPT ![id] = NewTomb(reason, entries[id].expiresAt, now)]

(* tombLocked: nothing is recorded once the table of tombstones is full.    *)
TombLocked(id, reason, now) ==
  IF Cardinality(TombIds) >= MaxTombstones
    THEN tombs
    ELSE [tombs EXCEPT ![id] = NewTomb(reason, entries[id].expiresAt, now)]

Answer(op, id, outcome) == reply' = [op |-> op, id |-> id, outcome |-> outcome]

(* What the history records of a read that was granted, and of an entry     *)
(* that leaves the table at time now.                                       *)
Granted(life) == [life EXCEPT !.taken = @ + 1]
TableFull == Cardinality(TombIds) >= MaxTombstones
Ended(life, fate, now, dropped) ==
  [life EXCEPT !.fate = fate, !.died = now, !.dropped = dropped]

----------------------------------------------------------------------------
Init ==
  /\ clock = 0
  /\ entries = [id \in Ids |-> Absent]
  /\ tombs = [id \in Ids |-> Absent]
  /\ reply = Absent
  /\ history = [id \in Ids |-> Absent]

(* Put at the cap: ErrFull.  Expired entries nobody purged yet count.       *)
PutFull(id) ==
  /\ history[id] = Absent
  /\ Cardinality(EntryIds) >= MaxSecrets
  /\ Answer("put", id, "full")
  /\ UNCHANGED <<clock, entries, tombs, history>>

PutOk(id) ==
  /\ history[id] = Absent
  /\ Cardinality(EntryIds) < MaxSecrets
  /\ \E ttl \in TTLs, reads \in ReadCounts :
       /\ clock + ttl <= MaxClock
       /\ entries' = [entries EXCEPT ![id] =
            [remaining |-> reads, total |-> reads, expiresAt |-> clock + ttl]]
       /\ history' = [history EXCEPT ![id] =
            [total |-> reads, taken |-> 0, deadline |-> clock + ttl,
             fate |-> "live", died |-> 0, dropped |-> FALSE]]
  /\ Answer("put", id, "ok")
  /\ UNCHANGED <<clock, tombs>>

Put(id) == PutFull(id) \/ PutOk(id)

(* liveLocked on a key that is not live, for the caller op: lazy expiry     *)
(* first, then the tombstone, fresh or old.                                 *)
ExpireLazily(op, id) ==
  /\ Expired(id)
  /\ \E now \in Readings :
       /\ clock' = now
       /\ tombs' = TombLocked(id, "expired", now)
       /\ history' = [history EXCEPT ![id] = Ended(@, "expired", now, TableFull)]
  /\ entries' = [entries EXCEPT ![id] = Absent]
  /\ Answer(op, id, IF tombs'[id] = Absent THEN "not_found" ELSE tombs'[id].reason)

AnswerGone(op, id) ==
  /\ entries[id] = Absent
  /\ TombStanding(id)
  /\ Answer(op, id, tombs[id].reason)
  /\ UNCHANGED <<clock, entries, tombs, history>>

ForgetTomb(op, id) ==
  /\ entries[id] = Absent
  /\ tombs[id] # Absent /\ ~TombStanding(id)
  /\ tombs' = [tombs EXCEPT ![id] = Absent]
  /\ Answer(op, id, "not_found")
  /\ UNCHANGED <<clock, entries, history>>

NeverSeen(op, id) ==
  /\ entries[id] = Absent
  /\ tombs[id] = Absent
  /\ Answer(op, id, "not_found")
  /\ UNCHANGED <<clock, entries, tombs, history>>

Miss(op, id) ==
  \/ ExpireLazily(op, id)
  \/ AnswerGone(op, id)
  \/ ForgetTomb(op, id)
  \/ NeverSeen(op, id)

(* Faults: a read is granted without asking whether it is the last, or the  *)
(* last read is told from the others one too late.                          *)
TakeOneUnguarded(id) ==
  /\ Live(id)
  /\ entries' = [entries EXCEPT ![id].remaining = @ - 1]
  /\ history' = [history EXCEPT ![id] = Granted(@)]
  /\ Answer("take", id, "ok")
  /\ UNCHANGED <<clock, tombs>>

TakeOneTooLate(id) ==
  /\ Live(id)
  /\ entries[id].remaining - 1 >= 0
  /\ entries' = [entries EXCEPT ![id].remaining = @ - 1]
  /\ history' = [history EXCEPT ![id] = Granted(@)]
  /\ Answer("take", id, "ok")
  /\ UNCHANGED <<clock, tombs>>

(* Take: one read is granted; the last one burns the entry.                *)
TakeOne(id) ==
  /\ Live(id)
  /\ entries[id].remaining - 1 > 0
  /\ entries' = [entries EXCEPT ![id].remaining = @ - 1]
  /\ history' = [history EXCEPT ![id] = Granted(@)]
  /\ Answer("take", id, "ok")
  /\ UNCHANGED <<clock, tombs>>

TakeLast(id) ==
  /\ Live(id)
  /\ entries[id].remaining - 1 <= 0
  /\ \E now \in Readings :
       /\ clock' = now
       /\ tombs' = TombLocked(id, "consumed", now)
       /\ history' = [history EXCEPT ![id] =
            Ended(Granted(@), "consumed", now, TableFull)]
  /\ entries' = [entries EXCEPT ![id] = Absent]
  /\ Answer("take", id, "ok")

Take(id) == TakeOne(id) \/ TakeLast(id) \/ Miss("take", id)

PeekOk(id) ==
  /\ Live(id)
  /\ Answer("peek", id, "ok")
  /\ UNCHANGED <<clock, entries, tombs, history>>

Peek(id) == PeekOk(id) \/ Miss("peek", id)

RevokeOk(id) ==
  /\ Live(id)
  /\ \E now \in Readings :
       /\ clock' = now
       /\ tombs' = TombLocked(id, "revoked", now)
       /\ history' = [history EXCEPT ![id] = Ended(@, "revoked", now, TableFull)]
  /\ entries' = [entries EXCEPT ![id] = Absent]
  /\ Answer("revoke", id, "ok")

Revoke(id) == RevokeOk(id) \/ Miss("revoke", id)

(* Faults: a purge that sweeps only tombstones, or only entries.            *)
PurgeTombsOnly ==
  /\ tombs' = [id \in Ids |-> IF TombStanding(id) THEN tombs[id] ELSE Absent]
  /\ reply' = Absent
  /\ UNCHANGED <<clock, entries, history>>

PurgeEntriesOnly ==
  LET dead == {id \in Ids : Expired(id)} IN
  /\ \E noted \in SUBSET dead :
       /\ Cardinality(TombIds) + Cardinality(noted) <= MaxTombstones
       /\ noted = dead \/ Cardinality(TombIds) + Cardinality(noted) = MaxTombstones
       /\ tombs' = [id \in Ids |->
            IF id \in noted THEN NewTomb("expired", entries[id].expiresAt, clock)
            ELSE tombs[id]]
       /\ history' = [id \in Ids |->
            IF id \in dead THEN Ended(history[id], "expired", clock, id \notin noted)
            ELSE history[id]]
  /\ entries' = [id \in Ids |-> IF id \in dead THEN Absent ELSE entries[id]]
  /\ reply' = Absent
  /\ UNCHANGED clock

(* purge: every expired entry leaves, in map order and each at a time of    *)
(* its own, and leaves a tombstone while there is room; only then are the   *)
(* expired tombstones deleted.                                              *)
Purge ==
  LET dead == {id \in Ids : Expired(id)} IN
  /\ \E now \in Readings : \E noted \in SUBSET dead, at \in [dead -> clock..now] :
       /\ Cardinality(TombIds) + Cardinality(noted) <= MaxTombstones
       /\ noted = dead \/ Cardinality(TombIds) + Cardinality(noted) = MaxTombstones
       /\ clock' = now
       /\ tombs' = [id \in Ids |->
            IF id \in noted THEN NewTomb("expired", entries[id].expiresAt, at[id])
            ELSE IF TombStanding(id) THEN tombs[id] ELSE Absent]
       /\ history' = [id \in Ids |->
            IF id \in dead THEN Ended(history[id], "expired", at[id], id \notin noted)
            ELSE history[id]]
  /\ entries' = [id \in Ids |-> IF id \in dead THEN Absent ELSE entries[id]]
  /\ reply' = Absent

Tick ==
  /\ clock < MaxClock
  /\ clock' = clock + 1
  /\ reply' = Absent
  /\ UNCHANGED <<entries, tombs, history>>

Next ==
  \/ \E id \in Ids : Put(id) \/ Take(id) \/ Peek(id) \/ Revoke(id)
  \/ Purge
  \/ Tick

Spec == Init /\ [][Next]_storeVars

(* The janitor's ticker keeps firing and time keeps passing; no request is  *)
(* ever owed to the server.                                                 *)
FairSpec == Spec /\ WF_storeVars(Purge) /\ WF_storeVars(Tick)

----------------------------------------------------------------------------
(* Properties.                                                             *)

(* The state is well formed: what the maps hold, and what a call returned.  *)
TypeOK ==
  /\ clock \in Nat
  /\ entries \in [Ids -> Entry \cup {Absent}]
  /\ tombs \in [Ids -> Tombstone \cup {Absent}]
  /\ reply \in Reply \cup {Absent}
  /\ history \in [Ids -> Life \cup {Absent}]

(* Limits bound the memory: neither table ever outgrows its cap, not when a *)
(* purge moves many expired entries to the tombstones at once.              *)
Bounded ==
  /\ Cardinality(EntryIds) <= MaxSecrets
  /\ Cardinality(TombIds) <= MaxTombstones

(* Take grants exactly the reads that Put was asked for: what is left in    *)
(* the entry and what was granted add up, an entry with no read left is not *)
(* in the table, and a secret is called consumed exactly when all its reads *)
(* were granted.                                                            *)
ReadBudget ==
  \A id \in Ids : history[id] # Absent =>
    LET life == history[id] IN
    /\ life.taken <= life.total
    /\ entries[id] # Absent <=> life.fate = "live"
    /\ entries[id] # Absent => /\ entries[id].remaining > 0
                               /\ entries[id].remaining + life.taken = life.total
    /\ life.fate = "consumed" <=> life.taken = life.total

(* A tombstone tells the truth: it stands for a secret whose entry left the *)
(* table in the way and at the time it names, whatever path (request, lazy  *)
(* expiry, janitor) removed it, and it is to be kept until the secret's own *)
(* deadline and at least Floor after the end.                               *)
Retention(life) == Max2(life.deadline, life.died + Floor)

EvidenceTruthful ==
  \A id \in Ids : tombs[id] # Absent =>
    /\ history[id] # Absent
    /\ entries[id] = Absent
    /\ tombs[id].reason = history[id].fate
    /\ tombs[id].at = IF history[id].fate = "expired" THEN history[id].deadline
                                                      ELSE history[id].died
    /\ tombs[id].expiresAt = Retention(history[id])

(* Evidence lasts: the tombstone of a secret that is gone stays in the      *)
(* table for its whole retention unless the table was full when it died.    *)
EvidenceRetained ==
  \A id \in Ids :
    (/\ history[id] # Absent
     /\ history[id].fate # "live"
     /\ ~history[id].dropped
     /\ clock < Retention(history[id]))
    => tombs[id] # Absent

(* Limits calls MaxSecrets "max live entries" (store.go), and liveLocked and *)
(* the janitor say that correctness never depends on the janitor's timing:  *)
(* Put is refused only when MaxSecrets secrets can be read.                  *)
FullOnlyOfLive ==
  reply # Absent /\ reply.outcome = "full" =>
    Cardinality({id \in Ids : Live(id)}) >= MaxSecrets

(* The janitor reclaims memory: an entry does not stay in the table for     *)
(* ever, even if nobody ever asks for it, and a tombstone past its          *)
(* retention is deleted.                                                    *)
EntriesReclaimed == \A id \in Ids : entries[id] # Absent ~> entries[id] = Absent
TombsReclaimed ==
  \A id \in Ids :
    (tombs[id] # Absent /\ ~TombStanding(id)) ~> tombs[id] = Absent

----------------------------------------------------------------------------
(* What the table promises, without entries, tombstones or a janitor: see   *)
(* module OneTimeSecret.                                                    *)

AbstractSecret(id) ==
  IF history[id] = Absent THEN Absent
  ELSE [left |-> history[id].total - history[id].taken,
        deadline |-> history[id].deadline,
        revoked |-> history[id].fate = "revoked"]

AbstractForgotten ==
  {id \in Ids : history[id] # Absent /\ entries[id] = Absent /\ ~TombStanding(id)}

Abstract == INSTANCE OneTimeSecret WITH
  now <- clock,
  secret <- [id \in Ids |-> AbstractSecret(id)],
  forgotten <- AbstractForgotten,
  answer <- reply

(* Whatever the order of requests, lazy expiry and janitor runs, the        *)
(* answers the store gives are those of the abstract specification.         *)
ImplementsOneTimeSecret == Abstract!Spec
=============================================================================
