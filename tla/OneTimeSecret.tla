--------------------------- MODULE OneTimeSecret ---------------------------
(***************************************************************************)
(* What a store of one-time secrets promises to its callers.  A secret is   *)
(* issued with a number of reads and a deadline.  It can be read exactly    *)
(* that often, before the deadline and unless it was revoked.  From then on *)
(* every request for it is answered with the one true reason it is gone,    *)
(* until the store forgets it; once forgotten it is "not found" for ever.   *)
(*                                                                         *)
(* No entry, tombstone, cap or janitor appears here: the state of a secret  *)
(* is a function of its issue, of the reads that were granted, of its       *)
(* revocation and of the time.                                              *)
(***************************************************************************)
EXTENDS Integers

CONSTANTS Ids, TTLs, ReadCounts, Absent

VARIABLES
  now,        \* the time
  secret,     \* Absent until issued, then [left, deadline, revoked]
  forgotten,  \* the secrets the store remembers nothing about any more
  answer      \* the answer to the last request; Absent after other steps

vars == <<now, secret, forgotten, answer>>

Fate(id) ==
  CASE secret[id].left = 0 -> "consumed"
    [] secret[id].left # 0 /\ secret[id].revoked -> "revoked"
    [] secret[id].left # 0 /\ ~secret[id].revoked /\ now >= secret[id].deadline -> "expired"
    [] OTHER -> "live"

Issued(id) == secret[id] # Absent
Readable(id) == Issued(id) /\ Fate(id) = "live"
Over(id) == Issued(id) /\ Fate(id) # "live"

(* Forgetting is monotone and never touches a secret that can be read.      *)
MayForget ==
  /\ forgotten \subseteq forgotten'
  /\ \A id \in forgotten' \ forgotten : id \in Ids /\ Over(id)'

Reply(op, id, outcome) == answer' = [op |-> op, id |-> id, outcome |-> outcome]

Init ==
  /\ now = 0
  /\ secret = [id \in Ids |-> Absent]
  /\ forgotten = {}
  /\ answer = Absent

Issue(id) ==
  /\ ~Issued(id)
  /\ \E ttl \in TTLs, reads \in ReadCounts :
       secret' = [secret EXCEPT ![id] =
         [left |-> reads, deadline |-> now + ttl, revoked |-> FALSE]]
  /\ Reply("put", id, "ok")
  /\ UNCHANGED <<now, forgotten>>

Refuse(id) ==
  /\ ~Issued(id)
  /\ Reply("put", id, "full")
  /\ UNCHANGED <<now, secret, forgotten>>

Read(id) ==
  /\ Readable(id)
  /\ secret' = [secret EXCEPT ![id].left = @ - 1]
  /\ Reply("take", id, "ok")
  /\ now' >= now
  /\ MayForget

Look(id) ==
  /\ Readable(id)
  /\ Reply("peek", id, "ok")
  /\ UNCHANGED <<now, secret, forgotten>>

Withdraw(id) ==
  /\ Readable(id)
  /\ secret' = [secret EXCEPT ![id].revoked = TRUE]
  /\ Reply("revoke", id, "ok")
  /\ now' >= now
  /\ MayForget

Deny(op, id) ==
  /\ ~Readable(id)
  /\ MayForget
  /\ Reply(op, id, IF ~Issued(id) \/ id \in forgotten' THEN "not_found" ELSE Fate(id))
  /\ now' >= now
  /\ UNCHANGED secret

Elapse ==
  /\ now' >= now
  /\ MayForget
  /\ answer' = Absent
  /\ UNCHANGED secret

Next ==
  \/ \E id \in Ids : Issue(id) \/ Refuse(id) \/ Read(id) \/ Look(id) \/ Withdraw(id)
  \/ \E id \in Ids, op \in {"take", "peek", "revoke"} : Deny(op, id)
  \/ Elapse

Spec == Init /\ [][Next]_vars
=============================================================================
