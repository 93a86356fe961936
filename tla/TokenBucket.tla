---------------------------- MODULE TokenBucket ----------------------------
(***************************************************************************)
(* A token bucket per key as one would define it: every key has a level at  *)
(* all times, the level grows with time up to Burst, and a request takes    *)
(* Cost from it.  No key is ever created, refilled or collected.            *)
(*                                                                         *)
(* Levels are measured in the time it takes to earn them.                   *)
(***************************************************************************)
EXTENDS Integers

CONSTANTS Keys, Burst, Cost, None

VARIABLES
  level,   \* the balance of each key
  verdict  \* the answer to the last call; None after other steps

vars == <<level, verdict>>

Min2(a, b) == IF a <= b THEN a ELSE b

Init ==
  /\ level = [k \in Keys |-> Burst]
  /\ verdict = None

(* A gated request: it passes if a whole request has been earned.           *)
Gate(k) ==
  /\ verdict' = [key |-> k, ok |-> level[k] >= Cost]
  /\ level' = IF level[k] >= Cost THEN [level EXCEPT ![k] = @ - Cost] ELSE level

(* A charge after the fact, which may leave a debt.                        *)
Charge(k) ==
  /\ level' = [level EXCEPT ![k] = @ - Cost]
  /\ verdict' = None

(* Is the key out of debt?                                                 *)
Solvent(k) ==
  /\ verdict' = [key |-> k, ok |-> level[k] >= 0]
  /\ UNCHANGED level

Earn ==
  /\ level' = [k \in Keys |-> Min2(Burst, level[k] + 1)]
  /\ verdict' = None

Next == (\E k \in Keys : Gate(k) \/ Charge(k) \/ Solvent(k)) \/ Earn

Spec == Init /\ [][Next]_vars
=============================================================================
