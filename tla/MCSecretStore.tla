--------------------------- MODULE MCSecretStore ---------------------------
(* Small instances of SecretStore for TLC.                                  *)
EXTENDS SecretStore, TLC

CONSTANTS a, b, c
ThreeIds == {a, b, c}
TwoIds == {a, b}

(* Lookup IDs are random and only compared for equality.  Used only where   *)
(* invariants alone are checked.                                            *)
Symmetry == Permutations(ThreeIds)
=============================================================================
