------------------------------ MODULE MCUnwrap ------------------------------
(* Small instances of Unwrap for TLC.                                       *)
EXTENDS Unwrap

CONSTANTS a, b, r1, r2
OneId == {a}
TwoIds == {a, b}
TwoRequests == {r1, r2}
=============================================================================
