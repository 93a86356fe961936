--------------------------- MODULE MCRequestGate ---------------------------
(* Small instances of RequestGate for TLC.                                  *)
EXTENDS RequestGate

CONSTANTS ip1, ip2, r1, r2, r3
OneIP == {ip1}
TwoIPs == {ip1, ip2}
OneRequest == {r1}
TwoRequests == {r1, r2}
ThreeRequests == {r1, r2, r3}
=============================================================================
