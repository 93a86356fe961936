--------------------------- MODULE MCRateLimiter ---------------------------
(* Small instances of RateLimiter for TLC.                                  *)
EXTENDS RateLimiter

CONSTANTS ip1, ip2
TwoKeys == {ip1, ip2}
=============================================================================
