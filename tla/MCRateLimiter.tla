---------------------------- MODULE MCRateLimiter ----------------------------
(* An instance of RateLimiter for TLC. *)
EXTENDS RateLimiter

CONSTANTS t1, t2, k1, k2

\* The token endpoint's limit is the tighter one (10 against 100 in the code).
Tighter == [k \in Keys |-> IF k = k1 THEN 1 ELSE 2]
=============================================================================
