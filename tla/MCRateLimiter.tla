---------------------------- MODULE MCRateLimiter ----------------------------
(* Model values for the run of RateLimiter. *)
EXTENDS RateLimiter

CONSTANTS r1, r2, r3, b1, b2, b3, none
==============================================================================
