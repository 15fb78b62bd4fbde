----------------------------- MODULE MCRedisLock -----------------------------
(* Model values for the run of RedisLock. *)
EXTENDS RedisLock

CONSTANTS c1, c2, v1, v2, v3, v4, none
==============================================================================
