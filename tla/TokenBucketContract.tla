------------------------- MODULE TokenBucketContract -------------------------
(***************************************************************************)
(* What a rate limiter promises for one key: a single bucket of Burst      *)
(* tokens, refilled at a steady rate; a request is allowed if and only if  *)
(* there is a token for it.  A tick is the time one token takes to refill. *)
(***************************************************************************)
EXTENDS Integers

CONSTANTS Requests, Burst

VARIABLES
    level,      \* tokens in the one bucket
    verdict     \* what each request under way was told

contractVars == <<level, verdict>>

ContractInit ==
    /\ level = Burst
    /\ verdict = [r \in Requests |-> "none"]

Grant(r) ==
    /\ verdict[r] = "none"
    /\ level >= 1
    /\ level' = level - 1
    /\ verdict' = [verdict EXCEPT ![r] = "allowed"]

Deny(r) ==
    /\ verdict[r] = "none"
    /\ level < 1
    /\ verdict' = [verdict EXCEPT ![r] = "denied"]
    /\ UNCHANGED level

Finish(r) ==
    /\ verdict[r] # "none"
    /\ verdict' = [verdict EXCEPT ![r] = "none"]
    /\ UNCHANGED level

Refill ==
    /\ level < Burst
    /\ level' = level + 1
    /\ UNCHANGED verdict

ContractNext == Refill \/ \E r \in Requests : Grant(r) \/ Deny(r) \/ Finish(r)

ContractSpec == ContractInit /\ [][ContractNext]_contractVars

==============================================================================
