--------------------------- MODULE BreakerContract ---------------------------
(***************************************************************************)
(* What both circuit breakers of the library promise to the code that      *)
(* calls them: which calls may be let through in which phase, and what may *)
(* move the breaker from one phase to another.  It keeps no counters; it   *)
(* says nothing of how many failures or successes are needed.              *)
(* ResilienceBreaker (resilience/circuit_breaker.go) and HttpBreaker       *)
(* (http/circuit_breaker.go) each implement it.                            *)
(***************************************************************************)

CONSTANT Callers        \* the goroutines that make calls through the breaker

VARIABLES
    phase,              \* "closed", "open" or "halfOpen"
    rested,             \* open for the whole configured timeout
    live                \* callers let through whose call has no outcome yet

contractVars == <<phase, rested, live>>

ContractTypeOK ==
    /\ phase \in {"closed", "open", "halfOpen"}
    /\ rested \in BOOLEAN
    /\ live \in SUBSET Callers

ContractInit ==
    /\ phase = "closed"
    /\ rested = FALSE
    /\ live = {}

(* A call is let through without a change of phase: never while open. *)
Admit(c) ==
    /\ c \notin live
    /\ phase # "open"
    /\ live' = live \cup {c}
    /\ UNCHANGED <<phase, rested>>

(* The first call after the timeout is the one that half-opens the breaker. *)
Probe(c) ==
    /\ c \notin live
    /\ phase = "open"
    /\ rested
    /\ phase' = "halfOpen"
    /\ rested' = FALSE
    /\ live' = live \cup {c}

(* A call ends, with a result or without one, and nothing else happens. *)
Settle(c) ==
    /\ c \in live
    /\ live' = live \ {c}
    /\ UNCHANGED <<phase, rested>>

(* A call ends and trips the breaker, from closed or from half-open. *)
Trip(c) ==
    /\ c \in live
    /\ phase # "open"
    /\ phase' = "open"
    /\ rested' = FALSE
    /\ live' = live \ {c}

(* A call ends and closes the breaker; only a half-open breaker closes. *)
Close(c) ==
    /\ c \in live
    /\ phase = "halfOpen"
    /\ phase' = "closed"
    /\ live' = live \ {c}
    /\ UNCHANGED rested

(* The timeout of an open breaker runs out. *)
Rest ==
    /\ phase = "open"
    /\ rested' = TRUE
    /\ UNCHANGED <<phase, live>>

(* The operator's way out of any phase. *)
ForceClose ==
    /\ phase' = "closed"
    /\ rested' = FALSE
    /\ UNCHANGED live

ContractNext ==
    \/ Rest
    \/ ForceClose
    \/ \E c \in Callers : Admit(c) \/ Probe(c) \/ Settle(c) \/ Trip(c) \/ Close(c)

ContractSpec == ContractInit /\ [][ContractNext]_contractVars

==============================================================================
