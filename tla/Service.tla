-------------------------------- MODULE Service --------------------------------
(***************************************************************************)
(* A service as its process lives: the replicas of ServiceLifecycle and    *)
(* the calls and queries that the handlers of the first of them make while *)
(* it serves.                                                              *)
(*                                                                         *)
(* What the handlers do is its load: one family of calls, or queries of a  *)
(* container that others write to.  Further replicas and restarts belong   *)
(* to the load "startup", probes to the load "probes": they share no state *)
(* with a handler's call, or with each other.                              *)
(***************************************************************************)
EXTENDS CosmosQuery, ServiceLifecycle

CONSTANTS
    Home,       \* the replica whose handlers make the calls
    Loads       \* see LoadOps

ASSUME ServiceAssumption ==
    /\ Home \in Replicas
    /\ Loads \subseteq {"startup", "probes", "redis", "lists", "cosmos", "sql",
                       "driver", "services", "queries"}

VARIABLE load

vars == <<dataVars, queryVars, lifeVars, load>>

LoadOps(l) ==
    CASE l = "redis" -> DOMAIN RedisPrograms
      [] l = "lists" -> DOMAIN ListPrograms
      [] l = "cosmos" -> DOMAIN CosmosPrograms
      [] l = "sql" -> DOMAIN SQLPrograms
      [] l = "driver" -> DriverOps
      [] l = "services" -> ServiceOps
      [] l \in {"queries", "startup", "probes"} -> {}

(* The databases of Connections that a load asks for.  Redis clients are   *)
(* made with NewRedisClient directly.                                      *)
LoadNeeds(l) ==
    CASE l = "sql" -> {"sql"}
      [] l \in {"cosmos", "queries"} -> {"cosmos"}
      [] OTHER -> {}

Init ==
    /\ DataInit /\ QueryInit /\ LifeInit
    /\ load \in Loads
    /\ load # "startup" =>
            wanted = [r \in Replicas |-> LoadNeeds(load)]
    /\ docs \in IF load = "queries" THEN SUBSET Docs
                ELSE IF load = "cosmos" THEN SUBSET {Doc} ELSE {{}}

(* Handlers run on while the server drains, and after a Shutdown that has  *)
(* timed out, when the clients of Connections may be closed under them: a  *)
(* command is then turned away, unless its connection was in use.          *)
ClosedUnder(c) == phase[Home] = "closed" /\ call[c].op \in DOMAIN SQLPrograms

Handlers ==
    \/ phase[Home] = "serving" /\ Call(LoadOps(load))
    \/ Work
    \/ \E c \in Clients :
          /\ ClosedUnder(c)
          /\ TurnedAway(c, "closed") \/ FnReturns(c, "closed")

Queries ==
    /\ load = "queries"
    /\ phase[Home] = "serving"
    /\ QuerySteps

(* Shutdown waits for the handlers, and no longer than its timeout. *)
Next ==
    \/ /\ Handlers
       /\ UNCHANGED <<queryVars, lifeVars, load>>
    \/ /\ Queries
       /\ UNCHANGED <<lifeVars, load>>
    \/ /\ \E r \in IF load = "startup" THEN Replicas ELSE {Home} :
             LifeSteps(r) \/ Drained(r)
       /\ UNCHANGED <<dataVars, queryVars, load>>
    \/ /\ load = "startup"
       /\ \E r \in Replicas : Restart(r)
       /\ UNCHANGED <<dataVars, queryVars, load>>
    \/ /\ load = "probes"
       /\ ProbeSteps(Home)
       /\ UNCHANGED <<dataVars, queryVars, load>>

Spec == Init /\ [][Next]_vars

================================================================================
