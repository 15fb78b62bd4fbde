--------------------------- MODULE ServiceLifecycle ---------------------------
(***************************************************************************)
(* The life of a service, replica by replica: bootstrap/service.go and     *)
(* database/connections.go connect it to its databases, cosmosdb/init.go   *)
(* creates the containers, http/server.go serves and shuts down, and       *)
(* health/checker.go answers its probes.                                   *)
(*                                                                         *)
(* The replicas share the Cosmos account.  A replica that fails, or has    *)
(* stopped, may be started again as long as Restarts allows.               *)
(***************************************************************************)
EXTENDS Integers, Sequences, FiniteSets

CONSTANTS
    Replicas,
    ConnectRetries,     \* config.MaxRetries of the connections
    Containers,         \* what the initializer creates, first to last
    ChecksCritical,     \* Critical of each check, in the order of AddCheck
    Restarts            \* a replica is started again at most so often

ASSUME LifecycleAssumption ==
    /\ ConnectRetries \in Nat
    /\ Containers \in Seq(STRING)
    /\ ChecksCritical \in Seq(BOOLEAN)
    /\ Restarts \in Nat

VARIABLES
    phase,      \* where each replica is
    wanted,     \* databases its configuration names
    left,       \* attempts it has left for the current database
    conns,      \* databases it has a client for in its Connections
    pools,      \* clients of each database with connections of their own
                \* that this run of the replica made and nobody closed
    next,       \* how many containers its initializer is through with
    started,    \* how often it was started again
    created,    \* containers that exist
    checks,     \* number of checks each replica's Checker knows
    probe       \* the probe of each replica

lifeVars == <<phase, wanted, left, conns, pools, next, started, created,
              checks, probe>>

Databases == {"sql", "cosmos", "redis"}

NoProbe == [stage |-> "idle", n |-> 0, results |-> <<>>,
            overall |-> "healthy", hasDegraded |-> FALSE]

LifeInit ==
    /\ phase = [r \in Replicas |-> "connecting"]
    /\ wanted \in [Replicas -> SUBSET Databases]
    /\ left = [r \in Replicas |-> ConnectRetries]
    /\ conns = [r \in Replicas |-> {}]
    /\ pools = [r \in Replicas |-> [d \in Databases |-> 0]]
    /\ next = [r \in Replicas |-> 0]
    /\ started = [r \in Replicas |-> 0]
    /\ created = {}
    /\ checks = [r \in Replicas |-> 0]
    /\ probe = [r \in Replicas |-> NoProbe]

Move(r, from, to) ==
    /\ phase[r] = from
    /\ phase' = [phase EXCEPT ![r] = to]

(* NewConnections connects them in this order. *)
Missing(r) == wanted[r] \ conns[r]
Current(r) ==
    IF "sql" \in Missing(r) THEN "sql"
    ELSE IF "cosmos" \in Missing(r) THEN "cosmos" ELSE "redis"

(* A client was made and answered its ping.  A Cosmos client sends nothing *)
(* when it is made, and has nothing to close.                              *)
Connected(r) ==
    /\ phase[r] = "connecting"
    /\ Missing(r) # {}
    /\ Current(r) # "redis"
    /\ conns' = [conns EXCEPT ![r] = @ \cup {Current(r)}]
    /\ pools' = [pools EXCEPT ![r]["sql"] = @ + IF Current(r) = "sql" THEN 1 ELSE 0]
    /\ left' = [left EXCEPT ![r] = ConnectRetries]
    /\ UNCHANGED <<phase, wanted, next, started, created, checks, probe>>

(* Fault of a mutant run: the SQL client is left open like the Redis one. *)
LeakedAlways(d) == IF d \in {"sql", "redis"} THEN 1 ELSE 0

(* NewSQLClient closes a client that does not answer its ping, and         *)
(* NewRedisClient does not.                                                *)
LeakedBy(d) == IF d = "redis" THEN 1 ELSE 0

(* The client cannot be made, or does not answer.  The last of the         *)
(* attempts ends NewConnections, which forgets the clients made before.    *)
(* Redis never answers: NewConnections gives it no port, and the address   *)
(* ends in ":0".                                                           *)
NotConnected(r) ==
    /\ phase[r] = "connecting"
    /\ Missing(r) # {}
    /\ pools' = [pools EXCEPT ![r][Current(r)] = @ + LeakedBy(Current(r))]
    /\ \/ /\ left[r] > 0
          /\ left' = [left EXCEPT ![r] = @ - 1]
          /\ UNCHANGED <<phase, conns>>
       \/ /\ left[r] = 0
          /\ phase' = [phase EXCEPT ![r] = "failed"]
          /\ conns' = [conns EXCEPT ![r] = {}]
          /\ UNCHANGED left
    /\ UNCHANGED <<wanted, next, started, created, checks, probe>>

(* NewConnections returns; a service with a Cosmos client may have its     *)
(* containers created, and registers its checks.                           *)
AllConnected(r) ==
    /\ phase[r] = "connecting"
    /\ Missing(r) = {}
    /\ phase' = [phase EXCEPT ![r] =
                    IF "cosmos" \in conns[r] THEN "initializing" ELSE "serving"]
    /\ UNCHANGED <<wanted, left, conns, pools, next, started, created, checks,
                   probe>>

(* Fault of a mutant run: what exists already ends the initializer. *)
StopsAtConflict(r) ==
    /\ next' = [next EXCEPT ![r] =
                   IF Containers[next[r] + 1] \in created THEN Len(Containers) ELSE @ + 1]
    /\ created' = created \cup {Containers[next[r] + 1]}

(* createContainer, and createDatabase before the first: that it exists    *)
(* already, by another replica or an earlier run, is no error.             *)
CreateContainer(r) ==
    /\ next' = [next EXCEPT ![r] = @ + 1]
    /\ created' = created \cup {Containers[next[r] + 1]}

CreateNext(r) ==
    /\ phase[r] = "initializing"
    /\ next[r] < Len(Containers)
    /\ CreateContainer(r)
    /\ UNCHANGED <<phase, wanted, left, conns, pools, started, checks, probe>>

(* Any other error, a lost reply among them, ends the initializer.         *)
CreateFails(r) ==
    /\ next[r] < Len(Containers)
    /\ Move(r, "initializing", "failed")
    /\ created' \in {created, created \cup {Containers[next[r] + 1]}}
    /\ UNCHANGED <<wanted, left, conns, pools, next, started, checks, probe>>

Initialized(r) ==
    /\ next[r] = Len(Containers)
    /\ Move(r, "initializing", "serving")
    /\ UNCHANGED <<wanted, left, conns, pools, next, started, created, checks,
                   probe>>

(* Server.Run: the context is cancelled, or ListenAndServe fails.          *)
Stop(r) ==
    /\ \/ Move(r, "serving", "draining")
       \/ Move(r, "serving", "stopped")
    /\ UNCHANGED <<wanted, left, conns, pools, next, started, created, checks,
                   probe>>

(* Shutdown returns when the handlers are done, or at its timeout. *)
Drained(r) ==
    /\ Move(r, "draining", "stopped")
    /\ UNCHANGED <<wanted, left, conns, pools, next, started, created, checks,
                   probe>>

(* Connections.Close closes the clients it has; Cosmos needs none.         *)
CloseClients(r) ==
    [d \in Databases |-> pools[r][d] - IF d \in conns[r] \ {"cosmos"} THEN 1 ELSE 0]

Close(r) ==
    /\ Move(r, "stopped", "closed")
    /\ pools' = [pools EXCEPT ![r] = CloseClients(r)]
    /\ UNCHANGED <<wanted, left, conns, next, started, created, checks, probe>>

(* The process dies, in whatever it is doing, and with it what it holds;   *)
(* or MustInitialize panics over a failed start.  It is started again.     *)
Restart(r) ==
    /\ started[r] < Restarts
    /\ started' = [started EXCEPT ![r] = @ + 1]
    /\ phase' = [phase EXCEPT ![r] = "connecting"]
    /\ left' = [left EXCEPT ![r] = ConnectRetries]
    /\ conns' = [conns EXCEPT ![r] = {}]
    /\ pools' = [pools EXCEPT ![r] = [d \in Databases |-> 0]]
    /\ next' = [next EXCEPT ![r] = 0]
    /\ checks' = [checks EXCEPT ![r] = 0]
    /\ probe' = [probe EXCEPT ![r] = NoProbe]
    /\ UNCHANGED <<wanted, created>>

------------------------------------------------------------------------------
(* Checker.AddCheck, while probes may be running. *)
AddCheck(r) ==
    /\ phase[r] = "serving"
    /\ checks[r] < Len(ChecksCritical)
    /\ checks' = [checks EXCEPT ![r] = @ + 1]
    /\ UNCHANGED <<phase, wanted, left, conns, pools, next, started, created,
                   probe>>

Probed(r) == UNCHANGED <<phase, wanted, left, conns, pools, next, started, created,
                         checks>>

(* Check takes the checks there are, and starts a goroutine for each. *)
StartProbe(r) ==
    /\ phase[r] = "serving"
    /\ probe[r].stage # "running"
    /\ probe' = [probe EXCEPT ![r] =
            [NoProbe EXCEPT !.stage = "running", !.n = checks[r],
                            !.results = [i \in 1..checks[r] |-> "running"]]]
    /\ Probed(r)

(* A check succeeds, fails, or is ended by its timeout, whatever it asks:  *)
(* a database, Redis, an address, or several services at once, where it    *)
(* waits for all of them and fails if one did.                             *)
CheckRuns(r, i, result) ==
    /\ probe[r].stage = "running"
    /\ probe[r].results[i] = "running"
    /\ probe' = [probe EXCEPT ![r].results[i] = result]
    /\ Probed(r)

(* Fault of a mutant run: the last check to fail decides. *)
FlagsOfLast(p, i) ==
    IF ChecksCritical[i] THEN [p EXCEPT !.overall = "unhealthy"]
                         ELSE [p EXCEPT !.overall = "healthy", !.hasDegraded = TRUE]

(* The goroutines of failed checks set these flags without a lock.  Each   *)
(* flag only ever gets the one value, so the outcome is that of some order *)
(* of the writes.                                                          *)
Flags(p, i) ==
    IF ChecksCritical[i] THEN [p EXCEPT !.overall = "unhealthy"]
                         ELSE [p EXCEPT !.hasDegraded = TRUE]

CheckFailed(r, i) ==
    /\ probe[r].stage = "running"
    /\ probe[r].results[i] = "failing"
    /\ probe' = [probe EXCEPT ![r] = [Flags(@, i) EXCEPT !.results[i] = "unhealthy"]]
    /\ Probed(r)

(* wg.Wait is over. *)
EndProbe(r) ==
    /\ probe[r].stage = "running"
    /\ \A i \in 1..probe[r].n : probe[r].results[i] \in {"healthy", "unhealthy"}
    /\ probe' = [probe EXCEPT ![r].stage = "answered",
            ![r].overall = IF @ = "healthy" /\ probe[r].hasDegraded
                           THEN "degraded" ELSE @]
    /\ Probed(r)

------------------------------------------------------------------------------
LifeSteps(r) ==
    \/ Connected(r) \/ NotConnected(r) \/ AllConnected(r)
    \/ CreateNext(r) \/ CreateFails(r) \/ Initialized(r)
    \/ Stop(r) \/ Close(r)

ProbeSteps(r) ==
    \/ AddCheck(r) \/ StartProbe(r) \/ EndProbe(r)
    \/ \E i \in 1..probe[r].n :
          \/ \E result \in {"healthy", "failing"} : CheckRuns(r, i, result)
          \/ CheckFailed(r, i)

(* A replica that serves has a client for every database its configuration *)
(* names, and, if that is Cosmos, every container the initializer is to    *)
(* create exists, whichever replica created it, in whichever run.  (With   *)
(* Redis in its configuration it never gets there.)                        *)
ServingMeansReady ==
    \A r \in Replicas : phase[r] \in {"serving", "draining"} =>
        /\ conns[r] = wanted[r]
        /\ "cosmos" \in conns[r] => \A i \in 1..Len(Containers) : Containers[i] \in created

(* Unless a start failed, every client with connections of its own is one  *)
(* that Connections has and Close closes: nothing is open after Close.     *)
(* After a failed start the clients connected before are still open, and   *)
(* one of Redis for each of the attempts.                                  *)
NothingLeaksUnlessFailed ==
    \A r \in Replicas : phase[r] # "failed" /\ pools[r]["redis"] = 0 =>
        pools[r]["sql"] = IF "sql" \in conns[r] /\ phase[r] # "closed" THEN 1 ELSE 0

(* The status of a probe is what the results of its checks say, although   *)
(* the checks write it from their goroutines: unhealthy, and 503, when a   *)
(* critical one failed, degraded when only others did (checker.go:24-29).  *)
VerdictMatches ==
    \A r \in Replicas : probe[r].stage = "answered" =>
        LET Bad(critical) == \E i \in 1..probe[r].n :
                /\ ChecksCritical[i] = critical
                /\ probe[r].results[i] = "unhealthy"
        IN  probe[r].overall = IF Bad(TRUE) THEN "unhealthy"
                               ELSE IF Bad(FALSE) THEN "degraded" ELSE "healthy"

==============================================================================
