----------------------------- MODULE Service_proofs -----------------------------
(***************************************************************************)
(* Proofs about Service, for any clients, documents, replicas, containers  *)
(* and checks, and any numbers of retries, calls and restarts: what its    *)
(* calls leave behind, and what its replicas are when they serve.          *)
(***************************************************************************)
EXTENDS Service, TLAPS

Ops == UNION {DOMAIN RedisPrograms, DOMAIN ListPrograms, DOMAIN CosmosPrograms,
              DOMAIN SQLPrograms, DriverOps, ServiceOps}

DriverCommands == {"sadd", "geoadd", "srem", "zrem"}

Answers == Errors \cup {"none", "nil", "false", "panic"}

Calls ==
    [n : Nat, op : Ops \cup {"none"}, at : Nat, left : Int,
     stage : {"idle", "sent", "replied"}, reply : Answers, lost : BOOLEAN,
     alone : BOOLEAN]

DataTypeOK ==
    /\ call \in [Clients -> Calls]
    /\ queue \in Nat
    /\ online \in BOOLEAN
    /\ located \in BOOLEAN
    /\ gone \in BOOLEAN

(* A call under way is at one of the commands of its program. *)
InProgram ==
    \A c \in Clients : UnderWay(c) =>
        /\ call[c].op \in Ops
        /\ call[c].at \in 1 .. Len(Program(call[c].op))

(* A transaction is open between its begin and whatever ends it: the       *)
(* command under way is the function or the commit, or the command before  *)
(* succeeded.                                                              *)
HoldsTransaction(c) ==
    /\ call[c].op = "WithTransaction"
    /\ \/ call[c].stage = "sent" /\ call[c].at \in {2, 3}
       \/ call[c].stage = "replied" /\ call[c].at \in {1, 2} /\ call[c].reply = "nil"

OpenInv == \A c \in open : c \in Clients /\ HoldsTransaction(c)

(* How far a SetDriverOffline that is alone, and has lost no reply, is.    *)
Undisturbed(c) ==
    /\ UnderWay(c)
    /\ call[c].op = "SetDriverOffline"
    /\ call[c].alone
    /\ ~call[c].lost

OfflineInv ==
    /\ gone => ~online /\ ~located /\ DriverAtRest
    /\ \A c \in Clients : Undisturbed(c) =>
          /\ \A d \in Clients \ {c} : UnderWay(d) => call[d].op \notin DriverOps
          /\ \A l \in late : l.cmd \notin DriverCommands
          /\ call[c].at = 2 => ~online
          /\ call[c].stage = "replied" /\ Succeeded(c) =>
                IF call[c].at = 1 THEN ~online ELSE ~located

(* What a call has done: it has had its effect when its last command has   *)
(* answered nil, and if no reply was lost on the way, at no other time and *)
(* once.  A command that nobody waits for is one whose reply was lost.     *)
Done(q) ==
    /\ q.reply = "nil"
    /\ \/ q.stage = "replied" /\ q.at = Len(Program(q.op))
       \/ q.stage = "idle"

Accounted(q, times) ==
    q.op \in Writes =>
        /\ Done(q) => times > 0
        /\ ~q.lost => times = IF Done(q) THEN 1 ELSE 0

RunInv ==
    /\ ran \in [Clients -> Nat]
    /\ \A c \in Clients : Accounted(call[c], ran[c])
    /\ \A l \in late :
          /\ l.c \in Clients
          /\ l.n \in Nat
          /\ l.n <= call[l.c].n
          /\ l.n = call[l.c].n => call[l.c].lost

DataInv == DataTypeOK /\ InProgram /\ OpenInv /\ OfflineInv /\ RunInv

------------------------------------------------------------------------------
Phases == {"connecting", "initializing", "serving", "draining", "stopped",
           "closed", "failed"}
Results == {"running", "healthy", "failing", "unhealthy"}
LifeTypeOK ==
    /\ phase \in [Replicas -> Phases]
    /\ wanted \in [Replicas -> SUBSET Databases]
    /\ conns \in [Replicas -> SUBSET Databases]
    /\ pools \in [Replicas -> [Databases -> Int]]
    /\ next \in [Replicas -> 0 .. Len(Containers)]
    /\ checks \in [Replicas -> 0 .. Len(ChecksCritical)]

ReadyInv ==
    \A r \in Replicas :
        /\ conns[r] \subseteq wanted[r]
        /\ \A i \in 1 .. next[r] : Containers[i] \in created
        /\ phase[r] \in {"initializing", "serving", "draining"} => conns[r] = wanted[r]
        /\ phase[r] \in {"serving", "draining"} /\ "cosmos" \in conns[r]
              => next[r] = Len(Containers)

LeakInv ==
    \A r \in Replicas : phase[r] # "failed" =>
        pools[r]["sql"] = IF "sql" \in conns[r] /\ phase[r] # "closed" THEN 1 ELSE 0

Tables == UNION {[1 .. n -> Results] : n \in 0 .. Len(ChecksCritical)}

Probes ==
    [stage : {"idle", "running", "answered"}, n : 0 .. Len(ChecksCritical),
     results : Tables, overall : {"healthy", "degraded", "unhealthy"},
     hasDegraded : BOOLEAN]

(* What a probe has noted so far is what its failed checks have written.   *)
Bad(p, critical) ==
    \E i \in 1 .. p.n : ChecksCritical[i] = critical /\ p.results[i] = "unhealthy"

Status(p, degraded) ==
    IF Bad(p, TRUE) THEN "unhealthy" ELSE IF degraded THEN "degraded" ELSE "healthy"

ProbeOK(p) ==
    /\ p \in Probes
    /\ p.results \in [1 .. p.n -> Results]
    /\ p.stage = "running" =>
          /\ p.overall = Status(p, FALSE)
          /\ p.hasDegraded = Bad(p, FALSE)
    /\ p.stage = "answered" => p.overall = Status(p, Bad(p, FALSE))

ProbeInv ==
    /\ probe = [r \in Replicas |-> probe[r]]
    /\ \A r \in Replicas : ProbeOK(probe[r])

LifeInv == LifeTypeOK /\ ReadyInv /\ LeakInv /\ ProbeInv
------------------------------------------------------------------------------
(* The programs: those of one plain command, and the rest. *)
PlainCommands ==
    {"get", "set", "setnx", "del", "incr", "push", "pop", "publish", "create",
     "read", "replace", "upsert", "delete", "exec", "post", "compute"}

Short(programs) ==
    \A op \in DOMAIN programs :
        Len(programs[op]) = 1 /\ programs[op][1] \in PlainCommands

(* The families have no operation in common. *)
LEMMA ProgramOf ==
    /\ Program("WithTransaction") = <<"begin", "fn", "commit">>
    /\ Program("Exec") = <<"exec">>
    /\ \A op \in DriverOps : Program(op) = DriverPrograms[op]
    /\ \A op \in DOMAIN RedisPrograms : Program(op) = RedisPrograms[op]
    /\ \A op \in DOMAIN ListPrograms : Program(op) = ListPrograms[op]
    /\ \A op \in DOMAIN CosmosPrograms : Program(op) = CosmosPrograms[op]
    /\ \A op \in DOMAIN NotificationPrograms : Program(op) = NotificationPrograms[op]
    /\ \A op \in DOMAIN PricingPrograms : Program(op) = PricingPrograms[op]
    /\ \A op \in DOMAIN PromotionsPrograms : Program(op) = PromotionsPrograms[op]
    /\ \A op \in DOMAIN UserPrograms : Program(op) = UserPrograms[op]
<1>1. Program("WithTransaction") = <<"begin", "fn", "commit">>
    BY DEF Program, RedisPrograms, ListPrograms, CosmosPrograms,
           SQLPrograms, DriverPrograms, DriverOps, NotificationPrograms,
           PricingPrograms, PromotionsPrograms, UserPrograms, ServiceOps
<1>2. Program("Exec") = <<"exec">>
    BY DEF Program, RedisPrograms, ListPrograms, CosmosPrograms,
           SQLPrograms, DriverPrograms, DriverOps, NotificationPrograms,
           PricingPrograms, PromotionsPrograms, UserPrograms, ServiceOps
<1>3. \A op \in DriverOps : Program(op) = DriverPrograms[op]
    BY DEF Program, RedisPrograms, ListPrograms, CosmosPrograms,
           SQLPrograms, DriverPrograms, DriverOps, NotificationPrograms,
           PricingPrograms, PromotionsPrograms, UserPrograms, ServiceOps
<1>4. \A op \in DOMAIN RedisPrograms : Program(op) = RedisPrograms[op]
    BY DEF Program, RedisPrograms, ListPrograms, CosmosPrograms,
           SQLPrograms, DriverPrograms, DriverOps, NotificationPrograms,
           PricingPrograms, PromotionsPrograms, UserPrograms, ServiceOps
<1>5. \A op \in DOMAIN ListPrograms : Program(op) = ListPrograms[op]
    BY DEF Program, RedisPrograms, ListPrograms, CosmosPrograms,
           SQLPrograms, DriverPrograms, DriverOps, NotificationPrograms,
           PricingPrograms, PromotionsPrograms, UserPrograms, ServiceOps
<1>6. \A op \in DOMAIN CosmosPrograms : Program(op) = CosmosPrograms[op]
    BY DEF Program, RedisPrograms, ListPrograms, CosmosPrograms,
           SQLPrograms, DriverPrograms, DriverOps, NotificationPrograms,
           PricingPrograms, PromotionsPrograms, UserPrograms, ServiceOps
<1>7. \A op \in DOMAIN NotificationPrograms : Program(op) = NotificationPrograms[op]
    BY DEF Program, RedisPrograms, ListPrograms, CosmosPrograms,
           SQLPrograms, DriverPrograms, DriverOps, NotificationPrograms,
           PricingPrograms, PromotionsPrograms, UserPrograms, ServiceOps
<1>8. \A op \in DOMAIN PricingPrograms : Program(op) = PricingPrograms[op]
    BY DEF Program, RedisPrograms, ListPrograms, CosmosPrograms,
           SQLPrograms, DriverPrograms, DriverOps, NotificationPrograms,
           PricingPrograms, PromotionsPrograms, UserPrograms, ServiceOps
<1>9. \A op \in DOMAIN PromotionsPrograms : Program(op) = PromotionsPrograms[op]
    BY DEF Program, RedisPrograms, ListPrograms, CosmosPrograms,
           SQLPrograms, DriverPrograms, DriverOps, NotificationPrograms,
           PricingPrograms, PromotionsPrograms, UserPrograms, ServiceOps
<1>10. \A op \in DOMAIN UserPrograms : Program(op) = UserPrograms[op]
    BY DEF Program, RedisPrograms, ListPrograms, CosmosPrograms,
           SQLPrograms, DriverPrograms, DriverOps, NotificationPrograms,
           PricingPrograms, PromotionsPrograms, UserPrograms, ServiceOps
<1> QED BY <1>1, <1>2, <1>3, <1>4, <1>5, <1>6, <1>7, <1>8, <1>9, <1>10

(* Each call but those of the driver and of SQL is one plain command. *)
LEMMA ShortPrograms ==
    /\ Short(RedisPrograms)
    /\ Short(ListPrograms)
    /\ Short(CosmosPrograms)
    /\ Short(NotificationPrograms)
    /\ Short(PricingPrograms)
    /\ Short(PromotionsPrograms)
    /\ Short(UserPrograms)
<1>1. Short(RedisPrograms)
    <2>1. ASSUME NEW op \in DOMAIN RedisPrograms
          PROVE  Len(RedisPrograms[op]) = 1
        BY DEF RedisPrograms
    <2>2. ASSUME NEW op \in DOMAIN RedisPrograms
          PROVE  RedisPrograms[op][1] \in PlainCommands
        BY DEF RedisPrograms, PlainCommands
    <2> QED BY <2>1, <2>2 DEF Short
<1>2. Short(ListPrograms)
    <2>1. ASSUME NEW op \in DOMAIN ListPrograms
          PROVE  Len(ListPrograms[op]) = 1
        BY DEF ListPrograms
    <2>2. ASSUME NEW op \in DOMAIN ListPrograms
          PROVE  ListPrograms[op][1] \in PlainCommands
        BY DEF ListPrograms, PlainCommands
    <2> QED BY <2>1, <2>2 DEF Short
<1>3. Short(CosmosPrograms)
    <2>1. ASSUME NEW op \in DOMAIN CosmosPrograms
          PROVE  Len(CosmosPrograms[op]) = 1
        BY DEF CosmosPrograms
    <2>2. ASSUME NEW op \in DOMAIN CosmosPrograms
          PROVE  CosmosPrograms[op][1] \in PlainCommands
        BY DEF CosmosPrograms, PlainCommands
    <2> QED BY <2>1, <2>2 DEF Short
<1>4. Short(NotificationPrograms)
    <2>1. ASSUME NEW op \in DOMAIN NotificationPrograms
          PROVE  Len(NotificationPrograms[op]) = 1
        BY DEF NotificationPrograms
    <2>2. ASSUME NEW op \in DOMAIN NotificationPrograms
          PROVE  NotificationPrograms[op][1] \in PlainCommands
        BY DEF NotificationPrograms, PlainCommands
    <2> QED BY <2>1, <2>2 DEF Short
<1>5. Short(PricingPrograms)
    <2>1. ASSUME NEW op \in DOMAIN PricingPrograms
          PROVE  Len(PricingPrograms[op]) = 1
        BY DEF PricingPrograms
    <2>2. ASSUME NEW op \in DOMAIN PricingPrograms
          PROVE  PricingPrograms[op][1] \in PlainCommands
        BY DEF PricingPrograms, PlainCommands
    <2> QED BY <2>1, <2>2 DEF Short
<1>6. Short(PromotionsPrograms)
    <2>1. ASSUME NEW op \in DOMAIN PromotionsPrograms
          PROVE  Len(PromotionsPrograms[op]) = 1
        BY DEF PromotionsPrograms
    <2>2. ASSUME NEW op \in DOMAIN PromotionsPrograms
          PROVE  PromotionsPrograms[op][1] \in PlainCommands
        BY DEF PromotionsPrograms, PlainCommands
    <2> QED BY <2>1, <2>2 DEF Short
<1>7. Short(UserPrograms)
    <2>1. ASSUME NEW op \in DOMAIN UserPrograms
          PROVE  Len(UserPrograms[op]) = 1
        BY DEF UserPrograms
    <2>2. ASSUME NEW op \in DOMAIN UserPrograms
          PROVE  UserPrograms[op][1] \in PlainCommands
        BY DEF UserPrograms, PlainCommands
    <2> QED BY <2>1, <2>2 DEF Short
<1> QED BY <1>1, <1>2, <1>3, <1>4, <1>5, <1>6, <1>7

(* Only WithTransaction begins one, and only the driver location service   *)
(* has commands about the driver's sets.                                   *)
LEMMA ProgramsApart ==
    ASSUME NEW op \in Ops, NEW i \in 1 .. Len(Program(op))
    PROVE  /\ op = "WithTransaction" \/ Program(op)[i] \notin {"begin", "fn"}
           /\ op \in DriverOps \/ Program(op)[i] \notin DriverCommands
<1>1. CASE op \in DriverOps
    <2>1. op \in {"SetDriverOnline", "UpdateLocation", "RemoveDriver"} =>
             /\ Len(Program(op)) = 1
             /\ Program(op)[1] \in {"sadd", "geoadd", "zrem"}
        BY <1>1, ProgramOf DEF DriverPrograms
    <2>2. op = "SetDriverOffline" => Program(op) = <<"srem", "zrem">>
        BY <1>1, ProgramOf DEF DriverPrograms
    <2>3. op \in {"SetDriverOnline", "UpdateLocation", "RemoveDriver", "SetDriverOffline"}
        BY <1>1 DEF DriverOps, DriverPrograms
    <2>4. CASE op = "SetDriverOffline"
        <3>1. i \in {1, 2} /\ Program(op)[i] \in {"srem", "zrem"}
            BY <2>2, <2>4
        <3> QED BY <1>1, <3>1
    <2>5. CASE op \in {"SetDriverOnline", "UpdateLocation", "RemoveDriver"}
        <3>1. i = 1
            <4>1. Len(Program(op)) = 1 BY <2>1, <2>5
            <4>2. i \in 1 .. 1 BY <4>1
            <4> QED BY <4>2
        <3> QED BY <1>1, <2>1, <2>5, <3>1
    <2> QED BY <2>3, <2>4, <2>5
<1>2. CASE op \in DOMAIN SQLPrograms
    <2>1. op \in {"Exec", "WithTransaction"}
        BY <1>2 DEF SQLPrograms
    <2>2. CASE op = "Exec"
        <3>1. Program(op) = <<"exec">>
            BY <2>2, ProgramOf
        <3>2. Len(Program(op)) = 1 /\ Program(op)[1] = "exec"
            BY <3>1
        <3>3. i \in 1 .. 1
            BY <3>2
        <3>4. Program(op)[i] = "exec"
            BY <3>2, <3>3
        <3> QED BY <3>4 DEF DriverCommands
    <2>3. CASE op = "WithTransaction"
        <3>1. i \in {1, 2, 3} /\ Program(op)[i] \in {"begin", "fn", "commit"}
            BY <2>3, ProgramOf
        <3> QED BY <2>3, <3>1 DEF DriverCommands
    <2> QED BY <2>1, <2>2, <2>3
<1>3. ASSUME NEW programs, Short(programs), op \in DOMAIN programs,
             Program(op) = programs[op]
      PROVE  Program(op)[i] \in PlainCommands
    BY <1>3 DEF Short
<1>4. \A cmd \in PlainCommands :
          cmd \notin {"begin", "fn"} /\ cmd \notin DriverCommands
    BY DEF PlainCommands, DriverCommands
<1> QED BY <1>1, <1>2, <1>3, <1>4, ProgramOf, ShortPrograms DEF Ops, ServiceOps

(* What a service calls is among the operations. *)
LEMMA LoadsKnown == \A l \in Loads : LoadOps(l) \subseteq Ops
    BY ServiceAssumption DEF Ops, LoadOps

(* The steps of one replica, of its life and of its probes. *)
LEMMA LifeStep ==
    ASSUME LifeInv, NEW r \in Replicas,
           LifeSteps(r) \/ Drained(r) \/ Restart(r) \/ ProbeSteps(r)
    PROVE  LifeInv'
<1> USE LifecycleAssumption DEF LifeInv
<1>1. CASE Connected(r)
    <2>1. LifeTypeOK'
        BY <1>1 DEF LifeTypeOK, Phases, Connected, Missing, Current, Databases
    <2>2. ReadyInv'
        BY <1>1 DEF LifeTypeOK, ReadyInv, Connected, Missing, Current, Databases
    <2>3. LeakInv'
        BY <1>1 DEF LifeTypeOK, LeakInv, Connected, Missing, Current, Databases
    <2>4. UNCHANGED probe
        BY <1>1 DEF Connected
    <2>5. ProbeInv'
        BY <2>4 DEF ProbeInv, ProbeOK, Probes, Tables, Status, Bad
    <2> QED BY <2>1, <2>2, <2>3, <2>5
<1>2. CASE NotConnected(r)
    <2>0. Current(r) \in Databases
        BY DEF Current, Databases
    <2>1. LifeTypeOK'
        <3>1. pools' \in [Replicas -> [Databases -> Int]]
            BY <1>2, <2>0 DEF NotConnected, LeakedBy, LifeTypeOK
        <3>2. /\ phase' \in [Replicas -> Phases]
              /\ conns' \in [Replicas -> SUBSET Databases]
            BY <1>2 DEF NotConnected, LifeTypeOK, Phases
        <3> QED BY <1>2, <3>1, <3>2 DEF NotConnected, LifeTypeOK
    <2>2. ReadyInv'
        BY <1>2, <2>0 DEF LifeTypeOK, ReadyInv, NotConnected, Missing, Databases, LeakedBy
    <2>3. LeakInv'
        BY <1>2, <2>0 DEF LifeTypeOK, LeakInv, NotConnected, Missing, Databases, LeakedBy
    <2>4. UNCHANGED probe
        BY <1>2 DEF NotConnected
    <2>5. ProbeInv'
        BY <2>4 DEF ProbeInv, ProbeOK, Probes, Tables, Status, Bad
    <2> QED BY <2>1, <2>2, <2>3, <2>5
<1>3. CASE AllConnected(r)
    <2>1. LifeTypeOK'
        BY <1>3 DEF LifeTypeOK, Phases, AllConnected, Missing
    <2>2. ReadyInv'
        BY <1>3 DEF LifeTypeOK, ReadyInv, AllConnected, Missing
    <2>3. LeakInv'
        BY <1>3 DEF LifeTypeOK, LeakInv, AllConnected, Missing
    <2>4. UNCHANGED probe
        BY <1>3 DEF AllConnected
    <2>5. ProbeInv'
        BY <2>4 DEF ProbeInv, ProbeOK, Probes, Tables, Status, Bad
    <2> QED BY <2>1, <2>2, <2>3, <2>5
<1>4. CASE CreateNext(r)
    <2>1. LifeTypeOK'
        BY <1>4 DEF LifeTypeOK, Phases, CreateNext, CreateContainer
    <2>2. ReadyInv'
        BY <1>4 DEF LifeTypeOK, ReadyInv, CreateNext, CreateContainer
    <2>3. LeakInv'
        BY <1>4 DEF LifeTypeOK, LeakInv, CreateNext, CreateContainer
    <2>4. UNCHANGED probe
        BY <1>4 DEF CreateNext
    <2>5. ProbeInv'
        BY <2>4 DEF ProbeInv, ProbeOK, Probes, Tables, Status, Bad
    <2> QED BY <2>1, <2>2, <2>3, <2>5
<1>5. CASE CreateFails(r)
    <2>1. LifeTypeOK'
        BY <1>5 DEF LifeTypeOK, Phases, CreateFails, Move
    <2>2. ReadyInv'
        BY <1>5 DEF LifeTypeOK, ReadyInv, CreateFails, Move
    <2>3. LeakInv'
        BY <1>5 DEF LifeTypeOK, LeakInv, CreateFails, Move
    <2>4. UNCHANGED probe
        BY <1>5 DEF CreateFails
    <2>5. ProbeInv'
        BY <2>4 DEF ProbeInv, ProbeOK, Probes, Tables, Status, Bad
    <2> QED BY <2>1, <2>2, <2>3, <2>5
<1>6. CASE Initialized(r)
    <2>1. LifeTypeOK'
        BY <1>6 DEF LifeTypeOK, Phases, Initialized, Move
    <2>2. ReadyInv'
        BY <1>6 DEF LifeTypeOK, ReadyInv, Initialized, Move
    <2>3. LeakInv'
        BY <1>6 DEF LifeTypeOK, LeakInv, Initialized, Move
    <2>4. UNCHANGED probe
        BY <1>6 DEF Initialized
    <2>5. ProbeInv'
        BY <2>4 DEF ProbeInv, ProbeOK, Probes, Tables, Status, Bad
    <2> QED BY <2>1, <2>2, <2>3, <2>5
<1>7. CASE Stop(r)
    <2>1. LifeTypeOK'
        BY <1>7 DEF LifeTypeOK, Phases, Stop, Move
    <2>2. ReadyInv'
        BY <1>7 DEF LifeTypeOK, ReadyInv, Stop, Move
    <2>3. LeakInv'
        BY <1>7 DEF LifeTypeOK, LeakInv, Stop, Move
    <2>4. UNCHANGED probe
        BY <1>7 DEF Stop
    <2>5. ProbeInv'
        BY <2>4 DEF ProbeInv, ProbeOK, Probes, Tables, Status, Bad
    <2> QED BY <2>1, <2>2, <2>3, <2>5
<1>8. CASE Close(r)
    <2>1. LifeTypeOK'
        BY <1>8 DEF LifeTypeOK, Phases, Close, Move, CloseClients, Databases
    <2>2. ReadyInv'
        BY <1>8 DEF LifeTypeOK, ReadyInv, Close, Move, CloseClients, Databases
    <2>3. LeakInv'
        BY <1>8 DEF LifeTypeOK, LeakInv, Close, Move, CloseClients, Databases
    <2>4. UNCHANGED probe
        BY <1>8 DEF Close
    <2>5. ProbeInv'
        BY <2>4 DEF ProbeInv, ProbeOK, Probes, Tables, Status, Bad
    <2> QED BY <2>1, <2>2, <2>3, <2>5
<1>9. CASE Drained(r)
    <2>1. LifeTypeOK'
        BY <1>9 DEF LifeTypeOK, Phases, Drained, Move
    <2>2. ReadyInv'
        BY <1>9 DEF LifeTypeOK, ReadyInv, Drained, Move
    <2>3. LeakInv'
        BY <1>9 DEF LifeTypeOK, LeakInv, Drained, Move
    <2>4. UNCHANGED probe
        BY <1>9 DEF Drained
    <2>5. ProbeInv'
        BY <2>4 DEF ProbeInv, ProbeOK, Probes, Tables, Status, Bad
    <2> QED BY <2>1, <2>2, <2>3, <2>5
<1>10. CASE Restart(r)
    <2>1. LifeTypeOK'
        BY <1>10 DEF LifeTypeOK, Phases, Restart, Databases
    <2>2. ReadyInv'
        BY <1>10 DEF LifeTypeOK, ReadyInv, Restart, Databases
    <2>3. LeakInv'
        BY <1>10 DEF LifeTypeOK, LeakInv, Restart, Databases
    <2>4. ProbeOK(NoProbe)
        BY DEF ProbeOK, NoProbe, Probes, Status, Bad, Tables
    <2>5. ProbeInv'
        BY <1>10, <2>4 DEF Restart, ProbeInv
    <2> QED BY <2>1, <2>2, <2>3, <2>5
<1>11. CASE AddCheck(r)
    <2>1. LifeTypeOK'
        BY <1>11 DEF LifeTypeOK, AddCheck
    <2>2. ReadyInv'
        BY <1>11 DEF ReadyInv, AddCheck
    <2>3. LeakInv'
        BY <1>11 DEF LeakInv, AddCheck
    <2>4. UNCHANGED probe
        BY <1>11 DEF AddCheck
    <2>5. ProbeInv'
        BY <2>4 DEF ProbeInv, ProbeOK, Status, Bad
    <2> QED BY <2>1, <2>2, <2>3, <2>5
<1>12. CASE StartProbe(r)
    <2>1. LifeTypeOK'
        BY <1>12 DEF LifeTypeOK, StartProbe, Probed
    <2>2. ReadyInv'
        BY <1>12 DEF ReadyInv, StartProbe, Probed
    <2>3. LeakInv'
        BY <1>12 DEF LeakInv, StartProbe, Probed
    <2> DEFINE table == [i \in 1 .. checks[r] |-> "running"]
               q == [NoProbe EXCEPT !.stage = "running", !.n = checks[r],
                                    !.results = table]
    <2>4. probe' = [probe EXCEPT ![r] = q]
        BY <1>12 DEF StartProbe
    <2>5. checks[r] \in 0 .. Len(ChecksCritical)
        BY DEF LifeTypeOK
    <2>6. table \in [1 .. checks[r] -> Results]
        BY DEF Results
    <2>7. table \in Tables
        BY <2>5, <2>6 DEF Tables
    <2> HIDE DEF table
    <2>8. /\ q.stage = "running" /\ q.n = checks[r] /\ q.results = table
          /\ q.overall = "healthy" /\ q.hasDegraded = FALSE
        BY DEF NoProbe
    <2>9. q \in Probes
        BY <2>5, <2>7 DEF Probes, NoProbe
    <2>10. \A i \in 1 .. checks[r] : table[i] = "running"
        BY DEF table
    <2> HIDE DEF q
    <2>11. Bad(q, TRUE) = FALSE /\ Bad(q, FALSE) = FALSE
        BY <2>8, <2>10 DEF Bad
    <2>12. ProbeOK(q)
        <3>1. q.overall = Status(q, FALSE)
            BY <2>8, <2>11 DEF Status
        <3>2. q.hasDegraded = Bad(q, FALSE)
            BY <2>8, <2>11
        <3> QED BY <2>6, <2>8, <2>9, <3>1, <3>2 DEF ProbeOK
    <2>13. ProbeInv'
        BY <2>4, <2>12 DEF ProbeInv
    <2> QED BY <2>1, <2>2, <2>3, <2>13
<1>13. CASE EndProbe(r)
    <2>1. LifeTypeOK'
        BY <1>13 DEF LifeTypeOK, EndProbe, Probed
    <2>2. ReadyInv'
        BY <1>13 DEF ReadyInv, EndProbe, Probed
    <2>3. LeakInv'
        BY <1>13 DEF LeakInv, EndProbe, Probed
    <2> DEFINE p == probe[r]
               verdict == IF p.overall = "healthy" /\ p.hasDegraded
                          THEN "degraded" ELSE p.overall
               q == [p EXCEPT !.stage = "answered", !.overall = verdict]
    <2>4. probe' = [probe EXCEPT ![r] = q]
        BY <1>13 DEF EndProbe, ProbeInv
    <2>5. ProbeOK(p)
        BY DEF ProbeInv
    <2>6. p.overall = Status(p, FALSE) /\ p.hasDegraded = Bad(p, FALSE)
        BY <1>13, <2>5 DEF EndProbe, ProbeOK
    <2> HIDE DEF p
    <2>7. q \in Probes
        BY <2>5 DEF ProbeOK, Probes
    <2>8. /\ q.stage = "answered" /\ q.n = p.n /\ q.results = p.results
          /\ q.overall = verdict /\ q.hasDegraded = p.hasDegraded
        BY <2>5 DEF ProbeOK, Probes
    <2> HIDE DEF q
    <2>9. \A b \in BOOLEAN : Bad(q, b) = Bad(p, b)
        BY <2>8 DEF Bad
    <2>10. ProbeOK(q)
        BY <2>5, <2>6, <2>7, <2>8, <2>9 DEF ProbeOK, Status
    <2>11. ProbeInv'
        BY <2>4, <2>10 DEF ProbeInv
    <2> QED BY <2>1, <2>2, <2>3, <2>11
<1>14. ASSUME NEW i \in 1 .. probe[r].n, NEW result \in {"healthy", "failing"},
              CheckRuns(r, i, result)
       PROVE  LifeInv'
    <2>1. LifeTypeOK'
        BY <1>14 DEF LifeTypeOK, CheckRuns, Probed
    <2>2. ReadyInv'
        BY <1>14 DEF ReadyInv, CheckRuns, Probed
    <2>3. LeakInv'
        BY <1>14 DEF LeakInv, CheckRuns, Probed
    <2> DEFINE p == probe[r]
               table == [p.results EXCEPT ![i] = result]
               q == [p EXCEPT !.results = table]
    <2>4. probe' = [probe EXCEPT ![r] = q]
        BY <1>14 DEF CheckRuns, ProbeInv
    <2>5. ProbeOK(p) /\ p.stage = "running" /\ p.results[i] = "running" /\ i \in 1 .. p.n
        BY <1>14 DEF ProbeInv, CheckRuns
    <2> HIDE DEF p
    <2>6. table \in [1 .. p.n -> Results]
        BY <1>14, <2>5 DEF ProbeOK, Results
    <2>7. table \in Tables
        BY <2>5, <2>6 DEF ProbeOK, Probes, Tables
    <2>8. \A j \in 1 .. p.n : (table[j] = "unhealthy") = (p.results[j] = "unhealthy")
        BY <1>14, <2>5 DEF ProbeOK
    <2> HIDE DEF table
    <2>9. q \in Probes
        BY <2>5, <2>7 DEF ProbeOK, Probes
    <2>10. /\ q.stage = p.stage /\ q.n = p.n /\ q.results = table
           /\ q.overall = p.overall /\ q.hasDegraded = p.hasDegraded
        BY <2>5 DEF ProbeOK, Probes
    <2> HIDE DEF q
    <2>11. \A b \in BOOLEAN : Bad(q, b) = Bad(p, b)
        BY <2>8, <2>10 DEF Bad
    <2>12. ProbeOK(q)
        BY <2>5, <2>6, <2>9, <2>10, <2>11 DEF ProbeOK, Status
    <2>13. ProbeInv'
        BY <2>4, <2>12 DEF ProbeInv
    <2> QED BY <2>1, <2>2, <2>3, <2>13
<1>15. ASSUME NEW i \in 1 .. probe[r].n, CheckFailed(r, i)
       PROVE  LifeInv'
    <2>1. LifeTypeOK'
        BY <1>15 DEF LifeTypeOK, CheckFailed, Probed
    <2>2. ReadyInv'
        BY <1>15 DEF ReadyInv, CheckFailed, Probed
    <2>3. LeakInv'
        BY <1>15 DEF LeakInv, CheckFailed, Probed
    <2> DEFINE p == probe[r]
               table == [p.results EXCEPT ![i] = "unhealthy"]
               q == [Flags(p, i) EXCEPT !.results = table]
    <2>4. ProbeOK(p) /\ p.stage = "running" /\ p.results[i] = "failing" /\ i \in 1 .. p.n
        BY <1>15 DEF ProbeInv, CheckFailed
    <2>5. Flags(p, i).results = p.results
        BY <2>4 DEF Flags, ProbeOK, Probes
    <2>6. probe' = [probe EXCEPT ![r] = q]
        BY <1>15, <2>5 DEF CheckFailed, ProbeInv
    <2> HIDE DEF p
    <2>7. ChecksCritical[i] \in BOOLEAN
        BY <2>4 DEF ProbeOK, Probes
    <2>8. table \in [1 .. p.n -> Results]
        BY <2>4 DEF ProbeOK, Results
    <2>9. table \in Tables
        BY <2>4, <2>8 DEF ProbeOK, Probes, Tables
    <2>10. /\ table[i] = "unhealthy"
           /\ \A j \in 1 .. p.n : j # i => table[j] = p.results[j]
        BY <2>4 DEF ProbeOK
    <2> HIDE DEF table
    <2>11. q \in Probes
        BY <2>4, <2>9 DEF ProbeOK, Probes, Flags
    <2>12. /\ q.stage = p.stage /\ q.n = p.n /\ q.results = table
           /\ q.overall = IF ChecksCritical[i] THEN "unhealthy" ELSE p.overall
           /\ q.hasDegraded = IF ChecksCritical[i] THEN p.hasDegraded ELSE TRUE
        BY <2>4 DEF ProbeOK, Probes, Flags
    <2> HIDE DEF q
    <2>13. Bad(q, ChecksCritical[i])
        BY <2>4, <2>10, <2>12 DEF Bad
    <2>14. \A b \in BOOLEAN : b # ChecksCritical[i] => Bad(q, b) = Bad(p, b)
        BY <2>4, <2>10, <2>12 DEF Bad
    <2>15. q.overall = Status(q, FALSE)
        BY <2>4, <2>7, <2>12, <2>13, <2>14 DEF ProbeOK, Status
    <2>16. q.hasDegraded = Bad(q, FALSE)
        BY <2>4, <2>7, <2>12, <2>13, <2>14 DEF ProbeOK
    <2>17. ProbeOK(q)
        BY <2>4, <2>8, <2>11, <2>12, <2>15, <2>16 DEF ProbeOK
    <2>18. ProbeInv'
        BY <2>6, <2>17 DEF ProbeInv
    <2> QED BY <2>1, <2>2, <2>3, <2>18
<1> QED
    BY <1>1, <1>2, <1>3, <1>4, <1>5, <1>6, <1>7, <1>8, <1>9, <1>10, <1>11, <1>12, <1>13, <1>14, <1>15 DEF LifeSteps, ProbeSteps
------------------------------------------------------------------------------
(* The steps of calls.  Every program has a first command. *)
LEMMA ProgramsNotEmpty ==
    ASSUME NEW op \in Ops
    PROVE  Len(Program(op)) \in Nat \ {0}
<1>1. CASE op \in DriverOps
    <2>1. op \in {"SetDriverOnline", "UpdateLocation", "RemoveDriver", "SetDriverOffline"}
        BY <1>1 DEF DriverOps, DriverPrograms
    <2>2. Len(DriverPrograms[op]) \in {1, 2}
        BY <2>1 DEF DriverPrograms
    <2> QED BY <1>1, <2>2, ProgramOf
<1>2. CASE op \in DOMAIN SQLPrograms
    <2>1. op \in {"Exec", "WithTransaction"}
        BY <1>2 DEF SQLPrograms
    <2>2. Len(Program(op)) \in {1, 3}
        BY <2>1, ProgramOf
    <2> QED BY <2>2
<1> QED BY <1>1, <1>2, ProgramOf, ShortPrograms DEF Ops, ServiceOps, Short

(* What is known of a call under way. *)
Standing(c) ==
    /\ call[c].op \in Ops
    /\ call[c].at \in 1 .. Len(Program(call[c].op))
    /\ Len(Program(call[c].op)) \in Nat \ {0}
    /\ call[c].op # "WithTransaction" => Command(c) \notin {"begin", "fn"}
    /\ call[c].op \notin DriverOps => Command(c) \notin DriverCommands
    /\ call[c].op = "WithTransaction" =>
          /\ call[c].at \in {1, 2, 3}
          /\ Command(c) = "begin" <=> call[c].at = 1
          /\ Command(c) = "fn" <=> call[c].at = 2
          /\ LastCommand(c) <=> call[c].at = 3
    /\ call[c].op = "SetDriverOffline" =>
          /\ call[c].at \in {1, 2}
          /\ Command(c) = IF call[c].at = 1 THEN "srem" ELSE "zrem"
          /\ LastCommand(c) <=> call[c].at = 2
    /\ c \in open => HoldsTransaction(c)
    /\ Undisturbed(c) =>
          /\ call[c].at = 2 => ~online
          /\ call[c].stage = "replied" /\ Succeeded(c) =>
                IF call[c].at = 1 THEN ~online ELSE ~located

(* The invariant, read for one call. *)
LEMMA Commands ==
    ASSUME DataInv, NEW c \in Clients, UnderWay(c)
    PROVE  Standing(c)
<1>1. call[c].op \in Ops /\ call[c].at \in 1 .. Len(Program(call[c].op))
    BY DEF DataInv, InProgram
<1>2. Len(Program(call[c].op)) \in Nat \ {0}
    BY <1>1, ProgramsNotEmpty
<1>3. /\ call[c].op # "WithTransaction" => Command(c) \notin {"begin", "fn"}
      /\ call[c].op \notin DriverOps => Command(c) \notin DriverCommands
    BY <1>1, ProgramsApart DEF Command
<1>4. ASSUME call[c].op = "WithTransaction"
      PROVE  /\ call[c].at \in {1, 2, 3}
             /\ Command(c) = "begin" <=> call[c].at = 1
             /\ Command(c) = "fn" <=> call[c].at = 2
             /\ LastCommand(c) <=> call[c].at = 3
    <2>1. Program(call[c].op) = <<"begin", "fn", "commit">>
        BY <1>4, ProgramOf
    <2> QED BY <1>1, <2>1 DEF Command, LastCommand
<1>5. ASSUME call[c].op = "SetDriverOffline"
      PROVE  /\ call[c].at \in {1, 2}
             /\ Command(c) = IF call[c].at = 1 THEN "srem" ELSE "zrem"
             /\ LastCommand(c) <=> call[c].at = 2
    <2>1. Program(call[c].op) = <<"srem", "zrem">>
        BY <1>5, ProgramOf DEF DriverOps, DriverPrograms
    <2> QED BY <1>1, <2>1 DEF Command, LastCommand
<1>6. c \in open => HoldsTransaction(c)
    BY DEF DataInv, OpenInv
<1>7. Undisturbed(c) =>
          /\ call[c].at = 2 => ~online
          /\ call[c].stage = "replied" /\ Succeeded(c) =>
                IF call[c].at = 1 THEN ~online ELSE ~located
    BY DEF DataInv, OfflineInv
<1> QED BY <1>1, <1>2, <1>3, <1>4, <1>5, <1>6, <1>7 DEF Standing

(* SetDriverOffline is a call about the driver, WithTransaction is not. *)
LEMMA OfflineIsOfDriver ==
    /\ "SetDriverOffline" \in DriverOps
    /\ "WithTransaction" \notin DriverOps
    BY DEF DriverOps, DriverPrograms

(* Steps of queries and of replicas leave the calls alone. *)
LEMMA DataStutter ==
    ASSUME DataInv, UNCHANGED <<queue, online, located, open, call, late, ran, gone>>
    PROVE  DataInv'
    BY DEF DataInv, DataTypeOK, InProgram, OpenInv, HoldsTransaction, OfflineInv,
           Undisturbed, DriverAtRest, UnderWay, Succeeded, RunInv, Accounted, Done

(* A step of a call makes another record q of it.  The call is still in    *)
(* its program, and still holds its transaction if that is open ...        *)
GoesOn(c, q) ==
    /\ q.stage # "idle" => q.op \in Ops /\ q.at \in 1 .. Len(Program(q.op))
    /\ open' \subseteq open \cup {c}
    /\ c \in open' =>
          /\ q.op = "WithTransaction"
          /\ \/ q.stage = "sent" /\ q.at \in {2, 3}
             \/ q.stage = "replied" /\ q.at \in {1, 2} /\ q.reply = "nil"
    /\ queue' \in Nat /\ online' \in BOOLEAN /\ located' \in BOOLEAN /\ gone' \in BOOLEAN

LEMMA CallGoesOn ==
    ASSUME DataInv, NEW c \in Clients, NEW q \in Calls,
           call' = [call EXCEPT ![c] = q], GoesOn(c, q)
    PROVE  DataTypeOK' /\ InProgram' /\ OpenInv'
<1> USE DEF DataInv, GoesOn
<1>1. DataTypeOK'
    BY DEF DataTypeOK
<1>2. InProgram'
    BY DEF DataTypeOK, InProgram, UnderWay
<1>3. OpenInv'
    BY DEF DataTypeOK, OpenInv, HoldsTransaction
<1> QED BY <1>1, <1>2, <1>3

(* ... and what a SetDriverOffline that is alone has achieved stays.       *)
KeepsOffline(c, q) ==
    /\ q.op = call[c].op
    /\ q.alone = call[c].alone
    /\ call[c].lost => q.lost
    /\ gone' = gone
    /\ call[c].op \notin DriverOps => online' = online /\ located' = located
    /\ \A l \in late' :
          l \in late \/ (l.cmd \in DriverCommands => call[c].op \in DriverOps /\ q.lost)
    /\ q.stage # "idle" /\ q.op = "SetDriverOffline" /\ q.alone /\ ~q.lost =>
          /\ q.at = 2 => ~online'
          /\ q.stage = "replied" /\ q.reply \in {"nil", "false"} =>
                IF q.at = 1 THEN ~online' ELSE ~located'

LEMMA OfflineGoesOn ==
    ASSUME DataInv, NEW c \in Clients, UnderWay(c), NEW q \in Calls,
           call' = [call EXCEPT ![c] = q], KeepsOffline(c, q)
    PROVE  OfflineInv'
<1> USE OfflineIsOfDriver DEF DataInv, KeepsOffline
<1>1. gone' => ~online' /\ ~located' /\ DriverAtRest'
    BY DEF DataTypeOK, OfflineInv, DriverAtRest, DriverCommands, UnderWay
<1>2. ASSUME NEW d \in Clients, Undisturbed(d)', d # c
      PROVE  /\ \A e \in Clients \ {d} : UnderWay(e)' => call'[e].op \notin DriverOps
             /\ \A l \in late' : l.cmd \notin DriverCommands
             /\ call'[d].at = 2 => ~online'
             /\ call'[d].stage = "replied" /\ Succeeded(d)' =>
                   IF call'[d].at = 1 THEN ~online' ELSE ~located'
    <2>1. Undisturbed(d) /\ call'[d] = call[d]
        BY <1>2 DEF DataTypeOK, Undisturbed, UnderWay
    <2>2. call[c].op \notin DriverOps
        BY <1>2, <2>1 DEF OfflineInv
    <2> QED BY <1>2, <2>1, <2>2 DEF DataTypeOK, OfflineInv, UnderWay, Succeeded
<1>3. ASSUME Undisturbed(c)'
      PROVE  /\ \A e \in Clients \ {c} : UnderWay(e)' => call'[e].op \notin DriverOps
             /\ \A l \in late' : l.cmd \notin DriverCommands
             /\ call'[c].at = 2 => ~online'
             /\ call'[c].stage = "replied" /\ Succeeded(c)' =>
                   IF call'[c].at = 1 THEN ~online' ELSE ~located'
    <2>1. Undisturbed(c) /\ call'[c] = q /\ ~q.lost
        BY <1>3 DEF DataTypeOK, Undisturbed, UnderWay
    <2> QED BY <1>3, <2>1 DEF DataTypeOK, OfflineInv, UnderWay, Succeeded, Undisturbed
<1> QED BY <1>1, <1>2, <1>3 DEF OfflineInv

(* Its effect is accounted for.                                            *)
RunsGoOn(c, q) ==
    /\ q.n = call[c].n
    /\ call[c].lost => q.lost
    /\ ran' \in [Clients -> Nat]
    /\ \A d \in Clients \ {c} : ran'[d] = ran[d]
    /\ Accounted(q, ran'[c])
    /\ \A l \in late' : l \in late \/ (l.c = c /\ l.n = q.n /\ q.lost)

LEMMA AccountGoesOn ==
    ASSUME DataInv, NEW c \in Clients, NEW q \in Calls,
           call' = [call EXCEPT ![c] = q], RunsGoOn(c, q)
    PROVE  RunInv'
<1> USE DEF DataInv, RunInv, RunsGoOn
<1>1. \A d \in Clients : call'[d] = IF d = c THEN q ELSE call[d]
    BY DEF DataTypeOK
<1>2. \A d \in Clients : Accounted(call'[d], ran'[d])
    BY <1>1
<1>3. q.n \in Nat
    BY DEF Calls
<1>4. \A l \in late' :
          /\ l.c \in Clients
          /\ l.n \in Nat
          /\ l.n <= call'[l.c].n
          /\ l.n = call'[l.c].n => call'[l.c].lost
    BY <1>1, <1>3
<1>5. (\A d \in Clients : Accounted(call[d], ran[d]))'
    BY <1>2 DEF Accounted, Done
<1> QED BY <1>4, <1>5

(* The steps of a call that leave the stores alone. *)
LEMMA CallStep ==
    ASSUME DataInv, NEW c \in Clients,
           \/ \E err \in Errors : TurnedAway(c, err)
           \/ \E err \in Errors \cup {"nil"} : FnReturns(c, err)
           \/ TimesOut(c) \/ FnPanics(c) \/ Proceed(c)
           \/ TryAgain(c) \/ Cancelled(c) \/ GiveUp(c)
    PROVE  DataInv'
<1> USE OfflineIsOfDriver
<1>0. /\ call[c] \in Calls
      /\ ran \in [Clients -> Nat] /\ Accounted(call[c], ran[c])
      /\ queue \in Nat /\ gone \in BOOLEAN /\ online \in BOOLEAN /\ located \in BOOLEAN
    BY DEF DataInv, DataTypeOK, RunInv

<1>1. ASSUME NEW err \in Errors, TurnedAway(c, err)
      PROVE  DataInv'
    <2>1. UnderWay(c)
        BY <1>1 DEF TurnedAway, UnderWay
    <2> DEFINE q == [call[c] EXCEPT !.stage = "replied", !.reply = err, !.lost = @ \/ FALSE]
    <2>2. call' = [call EXCEPT ![c] = q]
        BY <1>1 DEF TurnedAway, Replied
    <2>3. q \in Calls
        BY <1>0, <1>1 DEF Calls, Answers, Errors, Sentinels
    <2>4. /\ q.op = call[c].op /\ q.n = call[c].n /\ q.alone = call[c].alone
          /\ q.stage = "replied"
          /\ q.at = call[c].at
          /\ q.reply = err
          /\ q.lost = call[c].lost
        BY <1>0 DEF Calls
    <2> HIDE DEF q
    <2>5. Standing(c)
        BY <2>1, Commands
    <2>6. GoesOn(c, q)
        BY <1>0, <1>1, <2>4, <2>5 DEF GoesOn, Standing, HoldsTransaction, Succeeded, TurnedAway, stores
    <2>7. KeepsOffline(c, q)
        BY <1>0, <1>1, <2>1, <2>4, <2>5 DEF KeepsOffline, Standing, Undisturbed, Succeeded, TurnedAway, stores, Errors, Sentinels
    <2>8. RunsGoOn(c, q)
        BY <1>0, <1>1, <2>4, <2>5 DEF RunsGoOn, Accounted, Done, Standing, Succeeded, TurnedAway, stores, Errors, Sentinels
    <2> QED BY <2>1, <2>2, <2>3, <2>6, <2>7, <2>8,
               CallGoesOn, OfflineGoesOn, AccountGoesOn DEF DataInv
<1>2. ASSUME NEW err \in Errors \cup {"nil"}, FnReturns(c, err)
      PROVE  DataInv'
    <2>1. UnderWay(c)
        BY <1>2 DEF FnReturns, UnderWay
    <2> DEFINE q == [call[c] EXCEPT !.stage = "replied", !.reply = err, !.lost = @ \/ FALSE]
    <2>2. call' = [call EXCEPT ![c] = q]
        BY <1>2 DEF FnReturns, Replied
    <2>3. q \in Calls
        BY <1>0, <1>2 DEF Calls, Answers, Errors, Sentinels
    <2>4. /\ q.op = call[c].op /\ q.n = call[c].n /\ q.alone = call[c].alone
          /\ q.stage = "replied"
          /\ q.at = call[c].at
          /\ q.reply = err
          /\ q.lost = call[c].lost
        BY <1>0 DEF Calls
    <2> HIDE DEF q
    <2>5. Standing(c)
        BY <2>1, Commands
    <2>6. GoesOn(c, q)
        BY <1>0, <1>2, <2>4, <2>5 DEF GoesOn, Standing, HoldsTransaction, Succeeded, FnReturns, stores, LastCommand
    <2>7. KeepsOffline(c, q)
        BY <1>0, <1>2, <2>1, <2>4, <2>5 DEF KeepsOffline, Standing, Undisturbed, Succeeded, FnReturns, stores
    <2>8. RunsGoOn(c, q)
        BY <1>0, <1>2, <2>4, <2>5 DEF RunsGoOn, Accounted, Done, Standing, Succeeded, FnReturns, stores, LastCommand
    <2> QED BY <2>1, <2>2, <2>3, <2>6, <2>7, <2>8,
               CallGoesOn, OfflineGoesOn, AccountGoesOn DEF DataInv
<1>3. CASE TimesOut(c)
    <2>1. UnderWay(c)
        BY <1>3 DEF TimesOut, UnderWay
    <2> DEFINE q == [call[c] EXCEPT !.stage = "replied", !.reply = "network", !.lost = @ \/ TRUE]
    <2>2. call' = [call EXCEPT ![c] = q]
        BY <1>3 DEF TimesOut, Replied
    <2>3. q \in Calls
        BY <1>0 DEF Calls, Answers, Errors, Sentinels
    <2>4. /\ q.op = call[c].op /\ q.n = call[c].n /\ q.alone = call[c].alone
          /\ q.stage = "replied"
          /\ q.at = call[c].at
          /\ q.reply = "network"
          /\ q.lost = TRUE
        BY <1>0 DEF Calls
    <2> HIDE DEF q
    <2>5. Standing(c)
        BY <2>1, Commands
    <2>6. GoesOn(c, q)
        BY <1>0, <1>3, <2>4, <2>5 DEF GoesOn, Standing, HoldsTransaction, Succeeded, TimesOut, stores
    <2>7. KeepsOffline(c, q)
        BY <1>0, <1>3, <2>1, <2>4, <2>5 DEF KeepsOffline, Standing, Undisturbed, Succeeded, TimesOut, stores
    <2>8. RunsGoOn(c, q)
        BY <1>0, <1>3, <2>4, <2>5 DEF RunsGoOn, Accounted, Done, Standing, Succeeded, TimesOut, stores
    <2> QED BY <2>1, <2>2, <2>3, <2>6, <2>7, <2>8,
               CallGoesOn, OfflineGoesOn, AccountGoesOn DEF DataInv
<1>4. CASE FnPanics(c)
    <2>1. UnderWay(c)
        BY <1>4 DEF FnPanics, UnderWay
    <2> DEFINE q == [call[c] EXCEPT !.stage = "idle", !.reply = "panic"]
    <2>2. call' = [call EXCEPT ![c] = q]
        BY <1>4 DEF FnPanics, Answered
    <2>3. q \in Calls
        BY <1>0 DEF Calls, Answers, Errors, Sentinels
    <2>4. /\ q.op = call[c].op /\ q.n = call[c].n /\ q.alone = call[c].alone
          /\ q.stage = "idle"
          /\ q.reply = "panic"
          /\ q.lost = call[c].lost
        BY <1>0 DEF Calls
    <2> HIDE DEF q
    <2>5. Standing(c)
        BY <2>1, Commands
    <2>6. GoesOn(c, q)
        BY <1>0, <1>4, <2>4, <2>5 DEF GoesOn, Standing, HoldsTransaction, Succeeded, FnPanics, stores
    <2>7. KeepsOffline(c, q)
        BY <1>0, <1>4, <2>1, <2>4, <2>5 DEF KeepsOffline, Standing, Undisturbed, Succeeded, FnPanics, stores
    <2>8. RunsGoOn(c, q)
        BY <1>0, <1>4, <2>4, <2>5 DEF RunsGoOn, Accounted, Done, Standing, Succeeded, FnPanics, stores
    <2> QED BY <2>1, <2>2, <2>3, <2>6, <2>7, <2>8,
               CallGoesOn, OfflineGoesOn, AccountGoesOn DEF DataInv
<1>5. CASE Proceed(c)
    <2>1. UnderWay(c)
        BY <1>5 DEF Proceed, UnderWay
    <2> DEFINE q == [call[c] EXCEPT !.at = @ + 1, !.stage = "sent", !.lost = @ \/ ~Succeeded(c)]
    <2>2. call' = [call EXCEPT ![c] = q]
        BY <1>5 DEF Proceed, Ignored
    <2>3. q \in Calls
        <3>1. (call[c].lost \/ ~Succeeded(c)) \in BOOLEAN
            OBVIOUS
        <3>2. call[c].at + 1 \in Nat
            BY <1>0 DEF Calls
        <3> QED BY <1>0, <3>1, <3>2 DEF Calls
    <2>4. /\ q.op = call[c].op /\ q.n = call[c].n /\ q.alone = call[c].alone
          /\ q.stage = "sent"
          /\ q.at = call[c].at + 1
          /\ q.lost = (call[c].lost \/ ~Succeeded(c))
        BY <1>0 DEF Calls
    <2> HIDE DEF q
    <2>5. Standing(c)
        BY <2>1, Commands
    <2>6. GoesOn(c, q)
        BY <1>0, <1>5, <2>4, <2>5 DEF GoesOn, Standing, HoldsTransaction, Succeeded, Proceed, stores, LastCommand, Ignored
    <2>7. KeepsOffline(c, q)
        BY <1>0, <1>5, <2>1, <2>4, <2>5 DEF KeepsOffline, Standing, Undisturbed, Succeeded, Proceed, stores, Ignored
    <2>8. RunsGoOn(c, q)
        BY <1>0, <1>5, <2>4, <2>5 DEF RunsGoOn, Accounted, Done, Standing, Succeeded, Proceed, stores, LastCommand, Ignored
    <2> QED BY <2>1, <2>2, <2>3, <2>6, <2>7, <2>8,
               CallGoesOn, OfflineGoesOn, AccountGoesOn DEF DataInv
<1>6. CASE TryAgain(c)
    <2>1. UnderWay(c)
        BY <1>6 DEF TryAgain, UnderWay, Failed
    <2> DEFINE q == [call[c] EXCEPT !.at = 1, !.stage = "sent", !.left = @ - 1]
    <2>2. call' = [call EXCEPT ![c] = q]
        BY <1>6 DEF TryAgain, Failed
    <2>3. q \in Calls
        <3>1. call[c].left - 1 \in Int
            BY <1>0 DEF Calls
        <3> QED BY <1>0, <3>1 DEF Calls
    <2>4. /\ q.op = call[c].op /\ q.n = call[c].n /\ q.alone = call[c].alone
          /\ q.stage = "sent"
          /\ q.at = 1
          /\ q.lost = call[c].lost
        BY <1>0 DEF Calls
    <2> HIDE DEF q
    <2>5. Standing(c)
        BY <2>1, Commands
    <2>6. GoesOn(c, q)
        BY <1>0, <1>6, <2>4, <2>5 DEF GoesOn, Standing, HoldsTransaction, Succeeded, TryAgain, stores, Failed
    <2>7. KeepsOffline(c, q)
        BY <1>0, <1>6, <2>1, <2>4, <2>5 DEF KeepsOffline, Standing, Undisturbed, Succeeded, TryAgain, stores, Failed
    <2>8. RunsGoOn(c, q)
        BY <1>0, <1>6, <2>4, <2>5 DEF RunsGoOn, Accounted, Done, Standing, Succeeded, TryAgain, stores, Failed
    <2> QED BY <2>1, <2>2, <2>3, <2>6, <2>7, <2>8,
               CallGoesOn, OfflineGoesOn, AccountGoesOn DEF DataInv
<1>7. CASE Cancelled(c)
    <2>1. UnderWay(c)
        BY <1>7 DEF Cancelled, UnderWay, Failed
    <2> DEFINE q == [call[c] EXCEPT !.stage = "idle", !.reply = "cancelled"]
    <2>2. call' = [call EXCEPT ![c] = q]
        BY <1>7 DEF Cancelled, Failed, Answered
    <2>3. q \in Calls
        BY <1>0 DEF Calls, Answers, Errors, Sentinels
    <2>4. /\ q.op = call[c].op /\ q.n = call[c].n /\ q.alone = call[c].alone
          /\ q.stage = "idle"
          /\ q.reply = "cancelled"
          /\ q.lost = call[c].lost
        BY <1>0 DEF Calls
    <2> HIDE DEF q
    <2>5. Standing(c)
        BY <2>1, Commands
    <2>6. GoesOn(c, q)
        BY <1>0, <1>7, <2>4, <2>5 DEF GoesOn, Standing, HoldsTransaction, Succeeded, Cancelled, stores, Failed
    <2>7. KeepsOffline(c, q)
        BY <1>0, <1>7, <2>1, <2>4, <2>5 DEF KeepsOffline, Standing, Undisturbed, Succeeded, Cancelled, stores, Failed
    <2>8. RunsGoOn(c, q)
        BY <1>0, <1>7, <2>4, <2>5 DEF RunsGoOn, Accounted, Done, Standing, Succeeded, Cancelled, stores, Failed
    <2> QED BY <2>1, <2>2, <2>3, <2>6, <2>7, <2>8,
               CallGoesOn, OfflineGoesOn, AccountGoesOn DEF DataInv
<1>8. CASE GiveUp(c)
    <2>1. UnderWay(c)
        BY <1>8 DEF GiveUp, UnderWay, Failed
    <2> DEFINE q == [call[c] EXCEPT !.stage = "idle", !.reply = @]
    <2>2. call' = [call EXCEPT ![c] = q]
        BY <1>8 DEF GiveUp, Failed, Answered
    <2>3. q \in Calls
        BY <1>0 DEF Calls, Answers, Errors, Sentinels
    <2>4. /\ q.op = call[c].op /\ q.n = call[c].n /\ q.alone = call[c].alone
          /\ q.stage = "idle"
          /\ q.reply = call[c].reply
          /\ q.lost = call[c].lost
        BY <1>0 DEF Calls
    <2> HIDE DEF q
    <2>5. Standing(c)
        BY <2>1, Commands
    <2>6. GoesOn(c, q)
        BY <1>0, <1>8, <2>4, <2>5 DEF GoesOn, Standing, HoldsTransaction, Succeeded, GiveUp, stores, Failed
    <2>7. KeepsOffline(c, q)
        BY <1>0, <1>8, <2>1, <2>4, <2>5 DEF KeepsOffline, Standing, Undisturbed, Succeeded, GiveUp, stores, Failed
    <2>8. RunsGoOn(c, q)
        BY <1>0, <1>8, <2>4, <2>5 DEF RunsGoOn, Accounted, Done, Standing, Succeeded, GiveUp, stores, Failed
    <2> QED BY <2>1, <2>2, <2>3, <2>6, <2>7, <2>8,
               CallGoesOn, OfflineGoesOn, AccountGoesOn DEF DataInv
<1> QED BY <1>1, <1>2, <1>3, <1>4, <1>5, <1>6, <1>7, <1>8

(* What only reads is no write. *)
LEMMA ReadsAreNoWrites ==
    ASSUME NEW op \in Writes, op \in Ops, NEW i \in 1 .. Len(Program(op))
    PROVE  Program(op)[i] \notin {"get", "read"}
<1>1. CASE op \in DOMAIN RedisPrograms
    <2>1. op \in {"Set", "SetNX", "Delete", "Incr"}
        BY <1>1 DEF Writes, RedisPrograms
    <2>2. Program(op) = RedisPrograms[op] /\ Len(RedisPrograms[op]) = 1
        BY <1>1, ProgramOf, ShortPrograms DEF Short
    <2>3. RedisPrograms[op][1] \notin {"get", "read"}
        BY <2>1 DEF RedisPrograms
    <2>4. i \in 1 .. 1
        BY <2>2
    <2> QED BY <2>2, <2>3, <2>4
<1>2. CASE op \in DOMAIN CosmosPrograms
    <2>1. op \in {"Create", "Replace", "Upsert", "DeleteItem"}
        BY <1>2 DEF Writes, CosmosPrograms
    <2>2. Program(op) = CosmosPrograms[op] /\ Len(CosmosPrograms[op]) = 1
        BY <1>2, ProgramOf, ShortPrograms DEF Short
    <2>3. CosmosPrograms[op][1] \notin {"get", "read"}
        BY <2>1 DEF CosmosPrograms
    <2>4. i \in 1 .. 1
        BY <2>2
    <2> QED BY <2>2, <2>3, <2>4
<1>3. CASE op \notin DOMAIN RedisPrograms \cup DOMAIN CosmosPrograms
    <2>1. op \in {"LPush", "RPop", "Publish", "Exec", "WithTransaction", "Send", "SendBulk",
                  "ApplyPromo", "UpdateUserRating"}
        BY <1>3 DEF Writes, RedisPrograms, CosmosPrograms
    <2>2. Program(op) \in {<<"push">>, <<"pop">>, <<"publish">>, <<"exec">>,
                           <<"begin", "fn", "commit">>, <<"post">>}
        BY <2>1, ProgramOf DEF ListPrograms, NotificationPrograms, PromotionsPrograms,
                               UserPrograms
    <2>3. CASE Program(op) = <<"begin", "fn", "commit">>
        BY <2>3
    <2>4. CASE Program(op) # <<"begin", "fn", "commit">>
        <3>1. Len(Program(op)) = 1 /\ Program(op)[1] \notin {"get", "read"}
            BY <2>2, <2>4
        <3>2. i \in 1 .. 1
            BY <3>1
        <3> QED BY <3>1, <3>2
    <2> QED BY <2>3, <2>4
<1> QED BY <1>1, <1>2, <1>3

(* The server runs a command, and its reply arrives or is lost. *)
LEMMA ServeStep ==
    ASSUME DataInv, NEW c \in Clients, Serve(c)
    PROVE  DataInv'
<1> USE OfflineIsOfDriver
<1>0. /\ call[c] \in Calls
      /\ ran \in [Clients -> Nat] /\ Accounted(call[c], ran[c])
      /\ queue \in Nat /\ gone \in BOOLEAN /\ online \in BOOLEAN /\ located \in BOOLEAN
    BY DEF DataInv, DataTypeOK, RunInv
<1>1. UnderWay(c)
    BY DEF Serve, UnderWay
<1>2. Standing(c)
    BY <1>1, Commands
<1>3. /\ online' = OnlineAfter(Command(c))
      /\ located' = LocatedAfter(Command(c))
      /\ queue' = ListAfter(Command(c))
      /\ late' = late /\ gone' = gone
    BY DEF Serve, Effect
<1>3a. queue' \in Nat
    BY <1>0, <1>3 DEF ListAfter
<1>4. /\ queue' \in Nat /\ online' \in BOOLEAN /\ located' \in BOOLEAN
      /\ Command(c) \notin DriverCommands => online' = online /\ located' = located
      /\ Command(c) = "srem" => ~online'
      /\ Command(c) = "zrem" => online' = online /\ ~located'
    BY <1>0, <1>3a, <1>3 DEF OnlineAfter, LocatedAfter, DriverCommands
<1>5. /\ ran' \in [Clients -> Nat]
      /\ \A d \in Clients \ {c} : ran'[d] = ran[d]
      /\ ran'[c] = IF LastCommand(c) /\ Takes(Command(c)) THEN ran[c] + 1 ELSE ran[c]
    BY <1>0 DEF Serve
<1>6. ASSUME NEW reply \in Answers, NEW lost \in BOOLEAN, Replied(c, reply, lost),
             lost \/ reply = Reply(Command(c)), lost => reply # "nil",
             \/ open' = open \ {c}
             \/ /\ Command(c) = "begin" /\ reply = "nil"
                /\ open' = open \cup {c}
      PROVE  DataInv'
    <2> DEFINE q == [call[c] EXCEPT !.stage = "replied", !.reply = reply, !.lost = @ \/ lost]
    <2>1. call' = [call EXCEPT ![c] = q]
        BY <1>6 DEF Replied
    <2>2. q \in Calls
        BY <1>0, <1>6 DEF Calls
    <2>3. /\ q.op = call[c].op /\ q.alone = call[c].alone /\ q.at = call[c].at
          /\ q.stage = "replied" /\ q.reply = reply
          /\ q.lost = (call[c].lost \/ lost)
        BY <1>0 DEF Calls
    <2> HIDE DEF q
    <2>4. GoesOn(c, q)
        BY <1>0, <1>2, <1>3, <1>4, <1>6, <2>3 DEF GoesOn, Standing
    <2>5. KeepsOffline(c, q)
        BY <1>0, <1>1, <1>2, <1>3, <1>4, <2>3 DEF KeepsOffline, Standing, Undisturbed
    <2>6. call[c].stage = "sent" /\ q.n = call[c].n
        BY <1>0 DEF Serve, Calls, q
    <2>7. ASSUME q.op \in Writes
          PROVE  Takes(Command(c)) <=> Reply(Command(c)) = "nil"
        <3>1. Command(c) \notin {"get", "read"}
            BY <2>3, <2>7, <1>2, ReadsAreNoWrites DEF Standing, Command
        <3> QED BY <1>0, <3>1 DEF Takes, Reply
    <2>8. Accounted(q, ran'[c])
        <3> SUFFICES ASSUME q.op \in Writes
                     PROVE  /\ Done(q) => ran'[c] > 0
                            /\ ~q.lost => ran'[c] = IF Done(q) THEN 1 ELSE 0
            BY DEF Accounted
        <3>1. Done(q) <=> reply = "nil" /\ LastCommand(c)
            BY <2>3 DEF Done, LastCommand
        <3>2. ~call[c].lost => ran[c] = 0
            BY <1>0, <2>3, <2>6 DEF Accounted, Done
        <3>3. ~lost => (reply = "nil" <=> Takes(Command(c)))
            BY <1>6, <2>7
        <3>4. ran[c] \in Nat
            BY <1>0
        <3>5. CASE lost
            <4>1. reply # "nil" /\ q.lost
                BY <1>6, <2>3, <3>5
            <4> QED BY <3>1, <4>1
        <3>6. CASE ~lost
            <4>1. ~q.lost => ~call[c].lost
                BY <2>3
            <4>2. Done(q) => ran'[c] = ran[c] + 1
                BY <1>5, <3>1, <3>3, <3>6
            <4>3. ~Done(q) => ran'[c] = ran[c]
                BY <1>5, <3>1, <3>3, <3>6
            <4> QED BY <3>2, <3>4, <4>1, <4>2, <4>3
        <3> QED BY <3>5, <3>6
    <2>9. RunsGoOn(c, q)
        BY <1>3, <1>5, <2>3, <2>6, <2>8 DEF RunsGoOn
    <2> QED BY <1>1, <2>1, <2>2, <2>4, <2>5, <2>9,
               CallGoesOn, OfflineGoesOn, AccountGoesOn DEF DataInv
<1>7. Reply(Command(c)) \in Answers /\ "network" \in Answers
    BY DEF Reply, Answers, Errors, Sentinels
<1>8. Command(c) = "begin" => Reply(Command(c)) = "nil"
    BY DEF Reply
<1> QED BY <1>6, <1>7, <1>8 DEF Serve

(* A call returns; if it has taken the driver offline, he is. *)
LEMMA FinishStep ==
    ASSUME DataInv, NEW c \in Clients, Finish(c)
    PROVE  DataInv'
<1> USE OfflineIsOfDriver
<1>0. /\ call[c] \in Calls
      /\ ran \in [Clients -> Nat] /\ Accounted(call[c], ran[c])
      /\ queue \in Nat /\ gone \in BOOLEAN /\ online \in BOOLEAN /\ located \in BOOLEAN
    BY DEF DataInv, DataTypeOK, RunInv
<1>1. UnderWay(c)
    BY DEF Finish, UnderWay
<1>2. Standing(c)
    BY <1>1, Commands
<1> DEFINE q == [call[c] EXCEPT !.stage = "idle", !.reply = @]
<1>3. call' = [call EXCEPT ![c] = q]
    BY DEF Finish, Answered
<1>4. q \in Calls
    BY <1>0 DEF Calls
<1>5. /\ q.op = call[c].op /\ q.n = call[c].n /\ q.alone = call[c].alone
      /\ q.reply = call[c].reply /\ q.stage = "idle" /\ q.lost = call[c].lost
    BY <1>0 DEF Calls
<1> HIDE DEF q
<1> DEFINE done == call[c].op = "SetDriverOffline" /\ call[c].alone /\ ~call[c].lost
<1>6. gone' = (gone \/ done)
    BY DEF Finish
<1>7. DataTypeOK' /\ InProgram' /\ OpenInv' /\ RunInv'
    <2>1. gone' \in BOOLEAN
        BY <1>6
    <2>2. GoesOn(c, q)
        BY <1>0, <1>2, <1>5, <2>1 DEF GoesOn, Standing, HoldsTransaction, Finish, stores
    <2>3. RunsGoOn(c, q)
        BY <1>0, <1>5 DEF RunsGoOn, Accounted, Done, Finish, LastCommand
    <2> QED BY <1>3, <1>4, <2>2, <2>3, CallGoesOn, AccountGoesOn
<1>8. CASE ~done
    <2>1. gone' = gone
        BY <1>0, <1>6, <1>8
    <2>2. KeepsOffline(c, q)
        BY <1>5, <2>1 DEF KeepsOffline, Finish, stores
    <2> QED BY <1>1, <1>3, <1>4, <1>7, <2>2, OfflineGoesOn DEF DataInv
<1>9. CASE done
    <2>1. /\ Undisturbed(c)
          /\ call[c].at = 2 /\ call[c].stage = "replied" /\ Succeeded(c)
        BY <1>1, <1>2, <1>9 DEF Undisturbed, Standing, Finish
    <2>2. ~online /\ ~located
        BY <1>2, <2>1 DEF Standing
    <2>3. /\ \A d \in Clients \ {c} : UnderWay(d) => call[d].op \notin DriverOps
          /\ \A l \in late : l.cmd \notin DriverCommands
        BY <2>1 DEF DataInv, OfflineInv
    <2>4. UNCHANGED <<online, located, late>>
        BY DEF Finish, stores
    <2>5. \A d \in Clients : UnderWay(d)' => d # c /\ call'[d] = call[d] /\ UnderWay(d)
        BY <1>3, <1>5 DEF UnderWay, DataInv, DataTypeOK
    <2>6. DriverAtRest'
        BY <2>3, <2>4, <2>5 DEF DriverAtRest, DriverCommands
    <2>7. \A d \in Clients : ~Undisturbed(d)'
        BY <2>3, <2>5 DEF Undisturbed
    <2> QED BY <1>7, <2>2, <2>4, <2>6, <2>7 DEF DataInv, OfflineInv
<1> QED BY <1>8, <1>9

(* A call about the driver ends the solitude of the others. *)
LEMMA BeginStep ==
    ASSUME DataInv, NEW c \in Clients, NEW op \in Ops, NEW withRetry \in BOOLEAN,
           Begin(c, op, withRetry)
    PROVE  DataInv'
<1> USE OfflineIsOfDriver DEF DataInv
<1>1. /\ call[c].stage = "idle"
      /\ UNCHANGED <<queue, online, located, open, late>>
      /\ gone' = (gone /\ op \notin DriverOps)
      /\ ran' = [ran EXCEPT ![c] = 0]
    BY DEF Begin, stores
<1> DEFINE new == [n |-> call[c].n + 1, op |-> op, at |-> 1, left |-> Retries(op, withRetry),
                   stage |-> "sent", reply |-> "none", lost |-> FALSE,
                   alone |-> DriverAtRest]
           other(b) == [call[b] EXCEPT !.alone = @ /\ op \notin DriverOps]
<1>2. call' = [b \in Clients |-> IF b = c THEN new ELSE other(b)]
    BY DEF Begin
<1>3. new \in Calls
    <2>1. call[c].n + 1 \in Nat
        BY DEF DataTypeOK, Calls
    <2>2. Retries(op, withRetry) \in Int
        BY DataAccessAssumption DEF Retries
    <2>3. DriverAtRest \in BOOLEAN
        BY DEF DriverAtRest
    <2>4. "none" \in Answers
        BY DEF Answers
    <2> QED BY <2>1, <2>2, <2>3, <2>4 DEF Calls
<1>4. /\ new.op = op /\ new.at = 1 /\ new.stage = "sent" /\ new.alone = DriverAtRest
      /\ new.n = call[c].n + 1 /\ new.reply = "none"
    OBVIOUS
<1>5. ASSUME NEW b \in Clients
      PROVE  /\ other(b) \in Calls
             /\ other(b).op = call[b].op /\ other(b).at = call[b].at
             /\ other(b).stage = call[b].stage /\ other(b).reply = call[b].reply
             /\ other(b).lost = call[b].lost /\ other(b).n = call[b].n
             /\ other(b).alone = (call[b].alone /\ op \notin DriverOps)
    <2>1. call[b] \in Calls
        BY DEF DataTypeOK
    <2> QED BY <2>1 DEF Calls
<1> HIDE DEF new, other
<1>6. DataTypeOK'
    <2>1. gone' \in BOOLEAN
        BY <1>1
    <2> QED BY <1>1, <1>2, <1>3, <1>5, <2>1 DEF DataTypeOK
<1>7. InProgram'
    <2>1. 1 \in 1 .. Len(Program(op))
        BY ProgramsNotEmpty
    <2> QED BY <1>2, <1>4, <1>5, <2>1 DEF InProgram, UnderWay
<1>8. OpenInv'
    BY <1>1, <1>2, <1>4, <1>5 DEF OpenInv, HoldsTransaction
<1>9. ASSUME NEW d \in Clients, Undisturbed(d)'
      PROVE  /\ \A e \in Clients \ {d} : UnderWay(e)' => call'[e].op \notin DriverOps
             /\ \A l \in late' : l.cmd \notin DriverCommands
             /\ call'[d].at = 2 => ~online'
             /\ call'[d].stage = "replied" /\ Succeeded(d)' =>
                   IF call'[d].at = 1 THEN ~online' ELSE ~located'
    <2>1. CASE d = c
        <3>1. DriverAtRest
            BY <1>2, <1>4, <1>9, <2>1 DEF Undisturbed
        <3> QED BY <1>1, <1>2, <1>4, <1>5, <2>1, <3>1 DEF DriverAtRest, DriverCommands, UnderWay
    <2>2. CASE d # c
        <3>1. Undisturbed(d) /\ op \notin DriverOps
            BY <1>2, <1>5, <1>9, <2>2 DEF Undisturbed, UnderWay
        <3> QED BY <1>1, <1>2, <1>4, <1>5, <2>2, <3>1 DEF OfflineInv, UnderWay, Succeeded
    <2> QED BY <2>1, <2>2
<1>10. gone' => ~online' /\ ~located' /\ DriverAtRest'
    <2> SUFFICES ASSUME gone' PROVE ~online' /\ ~located' /\ DriverAtRest'
        OBVIOUS
    <2>1. gone /\ op \notin DriverOps
        BY <1>1
    <2> QED BY <1>1, <1>2, <1>4, <1>5, <2>1 DEF OfflineInv, DriverAtRest, UnderWay
<1>11. RunInv'
    <2>1. ran' \in [Clients -> Nat] /\ \A b \in Clients : ran'[b] = IF b = c THEN 0 ELSE ran[b]
        BY <1>1 DEF RunInv
    <2>2. \A b \in Clients : Accounted(call'[b], ran'[b])
        BY <1>2, <1>4, <1>5, <2>1 DEF RunInv, Accounted, Done
    <2>3. (\A b \in Clients : Accounted(call[b], ran[b]))'
        BY <2>2 DEF Accounted, Done
    <2>4. \A b \in Clients : call[b].n \in Nat
        BY DEF DataTypeOK, Calls
    <2>5. \A b \in Clients : \/ call'[b].n = call[b].n /\ call'[b].lost = call[b].lost
                             \/ call'[b].n = call[b].n + 1
        BY <1>2, <1>4, <1>5
    <2> QED BY <1>1, <2>1, <2>3, <2>4, <2>5 DEF RunInv
<1> QED BY <1>6, <1>7, <1>8, <1>9, <1>10, <1>11 DEF OfflineInv

(* A command given up on runs, or never does. *)
LEMMA LateStep ==
    ASSUME DataInv, NEW l \in late, LateRuns(l) \/ LateIsLost(l)
    PROVE  DataInv'
<1> USE DEF DataInv
<1>1. /\ UNCHANGED <<open, call, gone>>
      /\ late' = late \ {l}
    BY DEF LateRuns, LateIsLost
<1>1a. queue' \in Nat
    BY DEF LateRuns, LateIsLost, Effect, ListAfter, stores, DataTypeOK
<1>2. /\ queue' \in Nat /\ online' \in BOOLEAN /\ located' \in BOOLEAN
      /\ l.cmd \notin DriverCommands => online' = online /\ located' = located
    BY <1>1a DEF LateRuns, LateIsLost, Effect, OnlineAfter, LocatedAfter, stores, DriverCommands,
           DataTypeOK
<1>3. DataTypeOK' /\ InProgram' /\ OpenInv'
    BY <1>1, <1>2 DEF DataTypeOK, InProgram, OpenInv, HoldsTransaction, UnderWay
<1>4. OfflineInv'
    BY <1>1, <1>2 DEF OfflineInv, Undisturbed, UnderWay, Succeeded, DriverAtRest, DriverCommands
<1>5. RunInv'
    <2>1. l.c \in Clients /\ (l.n = call[l.c].n => call[l.c].lost)
        BY DEF RunInv
    <2>2. /\ ran' \in [Clients -> Nat]
          /\ \A c \in Clients : ran'[c] = ran[c] \/ (ran'[c] = ran[c] + 1 /\ call[c].lost)
        BY <2>1 DEF LateRuns, LateIsLost, RunInv
    <2>3. \A c \in Clients : Accounted(call[c], ran'[c])
        BY <2>2 DEF RunInv, Accounted
    <2>4. (\A c \in Clients : Accounted(call[c], ran[c]))'
        BY <1>1, <2>3 DEF Accounted, Done
    <2> QED BY <1>1, <2>2, <2>4 DEF RunInv
<1> QED BY <1>3, <1>4, <1>5

------------------------------------------------------------------------------
(* Queries.  Where a query is, found holds what was met up to there, once, *)
(* and what was there the whole time it holds or has yet to meet.          *)
QueryTypeOK ==
    /\ query \in [stage : {"idle", "paging"}, ask : Asks, keyed : BOOLEAN,
                   after : Int \X Int, left : Nat, answer : Errors \cup {"none", "nil"}]
    /\ found \in [Docs -> Nat]

QueriesAlone ==
    /\ load = "queries" => late = {} /\ \A c \in Clients : call[c].stage = "idle"
    /\ load # "queries" => query = NoQuery

SoFar ==
    /\ steady \subseteq docs
    /\ docs \subseteq seen
    /\ \A d \in Docs : found[d] > 0 =>
          found[d] = 1 /\ d \in seen \cap Matches(query.ask) /\ ~Before(query.after, d)
    /\ \A d \in steady \cap Matches(query.ask) :
          d[1] \in Route(query.ask, query.keyed) => Before(query.after, d) \/ found[d] > 0

QueryInv ==
    /\ QueryTypeOK
    /\ QueriesAlone
    /\ query.stage = "paging" => SoFar
    /\ QueriesAreComplete

LEMMA MatchesDocs ==
    ASSUME NEW ask \in Asks
    PROVE  Matches(ask) \subseteq Docs
    BY DEF Asks, Matches

LEMMA BeforeIsAnOrder ==
    ASSUME NEW d \in Int \X Int, NEW e \in Int \X Int, NEW f \in Int \X Int,
           Before(d, e), Before(e, f)
    PROVE  Before(d, f)
    BY DEF Before

LEMMA NothingFound == [d \in Docs |-> 0] \in [Docs -> Nat]
    OBVIOUS

LEMMA FoundType ==
    ASSUME found \in [Docs -> Nat], NEW page, Fetched(page)
    PROVE  found' \in [Docs -> Nat]
    BY DEF Fetched

(* A query starts from the top, when it is called and after a failure. *)
LEMMA TopIsSoFar ==
    ASSUME query'.after = NoQuery.after, query'.ask \in Asks,
           found' = [d \in Docs |-> 0], (steady \subseteq docs)', (docs \subseteq seen)'
    PROVE  SoFar'
<1>1. \A d \in Docs : Before(NoQuery.after, d)
    BY QueryAssumption DEF Before, NoQuery
<1> QED BY <1>1, MatchesDocs DEF SoFar

LEMMA CallQueryStep ==
    ASSUME QueryInv, load = "queries", NEW ask \in Asks, NEW keyed \in BOOLEAN,
           NEW withRetry \in BOOLEAN, CallQuery(ask, keyed, withRetry), UNCHANGED load
    PROVE  QueryInv'
<1>1. QueryTypeOK'
    <2>1. NoQuery.after \in Int \X Int
          /\ (IF withRetry THEN MaxRetries ELSE 0) \in Nat
        BY DataAccessAssumption, QueryAssumption DEF NoQuery
    <2> QED BY <2>1, NothingFound DEF CallQuery, QueryTypeOK
<1>2. SoFar'
    BY TopIsSoFar DEF CallQuery, NoQuery, dataVars
<1>3. QueriesAlone'
    BY DEF QueryInv, QueriesAlone, CallQuery, dataVars
<1>4. QueriesAreComplete'
    BY DEF CallQuery, NoQuery, QueriesAreComplete
<1> QED BY <1>1, <1>2, <1>3, <1>4 DEF QueryInv

(* A page: what it holds comes after what was found. *)
LEMMA PageStep ==
    ASSUME QueryInv, load = "queries", Page, UNCHANGED load
    PROVE  QueryInv'
<1> USE DEF QueryInv, QueryTypeOK
<1>1. /\ query.stage = "paging" /\ SoFar
      /\ UNCHANGED <<docs, steady, seen, late, call>>
      /\ query.ask \in Asks /\ query.after \in Int \X Int
    BY DEF Page, dataVars
<1>2. Ahead \subseteq Docs /\ Docs \subseteq Int \X Int /\ Matches(query.ask) \subseteq Docs
    BY <1>1, MatchesDocs, QueryAssumption DEF Ahead
<1>3. QueriesAlone'
    BY <1>1 DEF QueriesAlone
<1>4. \A d \in Ahead : found[d] = 0 /\ d \in seen \cap Matches(query.ask)
    BY <1>1, <1>2 DEF SoFar, Ahead
<1>5. \A d \in steady \cap Matches(query.ask) :
          d[1] \in Route(query.ask, query.keyed) => d \in Ahead \/ found[d] > 0
    BY <1>1 DEF SoFar, Ahead
<1>6. ASSUME NEW last \in Ahead, Fetched(UpTo(last)), query' = [query EXCEPT !.after = last]
      PROVE  QueryInv'
    <2>1. QueryTypeOK'
        BY <1>2, <1>6, FoundType
    <2>2. \A d \in Docs : ~Before(query.after, d) => ~Before(last, d)
        BY <1>1, <1>2, BeforeIsAnOrder DEF Ahead
    <2>3. /\ query'.ask = query.ask /\ query'.keyed = query.keyed /\ query'.after = last
          /\ query'.stage = "paging"
        BY <1>1, <1>6
    <2>4. \A d \in Docs : found'[d] > 0 =>
              found'[d] = 1 /\ d \in seen' \cap Matches(query.ask) /\ ~Before(last, d)
        BY <1>1, <1>2, <1>4, <1>6, <2>2 DEF Fetched, UpTo, SoFar
    <2>5. \A d \in steady' \cap Matches(query.ask) :
              d[1] \in Route(query.ask, query.keyed) => Before(last, d) \/ found'[d] > 0
        BY <1>1, <1>2, <1>5, <1>6 DEF Fetched, UpTo
    <2>6. SoFar'
        BY <1>1, <2>3, <2>4, <2>5 DEF SoFar
    <2>7. QueriesAreComplete'
        BY <2>3 DEF QueriesAreComplete
    <2> QED BY <1>3, <2>1, <2>6, <2>7
<1>7. ASSUME Fetched(Ahead), query' = [query EXCEPT !.stage = "idle", !.answer = "nil"]
      PROVE  QueryInv'
    <2>1. QueryTypeOK'
        BY <1>2, <1>7, FoundType
    <2>2. query'.ask = query.ask /\ query'.keyed = query.keyed /\ query'.stage = "idle"
        BY <1>7
    <2>3. \A d \in Docs : found'[d] <= 1 /\ (found'[d] > 0 => d \in seen' \cap Matches(query.ask))
        BY <1>1, <1>2, <1>4, <1>7 DEF Fetched, SoFar
    <2>4. \A d \in steady' \cap Matches(query.ask) :
              d[1] \in Route(query.ask, query.keyed) => found'[d] > 0
        BY <1>1, <1>2, <1>5, <1>7 DEF Fetched
    <2>5. QueriesAreComplete'
        BY <1>1, <2>2, <2>3, <2>4 DEF QueriesAreComplete, RightRoute
    <2> QED BY <1>3, <2>1, <2>2, <2>5
<1> QED BY <1>6, <1>7 DEF Page

LEMMA PageFailsStep ==
    ASSUME QueryInv, load = "queries", NEW err \in {"network", "throttled", "rejected"},
           PageFails(err), UNCHANGED load
    PROVE  QueryInv'
<1> USE DEF QueryInv, QueryTypeOK
<1>1. /\ query.stage = "paging" /\ SoFar /\ found' = [d \in Docs |-> 0]
      /\ UNCHANGED <<docs, steady, seen, late, call>>
    BY DEF PageFails, dataVars, FromTheTop
<1>2. QueriesAlone'
    BY <1>1 DEF QueriesAlone
<1>3. CASE TriesAgain(err, query.left)
           /\ query' = [query EXCEPT !.left = @ - 1, !.after = NoQuery.after]
    <2>1. QueryTypeOK'
        <3>1. NoQuery.after \in Int \X Int /\ query.left - 1 \in Nat
            BY <1>3, QueryAssumption DEF TriesAgain, NoQuery
        <3> QED BY <1>1, <1>3, <3>1, NothingFound
    <2>2. SoFar'
        BY <1>1, <1>3, TopIsSoFar DEF SoFar
    <2> QED BY <1>1, <1>2, <1>3, <2>1, <2>2 DEF QueriesAreComplete
<1>4. CASE query' = [query EXCEPT !.stage = "idle", !.answer = err]
    <2>1. QueryTypeOK'
        BY <1>1, <1>4, NothingFound DEF Errors
    <2> QED BY <1>1, <1>2, <1>4, <2>1 DEF QueriesAreComplete
<1> QED BY <1>3, <1>4 DEF PageFails

(* A document comes or goes: only those that stay count as steady. *)
LEMMA ElsewhereStep ==
    ASSUME QueryInv, load = "queries", NEW d \in Docs, query.stage = "paging",
           Elsewhere(d), UNCHANGED load
    PROVE  QueryInv'
    BY DEF QueryInv, QueryTypeOK, QueriesAlone, SoFar, QueriesAreComplete, Elsewhere

LEMMA QueryStutter ==
    ASSUME QueryInv, UNCHANGED <<docs, call, late, queryVars, load>>
    PROVE  QueryInv'
    BY DEF QueryInv, QueryTypeOK, QueriesAlone, SoFar, QueriesAreComplete, RightRoute, queryVars

(* With another load there is no query, and with this one no call. *)
LEMMA HandlersApart ==
    ASSUME QueryInv, Handlers, UNCHANGED <<queryVars, load>>
    PROVE  QueryInv'
<1> USE DEF QueryInv
<1>1. CASE load = "queries"
    <2>1. LoadOps(load) = {} /\ late = {} /\ \A c \in Clients : call[c].stage = "idle"
        BY <1>1 DEF LoadOps, QueriesAlone
    <2> QED BY <2>1 DEF Handlers, Call, Work, Serve, TurnedAway, TimesOut, LateRuns,
                        LateIsLost, FnReturns, FnPanics, Proceed, Failed, TryAgain,
                        Cancelled, GiveUp, Finish
<1>2. CASE load # "queries"
    <2>1. query = NoQuery
        BY <1>2 DEF QueriesAlone
    <2> QED BY <1>2, <2>1 DEF QueryTypeOK, QueriesAlone, QueriesAreComplete, queryVars, NoQuery
<1> QED BY <1>1, <1>2

LEMMA QueriesKeepUp ==
    ASSUME QueryInv, Queries, UNCHANGED load
    PROVE  QueryInv'
    BY CallQueryStep, PageStep, PageFailsStep, ElsewhereStep DEF Queries, QuerySteps

(* The inductive invariant of a service. *)
IInv == load \in Loads /\ DataInv /\ LifeInv /\ QueryInv

(* Whatever the databases and the documents are. *)
LEMMA InitHolds == Init => IInv
<1> SUFFICES ASSUME Init PROVE IInv
    OBVIOUS
<1>1. DataInv
    <2>1. NoCall \in Calls
        BY DEF NoCall, Calls, Answers
    <2>2. \A c \in Clients : ~UnderWay(c)
        BY DEF Init, DataInit, UnderWay, NoCall
    <2>3. Accounted(NoCall, 0)
        BY DEF Accounted, NoCall, Writes
    <2>4. DataTypeOK /\ InProgram /\ OpenInv /\ OfflineInv
        BY <2>1, <2>2 DEF Init, DataInit, DataTypeOK, InProgram, OpenInv, OfflineInv,
                          Undisturbed
    <2>5. RunInv
        BY <2>3 DEF Init, DataInit, RunInv
    <2> QED BY <2>4, <2>5 DEF DataInv
<1>2. LifeTypeOK /\ ReadyInv /\ LeakInv
    BY LifecycleAssumption DEF Init, LifeInit, LifeTypeOK, ReadyInv, LeakInv, Phases, Databases
<1>3. ProbeInv
    <2>1. ProbeOK(NoProbe)
        BY LifecycleAssumption DEF ProbeOK, NoProbe, Probes, Status, Bad, Tables
    <2> QED BY <2>1 DEF Init, LifeInit, ProbeInv
<1>4. QueryInv
    <2>1. QueryTypeOK
        BY DataAccessAssumption, QueryAssumption
        DEF Init, QueryInit, QueryTypeOK, NoQuery, Asks
    <2> QED BY <2>1 DEF Init, QueryInit, DataInit, QueryInv, QueriesAlone, NoQuery,
                        QueriesAreComplete, NoCall
<1> QED BY <1>1, <1>2, <1>3, <1>4 DEF Init, IInv, LifeInv

(* A handler calls, or a call goes on. *)
LEMMA HandlersStep ==
    ASSUME IInv, Handlers
    PROVE  DataInv'
<1> USE DEF IInv
<1>1. ASSUME NEW c \in Clients, NEW op \in LoadOps(load), NEW withRetry \in BOOLEAN,
             Begin(c, op, withRetry)
      PROVE  DataInv'
    BY <1>1, LoadsKnown, BeginStep
<1>2. ASSUME Work
      PROVE  DataInv'
    <2>1. {"throttled", "rejected", "network"} \subseteq Errors
          /\ {"nil", "network", "rejected", "cancelled"} \subseteq Errors \cup {"nil"}
        BY DEF Errors
    <2> QED BY <1>2, <2>1, CallStep, ServeStep, FinishStep, LateStep DEF Work
<1>3. ASSUME NEW c \in Clients, TurnedAway(c, "closed") \/ FnReturns(c, "closed")
      PROVE  DataInv'
    BY <1>3, CallStep DEF Errors
<1> QED BY <1>1, <1>2, <1>3 DEF Handlers, Call

(* Calls and queries leave the replicas alone. *)
LEMMA LifeStutter ==
    ASSUME LifeInv, UNCHANGED lifeVars
    PROVE  LifeInv'
    BY DEF LifeInv, lifeVars, LifeTypeOK, ReadyInv, LeakInv, ProbeInv, ProbeOK, Status, Bad

(* Queries leave the calls alone. *)
LEMMA QueriesStep ==
    ASSUME DataInv, Queries
    PROVE  DataInv'
<1>1. UNCHANGED <<queue, online, located, open, call, late, ran, gone>>
    BY DEF Queries, QuerySteps, CallQuery, Elsewhere, Page, PageFails, dataVars
<1> QED BY <1>1, DataStutter

(* Every step keeps the invariant. *)
LEMMA StepHolds == IInv /\ [Next]_vars => IInv'
<1> SUFFICES ASSUME IInv, [Next]_vars PROVE IInv'
    OBVIOUS
<1> USE DEF IInv
<1>1. CASE Handlers /\ UNCHANGED <<queryVars, lifeVars, load>>
    BY <1>1, HandlersStep, LifeStutter, HandlersApart
<1>2. CASE Queries /\ UNCHANGED <<lifeVars, load>>
    BY <1>2, QueriesStep, LifeStutter, QueriesKeepUp
<1>3. ASSUME NEW r \in Replicas,
             LifeSteps(r) \/ Drained(r) \/ Restart(r) \/ ProbeSteps(r),
             UNCHANGED <<dataVars, queryVars, load>>
      PROVE  IInv'
    BY <1>3, LifeStep, DataStutter, QueryStutter DEF dataVars
<1>4. CASE UNCHANGED vars
    BY <1>4, LifeStutter, DataStutter, QueryStutter DEF vars, dataVars
<1> QED BY <1>1, <1>2, <1>3, <1>4, ServiceAssumption DEF Next

(* What calls leave behind and what replicas are: the properties below     *)
(* follow from it.                                                         *)
THEOREM Invariant == Spec => []IInv
<1> QED BY InitHolds, StepHolds, PTL DEF Spec

(* For any load and number of retries, what a call answers is what it did, *)
(* and exactly that if no reply was lost.                                  *)
THEOREM AnswersTrue == Spec => []AnswersAreTrue
<1>1. IInv => AnswersAreTrue
    BY DEF IInv, DataInv, RunInv, Accounted, Done, AnswersAreTrue, Returned, Answer, UnderWay,
           DataTypeOK, Calls
<1> QED BY <1>1, Invariant, PTL

(* For any clients and load, a call that has returned, by whatever way,    *)
(* has left no transaction open on the SQL server.                         *)
THEOREM NoTransactionLeft == Spec => []TransactionsSettle
<1>1. IInv => TransactionsSettle
    BY DEF IInv, DataInv, OpenInv, HoldsTransaction, TransactionsSettle, UnderWay
<1> QED BY <1>1, Invariant, PTL

(* However calls about a driver overlap and commands run late, one taken   *)
(* offline by a call that nothing interfered with is off both sets.        *)
THEOREM DriverStaysOffline == Spec => []OfflineLasts
<1>1. IInv => OfflineLasts
    BY DEF IInv, DataInv, OfflineInv, OfflineLasts
<1> QED BY <1>1, Invariant, PTL

(* Any number of replicas that start, fail and are started again serve     *)
(* only with every client made and every container created.                *)
THEOREM ReadyToServe == Spec => []ServingMeansReady
<1>1. IInv => ServingMeansReady
    BY LifecycleAssumption DEF IInv, LifeInv, LifeTypeOK, ReadyInv, ServingMeansReady
<1> QED BY <1>1, Invariant, PTL

(* A replica that did not fail to start has, after Close, no SQL client    *)
(* open, and before it the one that Connections has.                       *)
THEOREM ClosesAll == Spec => []NothingLeaksUnlessFailed
<1>1. IInv => NothingLeaksUnlessFailed
    BY DEF IInv, LifeInv, LeakInv, NothingLeaksUnlessFailed
<1> QED BY <1>1, Invariant, PTL

(* For any checks, critical or not, that fail in any order while others    *)
(* are added, a probe's status is what the results of its checks say.      *)
THEOREM VerdictIsOfChecks == Spec => []VerdictMatches
<1>1. IInv => VerdictMatches
    BY DEF IInv, LifeInv, ProbeInv, ProbeOK, Status, Bad, VerdictMatches
<1> QED BY <1>1, Invariant, PTL

(* For any partitions, page size and writers, a query that answers nil has *)
(* every document that was there all the time, no other and none twice.    *)
THEOREM QueriesAnswerInFull == Spec => []QueriesAreComplete
<1>1. IInv => QueriesAreComplete
    BY DEF IInv, QueryInv
<1> QED BY <1>1, Invariant, PTL

===============================================================================
