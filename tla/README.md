# Verification of cobrun-shared

cobrun-shared is the Go library the services of a ride-hailing platform are
built on: resilience (circuit breakers, rate limiters, retries), data access
(SQL Server, Cosmos DB, Redis), messaging (Service Bus, Event Hubs, SignalR),
maps, geometry, authentication and observability. There is no process of its
own: each component is state inside a service, or state that several services
share through Redis, SQL Server, Cosmos DB or a broker. The models therefore
take the concurrency from the callers: goroutines of one service for the
breakers and limiters, replicas for start-up and migrations, processes for the
lock, the window limiter and the consumers.

The modules are written in TLA+, checked with TLC on small instances, and those
in `*_proofs.tla` hold theorems that TLAPS proves for every value of the
constants. `PROJECT.json` maps every definition to the lines it models.

## 1. Inventory

| Component | State it keeps | Operations | Interacts with | What is hard |
|---|---|---|---|---|
| resilience breaker (`resilience/circuit_breaker.go`) | state, failures, successes, lastFailure, half-open slots | Execute, ExecuteWithContext, Reset, registry Get | its client; callback goroutines | results that come late; slots of callers whose context is done |
| http breaker (`http/circuit_breaker.go`) | the same, with calls in progress | Execute, ExecuteWithFallback, registry | its client | check, state and count in three critical sections; panics |
| resilient http clients (`resilience/http_client.go`, `http/resilient_client.go`) | breaker, attempt counter | Do | breakers, service clients | one asks the breaker for each attempt, the other once per call; cancellation |
| http rate limiter (`http/rate_limiter.go`) | one token bucket per key, a cleanup goroutine | Allow by middleware, cleanup, Close; limits per endpoint | http handlers | bucket creation race; cleanup deletes what it looked at earlier |
| retry helpers (`database/retry.go`) | attempt counter | Retry and its wrappers | sql, cosmos, redis clients | repeating what has been done |
| redis client and lock (`database/redis.go`) | the key in Redis, the value in the client | AcquireLock(WithRetry), Extend, Release; single commands, with retry | Redis, retry helpers | expiry, lost replies, commands that arrive late, crashes |
| driver locations (`database/redis_init.go`) | a set and a geo set in Redis | UpdateLocation, SetDriverOnline, SetDriverOffline, RemoveDriver | Redis | two commands that are not one |
| sql client (`database/sql.go`) | connection pool, open transactions | Exec, WithTransaction, each with retry | runner, services | panics in the function; commits whose acknowledgement is lost |
| cosmos client (`database/cosmos.go`, `database/cosmosdb`) | documents; continuation of a query | CRUD and queries, each with retry; initialisation | services, other replicas | a create repeated is a conflict; pages of a container that changes |
| connections, bootstrap (`database/connections.go`, `bootstrap/service.go`) | three clients | NewConnections, Initialize, Close | all clients | failure half-way |
| health checker (`health/checker.go`) | list of checks, the status of a probe | AddCheck, Check | all clients | goroutines that write one variable |
| http server (`http/server.go`) | running or shutting down | Run | handlers | handlers that outlast Shutdown |
| service clients (`clients/`) | none | one request each | resilient http client | a request that is carried out and reported failed |
| migration runner (`database/migrations.go`) | tracking table and schema; the list a run works through | Up, UpTo, Down, DownTo, Reset, Refresh, Status | SQL client, other replicas | replicas that run together, lost acknowledgements, truncated reads |
| migration scripts (`database/migrations/sql`) | tables, foreign keys, columns | 12 scripts up, 12 down | run by the runner | order of creation and removal, rules of the dialect |
| service bus client (`messaging/servicebus.go`) | semaphore and goroutines; locks at the broker | Send, ScheduleMessage, SendBatch, StartConsumer, Complete, Abandon, DeadLetter, Defer | broker, handlers of the service | locks that expire in hand, cancellation, settlements that fail |
| event hubs client (`messaging/eventhubs.go`) | position in a batch; checkpoint in the store | Start, processPartition, Send, SendBatch, SendToPartition | SDK's processor, other instances | partitions that change owner, checkpoints that come late, sends repeated |
| maps client, caches, window limiter (`maps/`) | cache in Redis or in memory; a sorted set in Redis | Autocomplete, GetPlaceDetails, ComputeRoutes, ComputeRouteMatrix, ReverseGeocode; Wait, Allow | HTTP, other processes | a request sent again, the age of answers, clocks read before scripts run |
| geometry (`geo/`) | the H3 index: two maps | geohash, H3, polygons, geofences, distances | dispatching services | edges and corners, sampling, lists edited in place |
| signalr, authentication, configuration, errors, vehicle classes, validation, logging, telemetry, test support | none that outlives a call | | | nothing concurrent of their own |

Properties that make each correct, in words: a breaker closes and opens only as
its counters earn it, lets through no more probes than configured, stays open
for its timeout, is left alone by clients while it is open and closes again once
the service is healthy. A limiter grants no more than its bucket or window
holds, whoever races for it, and lets a caller that waits through in the end. A
lock is held by one client while its lease runs and comes free whatever happens
to the holder. What a call of a database client answers is what it did, as long
as no reply was lost; it leaves no transaction open. A query has every document
that was there the whole time, once. A service serves only when it has what it
needs, closes what it opened, and says truthfully how it is. Migrations are
applied in order, once, and recorded truthfully. A consumer loses no message,
keeps to its concurrency and ends when told; events reach handlers in the order
they were sent. Zones that share a cut divide an area, as exactly as float64
lets them, and an index finds the drivers it should. The hazards behind these, each at its line, are in
`PROJECT.json`.

## 2. What is modelled

### Breakers and their clients

`BreakerContract` is what both breakers promise: which transitions exist and
what each has to wait for. It knows neither calls nor counters.

`ResilienceBreaker` has an action for allowRequest (in its three outcomes),
for the early return on a done context (`Lossy` callers may take it), for
recordResult with success or failure, for Reset and for time. `HttpBreaker`
splits a call as the code does: canExecute, getState, the increment, fn,
recordResult, the deferred decrement, each under the mutex of its own, with
panics of `Panicky` callers that skip recordResult. Time counts in ticks from
lastFailure and saturates after `Timeout`. The variables are the fields of the
structs; the history variables that the properties need are marked where they
are declared.

`ResilientHTTPClient` is the client of `resilience/`: its loop is around the
breaker, so each attempt asks anew and leaves a result of its own. In
`ResilientClient`, of `http/`, the loop is inside the breaker's Execute, and a
call is one result whatever number of requests it sends. Each extends the
module of its breaker, and every action is one of the breaker's joined with what
the client does.

### RateLimiter and TokenBucketContract

`TokenBucketContract` is one token bucket. `RateLimiter` is the limiter for one
key: requests that look the bucket up, make one if there is none, store it with
LoadOrStore and draw a token later, the cleanup goroutine that reads the tokens
and deletes in a second step, and Close. Buckets are independent between keys,
so one key is enough; excluded requests pass without one.

### RedisLock

Clients run AcquireLockWithRetry, Extend and Release; Redis runs commands one at
a time. Any command, SETNX, Release or an Extend with any ttl, may fail for its
client and arrive later, or again, when the connection broke before or after
Redis ran it (`strays`). `lease` is a history variable: for how long its holder
can count on the key, which is what Redis promised when it last answered, and
nothing while an Extend of the holder's own with a shorter ttl is still on its
way.
Values stand for nanoseconds: no two attempts that still matter share one.

### Service: RetryPolicy, DataAccess, CosmosQuery, ServiceLifecycle

`RetryPolicy` classifies errors as `database/retry.go` and the http client do.
`DataAccess` has each method of the clients as a short program of commands
(`RedisPrograms`, `SQLPrograms`, ...): SetNX is one, WithTransaction is begin,
the function and the commit, SetDriverOffline is SREM and ZREM. A call is at one
of its commands, which the server runs, turns away, answers into the void, or
runs later, after the client gave it up (`late`). Retry runs the whole program
again. `Effect` and `Reply` are what a command does to the stores and what the
client makes of the answer. `ran` counts how often a call took effect.

`CosmosQuery` pages through a container that others write to: how parameters
become a partition key, what a page continues after, and what the retry loop
throws away. What has been found is a count for each document, since their order
decides nothing. `ServiceLifecycle` is a replica from NewConnections through the
initializer of Cosmos, serving, Shutdown and Close, with probes of the health
checker, failures anywhere and restarts. `Service` puts these together: a
`load` says which family of calls, or queries, the handlers of a replica make
while it serves, and handlers that outlast Shutdown find their SQL client
closed under them. Calls of different families share no state, which is why one
load at a time is enough.

### Migrator and MigrationScripts

`Migrator` has an action for each step a replica takes between transactions:
Initialize, Status with what it read, one transaction per migration, and the
ways these fail. The database is two sets: versions in the tracking table and
versions whose scripts are in effect. `MigrationScripts` opens those scripts:
each is the sequence of its statements, run in a transaction on a schema of
tables, references and added columns. `transact`, chosen at the start, says
whether the two rules of SQL Server that the scripts meet are in force: DROP
INDEX names its table, and a column with a default constraint is not dropped. The DROP
INDEX statements of a table and its DROP TABLE are one statement of the model.

### ServiceBusConsumer, EventPipeline: BatchSender, EventHubsConsumer

`ServiceBusConsumer` is the loop of StartConsumer (`pc`), what it received and
has not started (`batch`), the goroutines in the two stages of their life and
the channel `sem`, together with the broker: a message is sent to it or
scheduled, a received one is locked and its lock may expire, and a handler may
put its message aside before the loop settles it. `EventHubsConsumer` is processPartition in competing
instances, with the checkpoint store. `BatchSender` is SendBatch, which the two
files share line by line, and Send, for a caller that sends its list one by one;
whoever gets an error begins again with the list.
`EventPipeline` joins the two ends: what the hub accepts from the sender is what
the instances find in the partition.

### MapsClient and WindowLimiter

`WindowLimiter` is Wait and Allow of the limiter in Redis, in ages rather than
times, so that the state stays finite: a tick makes every entry older. `stamp`
is the age of the clock reading a script on its way carries, and the history
`passed` has for each call admitted within the last window how long ago its
clock was read and its script ran. `MapsClient` is a
call of the client on top of it: the look into the cache, Wait, the attempts,
decoding, storing. The five operations differ in whether they keep answers; an
answer is its age. What an attempt that failed did at the service is left open.

### Geo: Geohash, Polygon, DriverIndex

Pure functions, in integer coordinates: `Geohash` is Encode and DecodeBounds as
bisection of the world (`Around` a coordinate, `Narrowed` by bits), their bits
going to the axes in turn, and CoverBoundingBox as sampling, with the two ways
floating point may end its loops; `Polygon` is Contains by counting crossings,
bounding boxes, GeoJSON and geofences. Line 34 of `polygon.go` divides: a point
off the line of an edge is so far from it, in units of some metres, that float64
tells its side; for a point on a slanted edge rounding decides, and `RoundsEast`,
a constant operator of the module, says how, for each direction of the edge. `DriverIndex` is the H3 index with its two maps, the
lists of one spliced in place when a driver leaves, on a hexagonal grid in place
of the H3 library.
`Geo` moves drivers about while an area, its two zones and its covers look on.

## 3. Runs

One run per module or composition asks all that is asked of it. Instances are
the smallest in which the interesting cases happen.

| Run | Shows | Instance | States |
|---|---|---|---|
| resilience_client | half-open slots come back unless a call is lost; transitions are earned; an open breaker is left alone; without lost slots a healthy service closes it | 3 callers, 2 of them may be lost; thresholds 2, 2 slots, timeout of 2 ticks, 1 retry | 150 k |
| http_client | slots come back on every path, panics included; every step is one of BreakerContract; loops let through go on to their end and no further; a healthy service closes it | 3 callers that may panic; thresholds 2, limit 1, 1 retry | 44 k |
| http_breaker_concurrency (violation) | more than MaxConcurrentInHalfOpen probes run at once | 3 callers, limit 1 | |
| rate_limiter | one token bucket until the cleanup deletes a bucket in use; a bound on what a tick grants even then; unused keys are dropped | 3 requests, one of them exempt, 3 buckets, burst 2 | 442 k |
| redis_lock | leases that clients can count on exclude each other, with late commands; the lock always comes free | 2 clients, 4 values, ttl 3, 2 attempts, 1 late command | 329 k |
| service | answers are true, transactions settle, an offline driver stays so, queries are complete, a serving replica is ready, nothing leaks unless a start failed, probes are right | 9 loads; 2 clients with a call each, 1 retry, 1 late command; 3 documents in 2 partitions, pages of 1; 2 replicas started twice, 2 containers, 3 checks | 1.8 M |
| migrator | the record is true, no gaps, everything is applied in the end | 2 replicas, 4 migrations, one without a down script, every operation | 87 k |
| scripts | all scripts in every order of versions the runner allows, interrupted anywhere, with SQL Server's rules for DROP on and off | the 12 scripts themselves | 121 k |
| servicebus | no message lost; one hand per message; messages get settled; cancellation ends the loop | 2 consumers that may crash and start again, one message in up to 3 deliveries, 2 slots | 110 k |
| event_pipeline | events are handled behind those sent before them; none below the checkpoint is passed over; what was sent gets handled | 3 messages of 2 sizes, capacity 2, 2 calls; 2 instances, batches of 2 | 747 k |
| maps | late scripts exceed the limit by no more than the delay allows; a call that waits gets through; answers are fresh | 2 processes, limit 2, window 3, delay up to 2 ticks, as users of the client or of the limiter; 1 retry, a ttl of 2 | 308 k |
| geo | zones partition an area, where float64 does not round on the cut; covers have what they can; the index finds exactly the drivers of its rings | 3 drivers at 10 points on edges, corners and beside them, two of them in one cell; 16 areas, some cut uprightly; rounding that differs by direction | 19 k |

The bounds are constants of the modules: the actors and values above;
`SuccessCap` caps a counter of HttpBreaker that grows in the closed state
without being looked at; `MaxDeliveries` is the broker's own limit;
`MaxStrays`, `MaxCalls`, `MaxLate`, `MaxDelay` and `Restarts` bound how much is
under way, and the hazards they are for need one or two. Times are ticks: the
code compares times only with `Timeout`, `ttl` and the window, so what matters
is before, at and after, which 1 to 3 ticks give. One call per client meets the
call of the other and its own retry; two would add the same again one after the
other. The consumer's one message meets itself, in several deliveries and in
two consumers, which is where the hazards are; two messages make the semaphore
wait for different ones, which adds states and no case (the theorems cover any
number).

Some properties hold until something happens that the code does not prevent.
Each such event is a history variable that the property names:

- `lost` (ResilienceBreaker): half-open slots of calls that were lost
- `harmed` (RateLimiter): the cleanup has deleted a bucket that was in use
- `lost`, `alone` (fields of `call` in DataAccess): a reply to the call was
  lost; no other call has had to do with the driver
- `calm` (Migrator): no rollback has overlapped another operation or gone by a
  tracking table that was read in part
- `bare` (Migrator): a transaction has run without a script
- `expired` (ServiceBusConsumer): a lock has expired in a consumer's hands
- `collapsed` (WindowLimiter): two calls have read the same microsecond; from
  then on `passed` counts nobody

Nothing else depends on them: no guard reads a history variable.

## 4. Fairness

- Breakers and their clients: goroutines that have a lock to take or a result
  to record go on, requests end, and time passes. For closing again, callers
  keep calling: the code has no timer, so without calls an open breaker stays
  open. `ClosesOnceHealthy` has the health of the service as its antecedent.
- Rate limiter: the ticker fires (`time.Ticker`), time passes, requests end.
- Lock: time passes; a holder ends its work, with Release or without; the Redis
  library bounds each call by its read timeout.
- Migrations: a replica that failed starts again; the database answers.
  `AllApplied` is about the time after the last failure.
- Service Bus: strong fairness for Receive, because receiving alternates with
  errors in the code's loop; handlers return; an abandoned lock expires, and a
  scheduled message becomes due. Nobody has to send, and nothing makes a crashed
  consumer start again: `AllSettled` asks for one that from some time on is up
  and not cancelled.
- Event Hubs: a partition without an owner is claimed; handlers and calls of
  the SDK return. A checkpoint need not ever succeed. Nothing is assumed of the
  sender.
- Maps: strong fairness for the clock reading of a sleeper, because the clock
  shows a microsecond only once and others may have it; scripts return.

`scripts`, `service` and `geo` check safety only: a script that is interrupted,
a client that gives up or a replica that failed may stop for good, so `service`
does not look for deadlock either.

## 5. What is proved

Every safety invariant and action property that a run checks is a theorem. The
compositions are proved about as such: each client, the event pipeline, the
service and the maps client.

| Module | Properties proved | Argument |
|---|---|---|
| ResilientHTTPClient_proofs | of the breaker TypeOK, ProbesBounded, RoomUnlessLost, OpenLastsTimeout, TransitionsAreEarned, ImplementsContract; the same under the client; OpenIsQuiet | SlotInv: in half-open the slots taken are those of probes under way, of successes and of lost calls of this period. CountersAreRuns: each counter is the length of the run of results it stands for. UnsentBounded: what was sent behind the open breaker and what was let through and is not sent yet are together fewer than the callers. |
| ResilientClient_proofs | of the breaker TypeOK, InProgressMatches, ProbesAreTracked, OpenLastsTimeout, TransitionsAreEarned, ImplementsContract; the same under the client; OpenIsQuiet | InProgressMatches counts the callers between increment and decrement, and is why the counter is never negative. UnmadeBounded counts pairs of a caller and an attempt it has left. |
| LimitersAndGeo_proofs | RateLimiter: TypeOK, ImplementsContract, InstantBound; WindowLimiter and MapsClient: LateBound, AnswersAreFresh; Geo: NearbyIsExact, ZonesPartition, AreaIsCovered | See below. |
| RedisLock_proofs | TypeOK, LeaseHeld, Exclusive | The values under way are pairwise apart, so a command can only touch the key its own client set; of its own a client has no Extend on its way that could shorten what it counts on. With that LeaseHeld is inductive, and Exclusive follows: the key has one value. |
| Service_proofs | AnswersAreTrue, TransactionsSettle, OfflineLasts, ServingMeansReady, NothingLeaksUnlessFailed, VerdictMatches, QueriesAreComplete | See below. |
| Migrator_proofs | TypeOK, SchemaMatches, PrefixApplied, DownTakesLast, UpMeansAll; of the scripts ScriptsRun, SchemaIsOfVersions | SchemaMatches is inductive with the types alone: both sets change in one transaction. For the others the invariant says what each list of work may leave out: an upward one only versions already recorded, a rollback only what stays below its first step. |
| ServiceBusConsumer_proofs | TypeOK, SlotsCounted, NothingLost, OneAtATime | A delivery in hand has a number the broker has given out and is in one place of one consumer; SlotsCounted then counts goroutines by cardinality, NothingLost uses that a settlement needs the lock of its own delivery. OneAtATime adds that until a lock expires in hand, what is in hand is the last delivery of its message, locked or put aside. |
| EventPipeline_proofs | of the consumer TypeOK, NonePassedOver, InOrder; in the pipeline NonePassedOver, InOrder, PrefixHandled, OkMeansInPartition, and that it refines the sender | What an instance has handled of its batch was tried, for owners and former owners alike, so a checkpoint may come from either. PipeInv joins to this what the sender has achieved: what it counts as sent is in the log, before each event of the log is one of the message before it, and what was tried has no gap. |

The clients need no second proof of what their breakers promise: every action
of a client is one of the breaker joined with what the client does, so
ClientSpec implements the specification of the breaker (ClientRefinesBreaker)
and each theorem of the breaker holds under the loop. MapsSpec implements
WindowSpec in the same way, which gives LateBound for the calls of the client,
and PipeSpec implements that of the sender.

Scripts. `Rank` numbers the fifty tables as the up scripts create them, and
ScriptsInv says that the tables that exist are always the first ones
(TablesAreStacked): each statement of an up script puts the next one on top, each
of a down script takes the last one off, so a script ends where the next one up
or down begins, and one that is undone ends where it began. As no table refers
to one of a higher number, what a statement creates finds what it names, and
what it drops is not referred to. That the scripts are like that is read off
each of them (CreatesPush, DropsPop, and for version 12, which adds columns in
between, WorkflowRaises and WorkflowLowers). There is no constant to generalize
over: the theorems say why TLC finds nothing, not more than it does.

RateLimiter. Until a bucket in use is deleted, the stored bucket is the only one
a request can hold, and exempt requests hold none; then each step is one of the
contract's or a stutter. Deleting a full bucket nobody holds is a stutter too,
since the next one is full. Afterwards InstantBound takes a potential
(BurstsBounded): what has passed in this tick, what the stored bucket may still
grant, what the bucket it replaced has left, and a token for each other request
that holds a bucket are together no more than the bound, and every step keeps or
lowers the sum.

WindowLimiter. WindowInv says that no more than the limit are entered with an
age below the window (WindowKept): a script that enters one has purged nothing
of that age, since its own clock reading is not in the future. A call that was
admitted within a window has such an entry unless its script ran so late that
its reading is older; there are at most as many of those as readings between
one window and one window and the delay, and readings differ (ReadingsDiffer,
until two calls collapse). CallInv of the client bounds the age of an answer by
the stage of its call.

Geo. IndexInv says that the lists of the cells hold every driver who has a home,
once, under the cell of his last position, and that none is empty. Splicing
keeps that because a driver is in a list once, so removing the first place
removes him, and appending because whoever moves was removed before. The answer
of a query is then the union over the disk, and a lemma says that the disk is
the cells within the distance. For polygons, the zones and the area walk the
outer edges in the same direction, and whether the cut is crossed does not
depend on its direction where nothing is rounded (CrossesBothWays: a product
that changes its sign), so the edges of the two zones count those of the area
once and the cut twice, and the parities add up, in all degenerate shapes too.
A point in a polygon has corners on all sides, however points on edges are
rounded: some edge crosses its latitude with an end no further west, and if every
corner were east, every edge that crosses the latitude would count, and a closed
walk does that an even number of times. That GeoJSON gives a polygon back is
proved for any number of corners, the rest for three and four, which the zones
have: for any number it would take an induction over the edges.

Geohashes. Encoding and decoding follow the same recursive function of halvings,
so what it yields is shown by induction, with the least counterexample of a set
in place of the library's schemes (CountingUp). The intervals around a
coordinate hold it (AroundHolds), are nested, and any other coordinate in one of
them takes the same halves up to there (SameHalves): so reading back the bits of
a hash narrows the world to the intervals around the point (ReadsBits,
NarrowedAround, DecodesToCell), and whatever lies in the cell of a point has its
geohash (SameHash), the centre included. For the covers: of samples no further
apart than the cell is wide, one lies in the interval of the point on each axis
(SampleJoins).

The invariant of `Service_proofs` has three parts that no step disturbs at once.
For calls (`DataInv`): a call is at a command of its program, which is known for
each family; a transaction is open only while its call is between a begin that
succeeded and whatever ends it (`OpenInv`); what a SetDriverOffline that is
alone has achieved stays, because nothing about the driver is under way or late
(`OfflineInv`); a call has had its effect exactly when its last command answered
nil, and commands that arrive late belong to calls that have lost a reply
(`RunInv`). For queries (`QueryInv`): what was found lies at or before the place
the next page continues after, once each, and every document that was there the
whole time lies behind that place or was found. For replicas (`LifeInv`): what
has been connected and created so far, what is open because of it, and that the
flags of a running probe are those of the checks that failed.

The theorems hold for every value of the constants under the assumptions named
`...Assumption` in the modules: thresholds, limits and windows are positive (as
the constructors make them, or as the broker has them), sets that are counted
are finite, the lock has values enough that a fresh one exists, points and
corners have coordinates, those of drivers within the world, and a name that stands for no partition comes before
all of them.

Some theorems are about properties that no run lists, because they restate less
than what is checked there: types, OpenLastsTimeout, ProbesAreTracked,
TransitionsAreEarned of the http breaker, LeaseHeld, DownTakesLast, UpMeansAll,
SlotsCounted, InOrder, OkMeansInPartition, and that ResilienceBreaker implements
the contract.

Only model-checked:

- Liveness, which is out of the prover's reach, as is ENABLED: ClosesOnceHealthy,
  UnusedKeysAreDropped, ComesFree, AllApplied, AllSettled, CancelReturns,
  AllHandled and WaitEnds.

## 6. Where the code and its words differ

One of the disagreements met while modelling is a run of its own, quoted in
`PROJECT.json`: probes of the http breaker exceed MaxConcurrentInHalfOpen. The
others are in the models, as the condition of a property or as an action a
reader may trace, unless they are said to be outside.

Breakers, clients, limiters:

- `resilience/circuit_breaker.go:129`: a probe whose context is done returns
  without recordResult and keeps its slot. After MaxRequests of them the breaker
  is half-open and refuses for good (`lost`), though line 18 says that half-open
  allows a number of requests.
- `resilience/http_client.go:113`: "Don't retry on context cancellation" compares
  with ==, but the http client wraps the error: a cancelled request is a failure
  of the service and asks the breaker again.
- `http/circuit_breaker.go:169`: a failure recorded while the breaker is open
  restarts its wait, so it stays open longer than the Timeout of line 45.
- `http/resilient_client.go:116`: a 404 counts as a failure of the service, and
  loops go on after the breaker has opened. The delay of line 249 overflows for
  large attempts (outside: delays are left out), and in `database/retry.go` the
  jitter is added after the cap.
- `http/rate_limiter.go:202`: the cleanup deletes a bucket that requests have
  drained since it looked (`harmed`); line 196 speaks of buckets that are full.
  SetEndpointLimit (line 281, outside) leaves the cleanup of the limiter it
  replaces running.

Data access and start-up:

- `database/redis.go:391`: an Extend with a shorter ttl that failed for its client
  may still arrive, and cut a lease that a later Extend was granted (`lease`).
- `database/redis.go:399`: Extend drops the 0 its script returns for a lock
  that is gone, and reports success.
- `database/retry.go`: "client errors are not retryable", but conflicts, missing
  items, missing keys and missing rows are tried again, being sentinels and not
  ResponseErrors.
- `database/cosmos.go`: a cross-partition query without an account key is said
  to signal the caller to use QueryAllPartitions, and looks at an empty
  partition instead; so does a query by @id of a container with another key.
- `database/redis_init.go:249`: SetDriverOffline ignores the error of SREM.
- `database/sql.go:301`: a transaction whose acknowledgement was lost is run
  again, and may commit twice.
- `database/connections.go:168`: Redis is configured without a port, so a service
  with Redis in its configuration never starts, and leaves a client behind for
  each ping; clients connected before a failure are not closed. HealthCheck
  does not ask Cosmos; SQLConnString is not used; Initialize does not look at
  opts.RunMigrations, and RunMigrations loads no migrations (the last four
  outside).
- `database/migrations.go:168`: Status does not look at rows.Err, so a read that
  breaks off looks like a shorter table, and Down takes another migration than
  the last (`calm`).
- `database/migrations.go:309`: DownTo deletes the row of a migration without a
  down script and leaves its schema (`bare`); Down refuses it (line 281).
- `database/migrations/sql/001_create_users.down.sql:3` and others: DROP INDEX
  without its table, and dropped columns with default constraints, are refused
  by SQL Server (`transact`), though `migrations.go:266` says that Down rolls
  back the last migration.

Messaging and maps:

- `messaging/eventhubs.go`: WithPartitionKey sets a field that Send and SendBatch
  do not use; SendBatch drops the content type and SendToPartition the
  properties (outside). Line 330: without options a processor skips what was
  sent before the first checkpoint (`FirstCheckpoint`).
- `messaging/servicebus.go:151`: SendBatch leaves the scheduled time, the session
  and the properties of its messages out, ScheduleMessage (line 187) the subject,
  the session and the properties (outside). Line 273: no method receives a
  message that was deferred, so `AllSettled` counts it as settled for good.
- `maps/redis_cache.go:140`: the time stamp is the member of the sorted set, so
  calls that read the same microsecond count once (`collapsed`).
- `maps/googlemaps.go`: the limiter is asked once for all attempts of a call, so
  `LateBound` counts calls and not requests, and the sleep between them looks at
  no context. A POST is tried again with the request that was sent before (line
  901): net/http rewinds its body when the connection was used before, and the
  service may then carry it out twice; on a new connection it fails (outside). The key of a place ignores the
  fields asked for; that of ReverseGeocode has four decimals, about 11 m, where
  its comment says 100 m (outside). InMemoryCache is a map without a lock.

Geometry:

- `geo/geohash.go:147`: Neighbors uses its tables the wrong way round, and one of
  them has 36 entries: north, east and west lead elsewhere, and CoverRadius does
  not cover east and west (outside).
- `geo/geohash.go:252`: CoverBoundingBox samples tenths, so it misses cells
  smaller than that or past the last sample (the conditions of `AreaIsCovered`),
  and never ends on a box without height or width.
- `geo/polygon.go:34`: what the quotient is rounded to depends on the end of the
  edge it starts from, and zones walk a shared edge in opposite directions. Cut
  from (0, 0.1) to (1, 1.1) in latitude and longitude, the square between them
  has its corner (0, 0.1) in both zones: 0.10000000000000009 is east of 0.1
  (`OnRoundedCut`).
- `geo/h3.go`: CoverRadius stops at ten rings without a word, OptimizeBatch may
  match one request to two drivers (both outside), and the index has no lock.

## 7. Not modelled

Without a module: signalr (a request and a token each), authentication (one
decision per request), configuration (read once), errors, vehicle classes and
validation (tables and pure predicates a unit test covers), logging, audit and
telemetry (I/O), test support.

Left out of components that are modelled: the registries of breakers and
OnStateChange callbacks; limits per endpoint; hashes, Subscribe and plain reads
of Redis; the typed repositories; indexing policies; reading scripts from files,
columns of CREATE TABLE and seed rows; what receives from a queue or partition
without a loop; distances, heatmaps, batch
matching and the neighbour tables of `geo/`; middleware. The inner workings of
the SDKs are left out too: the modules contain what the code relies on, each
such definition marked external in the map. Payloads, names, headers and texts
are left out everywhere. The clocks of processes agree in `WindowLimiter`; TTLs
of `RedisLock` are measured by Redis alone.

Four hazards have no property: SuccessThreshold above MaxRequests leaves a
half-open breaker without a way to close (the modules assume it is not), a
processor without a first checkpoint skips events (the pipeline assumes there is
one), nothing in the code keeps a POST from being carried out twice, and the
neighbour tables.

## 8. Plan

Done, in this order: the breakers and their contract, the limiter and its
contract, the lock, the runner and the scripts, the consumers and senders, the
window limiter; then the clients of both breakers, the data access of a service
with its life and its queries, the maps client, the event pipeline, geometry;
proofs along the way.

What would come next:

1. Proofs: polygons of any number of corners, by the induction that the
   geohashes use.
2. Breakers with a registry, limits per endpoint, and an observer of callbacks.
3. The delays of the loops, with their widths, and the reading of scripts.
4. Batch matching and neighbours, once they do what their names say.
