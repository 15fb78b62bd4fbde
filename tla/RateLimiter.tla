----------------------------- MODULE RateLimiter -----------------------------
(***************************************************************************)
(* The rate limiter of http/rate_limiter.go for one key: the token bucket, *)
(* the sync.Map entry that leads to it, the HTTP requests that go through  *)
(* Middleware, and the cleanup goroutine.  Keys share no bucket and the    *)
(* cleanup treats them one by one, so one key stands for each.             *)
(*                                                                         *)
(* A tick is the time one token takes to refill.  A bucket is refilled     *)
(* lazily: it keeps its tokens and the time of its last refill, here the   *)
(* ticks since then, counted up to Burst because a bucket holds no more.   *)
(* The cleanup runs at most once a tick: CleanupInterval is no shorter     *)
(* than the time one token takes (a minute against 10 ms by default).      *)
(***************************************************************************)
EXTENDS Integers, FiniteSets

CONSTANTS
    Requests,       \* goroutines that serve HTTP requests of this key
    Excluded,       \* those that config.ExcludeFunc exempts
    Buckets,        \* identities of token buckets, reused once unreachable
    NoBucket,       \* the key has no entry in the map
    Burst           \* config.BurstSize

ASSUME LimiterAssumption ==
    /\ IsFiniteSet(Requests)
    /\ Excluded \subseteq Requests
    /\ IsFiniteSet(Buckets)
    /\ Cardinality(Buckets) >= Cardinality(Requests)
    /\ NoBucket \notin Buckets
    /\ Burst \in Nat \ {0}

VARIABLES
    stored,     \* rl.buckets[key]
    tokens,     \* tokens of each bucket
    age,        \* time since lastRefill of each bucket, at most Burst
    pc,         \* where each request is in Middleware
    held,       \* the bucket each request is about to call Allow on
    cleaner,    \* cleanupLoop: "ready" for its ticker, "deleting" (after
                \* Tokens, before Delete), "swept" (has run in this tick),
                \* "stopped"
    closed,     \* Close was called
    granted,    \* history: requests let through since the last tick
    harmed      \* history: the cleanup has deleted a bucket in use

vars == <<stored, tokens, age, pc, held, cleaner, closed, granted, harmed>>

(* "miss": Load found nothing.  "holding": getBucket returned, Allow has   *)
(* not run.  "allowed", "denied": Allow returned; the middleware looks the *)
(* bucket up again for its headers, and may miss it again.                 *)
Stages == {"idle", "miss", "holding",
           "allowed", "denied", "allowedMiss", "deniedMiss"}

Min2(m, n) == IF m < n THEN m ELSE n

(* What a bucket holds once refilled, as Allow and Tokens compute it. *)
Level(b) == Min2(tokens[b] + age[b], Burst)

(* BurstSize * 0.99, in whole tokens. *)
CleanupLevel == Burst - Burst \div 100

(* A bucket that neither the map nor a request refers to. *)
Unreachable == {b \in Buckets : b # stored /\ \A r \in Requests : held[r] # b}

------------------------------------------------------------------------------
Init ==
    /\ stored = NoBucket
    /\ tokens = [b \in Buckets |-> Burst]
    /\ age = [b \in Buckets |-> 0]
    /\ pc = [r \in Requests |-> "idle"]
    /\ held = [r \in Requests |-> NoBucket]
    /\ cleaner \in {"ready", "stopped"}     \* CleanupInterval > 0, or not
    /\ closed = FALSE
    /\ granted = 0
    /\ harmed = FALSE

Move(r, from, to) ==
    /\ pc[r] = from
    /\ pc' = [pc EXCEPT ![r] = to]

(* getBucket, first half: Load. *)
LoadHit(r) ==
    /\ r \notin Excluded
    /\ Move(r, "idle", "holding")
    /\ stored # NoBucket
    /\ held' = [held EXCEPT ![r] = stored]
    /\ UNCHANGED <<stored, tokens, age, cleaner, closed, granted, harmed>>

LoadMiss(r) ==
    /\ r \notin Excluded
    /\ Move(r, "idle", "miss")
    /\ stored = NoBucket
    /\ UNCHANGED <<stored, tokens, age, held, cleaner, closed, granted, harmed>>

(* NewTokenBucket, put into the map: some bucket out of use serves. *)
NewBucket == CHOOSE b \in Unreachable : TRUE

Create(b) ==
    /\ stored' = b
    /\ tokens' = [tokens EXCEPT ![b] = Burst]
    /\ age' = [age EXCEPT ![b] = 0]

(* Fault of a mutant run: Store in place of LoadOrStore. *)
StoreAlways == Unreachable # {} /\ Create(NewBucket)

(* getBucket, second half: LoadOrStore keeps what another request stored   *)
(* in the meantime and drops the new bucket.                               *)
LoadOrStore ==
    \/ /\ stored = NoBucket
       /\ Create(NewBucket)
    \/ /\ stored # NoBucket
       /\ UNCHANGED <<stored, tokens, age>>

ObtainBucket(r) ==
    /\ Move(r, "miss", "holding")
    /\ LoadOrStore
    /\ held' = [held EXCEPT ![r] = stored']
    /\ UNCHANGED <<cleaner, closed, granted, harmed>>

(* Fault of a mutant run: the refill is not capped by the bucket's size. *)
UncappedLevel(b) == tokens[b] + age[b]

RefilledLevel(b) == Level(b)

(* TokenBucket.Allow, one critical section: refill, then take a token. *)
TakeToken(r) ==
    LET b == held[r] IN
    /\ Move(r, "holding", "allowed")
    /\ RefilledLevel(b) >= 1
    /\ tokens' = [tokens EXCEPT ![b] = RefilledLevel(b) - 1]
    /\ age' = [age EXCEPT ![b] = 0]
    /\ granted' = granted + 1
    /\ held' = [held EXCEPT ![r] = NoBucket]
    /\ UNCHANGED <<stored, cleaner, closed, harmed>>

FindEmpty(r) ==
    LET b == held[r] IN
    /\ Move(r, "holding", "denied")
    /\ RefilledLevel(b) < 1
    /\ tokens' = [tokens EXCEPT ![b] = RefilledLevel(b)]
    /\ age' = [age EXCEPT ![b] = 0]
    /\ held' = [held EXCEPT ![r] = NoBucket]
    /\ UNCHANGED <<stored, cleaner, closed, granted, harmed>>

(* RateLimiter.Allow lets an excluded request through without a bucket. *)
Exempt(r) ==
    /\ r \in Excluded
    /\ Move(r, "idle", "allowed")
    /\ UNCHANGED <<stored, tokens, age, held, cleaner, closed, granted, harmed>>

(* The middleware calls getBucket once more to write its headers, for an   *)
(* excluded request too, and that call may create the bucket.              *)
HeaderHit(r) ==
    /\ stored # NoBucket
    /\ Move(r, "allowed", "idle") \/ Move(r, "denied", "idle")
    /\ UNCHANGED <<stored, tokens, age, held, cleaner, closed, granted, harmed>>

HeaderMiss(r) ==
    /\ stored = NoBucket
    /\ Move(r, "allowed", "allowedMiss") \/ Move(r, "denied", "deniedMiss")
    /\ UNCHANGED <<stored, tokens, age, held, cleaner, closed, granted, harmed>>

HeaderStore(r) ==
    /\ Move(r, "allowedMiss", "idle") \/ Move(r, "deniedMiss", "idle")
    /\ LoadOrStore
    /\ UNCHANGED <<held, cleaner, closed, granted, harmed>>

(* Fault of a mutant run: only a bucket fuller than full is removed. *)
FullerThanFull == Level(stored) > CleanupLevel

LooksUnused == Level(stored) >= CleanupLevel

(* The bucket is short of tokens, or a request is about to draw on it. *)
InUse == Level(stored) < Burst \/ \E r \in Requests : held[r] # NoBucket

(* cleanup: Tokens and Delete are separate calls, the second without       *)
(* another look at the bucket.                                             *)
CleanupCheck ==
    /\ cleaner = "ready"
    /\ stored # NoBucket
    /\ cleaner' = IF LooksUnused THEN "deleting" ELSE "swept"
    /\ UNCHANGED <<stored, tokens, age, pc, held, closed, granted, harmed>>

CleanupDelete ==
    /\ cleaner = "deleting"
    /\ stored' = NoBucket
    /\ cleaner' = "swept"
    /\ harmed' = (harmed \/ InUse)
    /\ UNCHANGED <<tokens, age, pc, held, closed, granted>>

(* Close cancels the loop's context and nothing else: requests go on. *)
Close ==
    /\ ~closed
    /\ closed' = TRUE
    /\ UNCHANGED <<stored, tokens, age, pc, held, cleaner, granted, harmed>>

(* The loop's select sees the context; while the ticker is ready too it    *)
(* may choose either.                                                      *)
LoopReturns ==
    /\ closed
    /\ cleaner \in {"ready", "swept"}
    /\ cleaner' = "stopped"
    /\ UNCHANGED <<stored, tokens, age, pc, held, closed, granted, harmed>>

(* A token's worth of time passes; what buckets out of use held is         *)
(* forgotten (they are garbage, and Create sets them anew).                *)
Tick ==
    /\ age' = [b \in Buckets |-> IF b \in Unreachable THEN Burst
                                                      ELSE Min2(age[b] + 1, Burst)]
    /\ granted' = 0
    /\ cleaner' = IF cleaner = "swept" THEN "ready" ELSE cleaner
    /\ tokens' = [b \in Buckets |-> IF b \in Unreachable THEN 0 ELSE tokens[b]]
    /\ UNCHANGED <<stored, pc, held, closed, harmed>>

Next ==
    \/ Tick \/ CleanupCheck \/ CleanupDelete \/ Close \/ LoopReturns
    \/ \E r \in Requests :
          \/ LoadHit(r) \/ LoadMiss(r) \/ ObtainBucket(r)
          \/ TakeToken(r) \/ FindEmpty(r) \/ Exempt(r)
          \/ HeaderHit(r) \/ HeaderMiss(r) \/ HeaderStore(r)

Spec == Init /\ [][Next]_vars

(* Time passes, the ticker of the cleanup fires, and a request that has    *)
(* started is answered: none of its steps waits for anything but a mutex.  *)
Fairness ==
    /\ WF_vars(Tick)
    /\ WF_vars(CleanupCheck)
    /\ WF_vars(CleanupDelete)
    /\ \A r \in Requests :
          /\ WF_vars(ObtainBucket(r))
          /\ WF_vars(TakeToken(r) \/ FindEmpty(r))
          /\ WF_vars(HeaderHit(r) \/ HeaderMiss(r) \/ HeaderStore(r))

FairSpec == Spec /\ Fairness

------------------------------------------------------------------------------
(* Types, and that a request that calls Allow has a bucket to call it on. *)
TypeOK ==
    /\ stored \in Buckets \cup {NoBucket}
    /\ tokens \in [Buckets -> 0..Burst]
    /\ age \in [Buckets -> 0..Burst]
    /\ pc \in [Requests -> Stages]
    /\ held \in [Requests -> Buckets \cup {NoBucket}]
    /\ \A r \in Requests : pc[r] = "holding" <=> held[r] # NoBucket
    /\ cleaner \in {"ready", "deleting", "swept", "stopped"}
    /\ closed \in BOOLEAN
    /\ granted \in Nat
    /\ harmed \in BOOLEAN

(* The bucket of each request, as TokenBucketContract sees it: a key that  *)
(* has no bucket yet has all its tokens.                                   *)
Verdict(stage) ==
    CASE stage \in {"allowed", "allowedMiss"} -> "allowed"
      [] stage \in {"denied", "deniedMiss"} -> "denied"
      [] OTHER -> "none"

Contract ==
    INSTANCE TokenBucketContract WITH
        Requests <- Requests \ Excluded,
        level <- IF stored = NoBucket THEN Burst ELSE Level(stored),
        verdict <- [r \in Requests \ Excluded |-> Verdict(pc[r])]

(* However many requests race to create the bucket of a key (LoadOrStore,  *)
(* line 158), the limiter is a single bucket per key, refilled at its      *)
(* rate: a request is let through iff there is a token for it.  That holds *)
(* until the cleanup deletes a bucket in use, which it may: it looks at    *)
(* the bucket and deletes it in two steps.                                 *)
ImplementsContract ==
    /\ Contract!ContractInit
    /\ [][harmed' \/ Contract!ContractNext]_(Contract!contractVars)

(* A bucket deleted in use is replaced by a full one, at most once a tick, *)
(* and requests that hold the old bucket still draw on it.  Two bursts,    *)
(* and one token for each request that held a bucket dropped earlier, is   *)
(* the most that ever passes within a tick.                                *)
InstantBound ==
    granted <= 2 * Burst + Cardinality(Requests \ Excluded)

(* A key nobody uses any more is dropped from the map while the cleanup    *)
(* runs: the map does not keep every client it has ever seen.              *)
UnusedKeysAreDropped ==
    <>[](cleaner # "stopped" /\ ~closed /\ \A r \in Requests : pc[r] = "idle")
        => <>[](stored = NoBucket)

==============================================================================
