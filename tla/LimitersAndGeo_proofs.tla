------------------------ MODULE LimitersAndGeo_proofs -------------------------
(***************************************************************************)
(* Proofs about the two limiters and the maps client, for any number of    *)
(* requests and clients, any limits and any delays, and about the driver   *)
(* index and the geofences, for any drivers, points and corners.           *)
(*                                                                         *)
(* RateLimiter: types; the token bucket contract until the cleanup deletes *)
(* a bucket in use, which rests on the one bucket that racing requests     *)
(* agree on; and how much passes in a tick even then.                      *)
(*                                                                         *)
(* WindowLimiter: what a window admits when scripts run late.  MapsClient: *)
(* it uses its limiter as the limiter allows, so the same holds of its     *)
(* calls; and how old its answers are.                                     *)
(*                                                                         *)
(* DriverIndex: the lists of its cells hold each driver once, where he     *)
(* was last; so it answers exactly.  Polygon: but where float64 rounds, an *)
(* edge is crossed whichever end is first, and a cut counts twice; so the  *)
(* zones divide the area.  Geohash: whatever lies in the cell of a point   *)
(* has its geohash; so a cover has those of the drivers in the area.       *)
(***************************************************************************)
EXTENDS RateLimiter, MapsClient, Geo, FiniteSetTheorems, WellFoundedInduction, TLAPS

------------------------------------------------------------------------------
(* RateLimiter.                                                            *)

(* A request that holds no bucket finds one to create when the map has     *)
(* none: the others hold fewer buckets than there are.                     *)
LEMMA SomeBucketIsFree ==
    ASSUME TypeOK, stored = NoBucket, NEW r \in Requests, held[r] = NoBucket
    PROVE  NewBucket \in Unreachable
<1> USE LimiterAssumption DEF LimiterAssumption
<1> DEFINE Others == Requests \ {r}
           Used == {held[q] : q \in Others}
<1>1. IsFiniteSet(Others) /\ Cardinality(Others) = Cardinality(Requests) - 1
    BY FS_RemoveElement
<1>2. IsFiniteSet(Used) /\ Cardinality(Used) <= Cardinality(Others)
    <2> DEFINE f == [q \in Others |-> held[q]]
    <2>1. f \in Surjection(Others, Used)
        BY DEF Surjection
    <2> QED BY <1>1, <2>1, FS_Surjection
<1>3. ~(Buckets \subseteq Used)
    <2> SUFFICES ASSUME Buckets \subseteq Used PROVE FALSE
        OBVIOUS
    <2>1. Cardinality(Buckets) <= Cardinality(Used)
        BY <1>2, FS_Subset
    <2>2. /\ Cardinality(Requests) \in Nat
          /\ Cardinality(Others) \in Nat
          /\ Cardinality(Used) \in Nat
          /\ Cardinality(Buckets) \in Nat
        BY <1>1, <1>2, FS_CardinalityType
    <2> QED BY <2>1, <2>2, <1>1, <1>2
<1>4. PICK b \in Buckets : b \notin Used
    BY <1>3
<1>5. b \in Unreachable
    BY <1>4 DEF Unreachable
<1> QED BY <1>5 DEF NewBucket

(* What a refilled bucket holds. *)
LEMMA LevelType ==
    ASSUME TypeOK, NEW b \in Buckets
    PROVE  Level(b) \in 0..Burst
BY LimiterAssumption DEF TypeOK, Level, Min2

(* LoadOrStore leaves the key with a bucket, and well-formed buckets. *)
LEMMA StoreType ==
    ASSUME TypeOK, NEW r \in Requests, held[r] = NoBucket, LoadOrStore
    PROVE  /\ stored' \in Buckets
           /\ stored # NoBucket => stored' = stored
           /\ tokens' \in [Buckets -> 0..Burst]
           /\ age' \in [Buckets -> 0..Burst]
<1> USE LimiterAssumption DEF LimiterAssumption
<1>1. CASE stored = NoBucket
    <2>1. NewBucket \in Buckets
        BY <1>1, SomeBucketIsFree DEF Unreachable
    <2> QED BY <1>1, <2>1 DEF LoadOrStore, Create, TypeOK
<1>2. CASE stored # NoBucket
    BY <1>2 DEF LoadOrStore, TypeOK
<1> QED BY <1>1, <1>2

(* Every bucket holds between no token and BurstSize, and a request that   *)
(* calls Allow has a bucket to call it on.                                 *)
THEOREM TypeCorrect == Spec => []TypeOK
<1> USE LimiterAssumption DEF LimiterAssumption
<1>1. Init => TypeOK
    <2> SUFFICES ASSUME Init PROVE TypeOK
        OBVIOUS
    <2>1. cleaner \in {"ready", "deleting", "swept", "stopped"}
        BY Zenon DEF Init
    <2>0. /\ stored = NoBucket
          /\ tokens = [b \in Buckets |-> Burst]
          /\ age = [b \in Buckets |-> 0]
          /\ closed = FALSE
          /\ granted = 0
        BY Zenon DEF Init
    <2>2. /\ stored \in Buckets \cup {NoBucket}
          /\ tokens \in [Buckets -> 0..Burst]
          /\ age \in [Buckets -> 0..Burst]
          /\ granted \in Nat
        BY <2>0
    <2>4. closed \in BOOLEAN /\ harmed \in BOOLEAN
        BY Zenon DEF Init
    <2>3. /\ pc \in [Requests -> Stages]
          /\ held \in [Requests -> Buckets \cup {NoBucket}]
          /\ \A r \in Requests : pc[r] = "holding" <=> held[r] # NoBucket
        BY DEF Init, Stages
    <2> QED BY <2>1, <2>2, <2>3, <2>4 DEF TypeOK
<1>2. TypeOK /\ [Next]_vars => TypeOK'
    <2> SUFFICES ASSUME TypeOK, [Next]_vars PROVE TypeOK'
        OBVIOUS
    <2>1. CASE UNCHANGED vars
        BY <2>1 DEF vars, TypeOK
    <2>2. CASE Tick
        BY <2>2 DEF Tick, TypeOK, Min2, Unreachable
    <2>3. CASE CleanupCheck
        BY <2>3 DEF CleanupCheck, TypeOK
    <2>4. CASE CleanupDelete
        <3>1. harmed' \in BOOLEAN
            BY Zenon, <2>4 DEF CleanupDelete, TypeOK
        <3> QED BY <2>4, <3>1 DEF CleanupDelete, TypeOK
    <2>5. CASE Close
        BY <2>5 DEF Close, TypeOK
    <2>6. CASE LoopReturns
        BY <2>6 DEF LoopReturns, TypeOK
    <2>7. ASSUME NEW r \in Requests, LoadHit(r) PROVE TypeOK'
        BY <2>7 DEF LoadHit, Move, TypeOK, Stages
    <2>8. ASSUME NEW r \in Requests, LoadMiss(r) PROVE TypeOK'
        BY <2>8 DEF LoadMiss, Move, TypeOK, Stages
    <2>9. ASSUME NEW r \in Requests, ObtainBucket(r) PROVE TypeOK'
        <3>1. held[r] = NoBucket
            BY <2>9 DEF ObtainBucket, Move, TypeOK
        <3>2. /\ stored' \in Buckets
              /\ tokens' \in [Buckets -> 0..Burst]
              /\ age' \in [Buckets -> 0..Burst]
            BY <2>9, <3>1, StoreType DEF ObtainBucket
        <3> QED BY <2>9, <3>2 DEF ObtainBucket, Move, TypeOK, Stages
    <2>10. ASSUME NEW r \in Requests, TakeToken(r) PROVE TypeOK'
        <3>1. held[r] \in Buckets
            BY <2>10 DEF TakeToken, Move, TypeOK
        <3>2. RefilledLevel(held[r]) \in 0..Burst
            BY <3>1, LevelType DEF RefilledLevel
        <3> QED BY <2>10, <3>1, <3>2 DEF TakeToken, Move, TypeOK, Stages
    <2>11. ASSUME NEW r \in Requests, FindEmpty(r) PROVE TypeOK'
        <3>1. held[r] \in Buckets
            BY <2>11 DEF FindEmpty, Move, TypeOK
        <3>2. RefilledLevel(held[r]) \in 0..Burst
            BY <3>1, LevelType DEF RefilledLevel
        <3> QED BY <2>11, <3>1, <3>2 DEF FindEmpty, Move, TypeOK, Stages
    <2>12. ASSUME NEW r \in Requests, Exempt(r) PROVE TypeOK'
        BY <2>12 DEF Exempt, Move, TypeOK, Stages
    <2>13. ASSUME NEW r \in Requests, HeaderHit(r) PROVE TypeOK'
        BY <2>13 DEF HeaderHit, Move, TypeOK, Stages
    <2>14. ASSUME NEW r \in Requests, HeaderMiss(r) PROVE TypeOK'
        BY <2>14 DEF HeaderMiss, Move, TypeOK, Stages
    <2>15. ASSUME NEW r \in Requests, HeaderStore(r) PROVE TypeOK'
        <3>1. held[r] = NoBucket
            BY <2>15 DEF HeaderStore, Move, TypeOK
        <3>2. /\ stored' \in Buckets
              /\ tokens' \in [Buckets -> 0..Burst]
              /\ age' \in [Buckets -> 0..Burst]
            BY <2>15, <3>1, StoreType DEF HeaderStore
        <3> QED BY <2>15, <3>2 DEF HeaderStore, Move, TypeOK, Stages
    <2> QED
        BY <2>1, <2>2, <2>3, <2>4, <2>5, <2>6, <2>7, <2>8, <2>9, <2>10,
           <2>11, <2>12, <2>13, <2>14, <2>15 DEF Next
<1> QED BY <1>1, <1>2, PTL DEF Spec

(* Unless the cleanup has deleted a bucket in use, a request that is about *)
(* to draw on a bucket holds the one in the map, however many requests     *)
(* raced to create it (LoadOrStore at line 158).                           *)
SoleBucket ==
    ~harmed => \A r \in Requests : held[r] \in {NoBucket, stored}

LEMMA SoleBucketKept == TypeOK /\ SoleBucket /\ [Next]_vars => SoleBucket'
<1> USE LimiterAssumption DEF LimiterAssumption
<1> SUFFICES ASSUME TypeOK, SoleBucket, [Next]_vars, ~harmed' PROVE SoleBucket'
    BY DEF SoleBucket
<1>1. CASE UNCHANGED vars
    BY <1>1 DEF vars, SoleBucket
<1>2. CASE Tick \/ CleanupCheck \/ Close \/ LoopReturns
    BY <1>2 DEF Tick, CleanupCheck, Close, LoopReturns, SoleBucket
<1>3. CASE CleanupDelete
    BY <1>3 DEF CleanupDelete, InUse, SoleBucket
<1>4. ASSUME NEW r \in Requests, LoadHit(r) \/ LoadMiss(r) \/ TakeToken(r) \/ FindEmpty(r)
      PROVE  SoleBucket'
    BY <1>4 DEF LoadHit, LoadMiss, TakeToken, FindEmpty, TypeOK, SoleBucket
<1>5. ASSUME NEW r \in Requests, Exempt(r) \/ HeaderHit(r) \/ HeaderMiss(r)
      PROVE  SoleBucket'
    BY <1>5 DEF Exempt, HeaderHit, HeaderMiss, SoleBucket
<1>6. ASSUME NEW r \in Requests, ObtainBucket(r) PROVE SoleBucket'
    <2>1. held[r] = NoBucket
        BY <1>6 DEF ObtainBucket, Move, TypeOK
    <2>2. stored # NoBucket => stored' = stored
        BY <1>6, <2>1, StoreType DEF ObtainBucket
    <2>3. held' = [held EXCEPT ![r] = stored'] /\ harmed' = harmed
        BY <1>6 DEF ObtainBucket
    <2> QED BY <2>2, <2>3 DEF TypeOK, SoleBucket
<1>7. ASSUME NEW r \in Requests, HeaderStore(r) PROVE SoleBucket'
    <2>1. held[r] = NoBucket
        BY <1>7 DEF HeaderStore, Move, TypeOK
    <2>2. stored # NoBucket => stored' = stored
        BY <1>7, <2>1, StoreType DEF HeaderStore
    <2>3. held' = held /\ harmed' = harmed
        BY <1>7 DEF HeaderStore
    <2> QED BY <2>2, <2>3 DEF TypeOK, SoleBucket
<1> QED BY <1>1, <1>2, <1>3, <1>4, <1>5, <1>6, <1>7 DEF Next

(* The abstract state that a bucket's tokens stand for. *)
ContractLevel == IF stored = NoBucket THEN Burst ELSE Level(stored)
ContractVerdict == [r \in Requests \ Excluded |-> Verdict(pc[r])]

(* A tick is a Refill of the one bucket, or nothing when it is full. *)
LEMMA TickRefills ==
    ASSUME TypeOK, Tick
    PROVE  /\ ContractVerdict' = ContractVerdict
           /\ \/ ContractLevel' = ContractLevel
              \/ ContractLevel < Burst /\ ContractLevel' = ContractLevel + 1
<1> USE LimiterAssumption DEF LimiterAssumption
<1>1. ContractVerdict' = ContractVerdict
    BY DEF Tick, ContractVerdict
<1>2. CASE stored = NoBucket
    BY <1>1, <1>2 DEF Tick, ContractLevel
<1>3. CASE stored # NoBucket
    <2>1. stored \in Buckets /\ stored' = stored /\ stored \notin Unreachable
        BY <1>3 DEF TypeOK, Tick, Unreachable
    <2>2. /\ tokens'[stored] = tokens[stored]
          /\ age'[stored] = Min2(age[stored] + 1, Burst)
        BY <2>1 DEF Tick
    <2>3. /\ tokens[stored] \in 0..Burst
          /\ age[stored] \in 0..Burst
        BY <2>1 DEF TypeOK
    <2>4. \/ Level(stored)' = Level(stored)
          \/ Level(stored) < Burst /\ Level(stored)' = Level(stored) + 1
        BY <2>1, <2>2, <2>3 DEF Level, Min2
    <2> QED BY <1>1, <1>3, <2>1, <2>4 DEF ContractLevel
<1> QED BY <1>2, <1>3

(* A bucket that is created, or kept, holds what the contract says.  *)
LEMMA StoreKeepsLevel ==
    ASSUME TypeOK, NEW r \in Requests, held[r] = NoBucket, LoadOrStore
    PROVE  ContractLevel' = ContractLevel
<1> USE LimiterAssumption DEF LimiterAssumption
<1>1. CASE stored = NoBucket
    <2>1. NewBucket \in Buckets
        BY <1>1, SomeBucketIsFree DEF Unreachable
    <2>2. /\ stored' = NewBucket
          /\ tokens'[NewBucket] = Burst
          /\ age'[NewBucket] = 0
        BY <1>1, <2>1 DEF LoadOrStore, Create, TypeOK
    <2> QED BY <1>1, <2>1, <2>2 DEF ContractLevel, Level, Min2
<1>2. CASE stored # NoBucket
    BY <1>2 DEF LoadOrStore, ContractLevel, Level
<1> QED BY <1>1, <1>2

(* An excluded request (lines 164-166) never gets as far as a bucket's     *)
(* Allow.                                                                  *)
ExcludedPass ==
    \A r \in Excluded : pc[r] \in {"idle", "allowed", "allowedMiss"}

LEMMA ExcludedPassKept == TypeOK /\ ExcludedPass /\ [Next]_vars => ExcludedPass'
<1> USE LimiterAssumption DEF LimiterAssumption
<1> SUFFICES ASSUME TypeOK, ExcludedPass, [Next]_vars PROVE ExcludedPass'
    OBVIOUS
<1>1. CASE UNCHANGED pc
    BY <1>1 DEF ExcludedPass
<1>2. ASSUME NEW r \in Requests,
             LoadHit(r) \/ LoadMiss(r) \/ ObtainBucket(r) \/ TakeToken(r) \/ FindEmpty(r)
      PROVE  ExcludedPass'
    <2>1. r \notin Excluded
        BY <1>2 DEF LoadHit, LoadMiss, ObtainBucket, TakeToken, FindEmpty, Move, ExcludedPass
    <2>2. PICK to : pc' = [pc EXCEPT ![r] = to]
        BY <1>2 DEF LoadHit, LoadMiss, ObtainBucket, TakeToken, FindEmpty, Move
    <2> QED BY <2>1, <2>2 DEF TypeOK, ExcludedPass
<1>3. ASSUME NEW r \in Requests,
             Exempt(r) \/ HeaderHit(r) \/ HeaderMiss(r) \/ HeaderStore(r)
      PROVE  ExcludedPass'
    <2>1. CASE r \in Excluded
        <3>1. PICK to \in {"idle", "allowed", "allowedMiss"} : pc' = [pc EXCEPT ![r] = to]
            BY <1>3, <2>1
            DEF Exempt, HeaderHit, HeaderMiss, HeaderStore, Move, ExcludedPass
        <3> QED BY <3>1 DEF TypeOK, ExcludedPass
    <2>2. CASE r \notin Excluded
        <3>1. PICK to : pc' = [pc EXCEPT ![r] = to]
            BY <1>3 DEF Exempt, HeaderHit, HeaderMiss, HeaderStore, Move
        <3> QED BY <2>2, <3>1 DEF TypeOK, ExcludedPass
    <2> QED BY <2>1, <2>2
<1> QED
    BY <1>1, <1>2, <1>3
    DEF Next, vars, Tick, CleanupCheck, CleanupDelete, Close, LoopReturns

(* Every step of the limiter is a step of the contract, or none of its     *)
(* business.                                                               *)
LEMMA StepImplementsContract ==
    ASSUME TypeOK, SoleBucket, ExcludedPass, [Next]_vars, ~harmed'
    PROVE  [Contract!ContractNext]_(Contract!contractVars)
<1> USE LimiterAssumption DEF LimiterAssumption
<1> DEFINE Metered == Requests \ Excluded
           Quiet == ContractLevel' = ContractLevel /\ ContractVerdict' = ContractVerdict
           Answered(r, v) ==
               /\ ContractVerdict[r] = "none"
               /\ ContractVerdict' = [ContractVerdict EXCEPT ![r] = v]
<1>a. Quiet => UNCHANGED Contract!contractVars
    BY DEF Contract!contractVars, ContractLevel, ContractVerdict
<1>b. ASSUME NEW r \in Metered, Answered(r, "allowed"), ContractLevel >= 1,
             ContractLevel' = ContractLevel - 1
      PROVE  Contract!ContractNext
    BY <1>b DEF Contract!ContractNext, Contract!Grant, ContractLevel, ContractVerdict
<1>c. ASSUME NEW r \in Metered, Answered(r, "denied"), ContractLevel < 1,
             ContractLevel' = ContractLevel
      PROVE  Contract!ContractNext
    BY <1>c DEF Contract!ContractNext, Contract!Deny, ContractLevel, ContractVerdict
<1>d. ASSUME NEW r \in Metered, ContractVerdict[r] # "none",
             ContractVerdict' = [ContractVerdict EXCEPT ![r] = "none"],
             ContractLevel' = ContractLevel
      PROVE  Contract!ContractNext
    BY <1>d DEF Contract!ContractNext, Contract!Finish, ContractLevel, ContractVerdict
<1>e. ASSUME NEW r \in Requests, NEW from \in Stages, NEW to \in Stages,
             Move(r, from, to)
      PROVE  /\ Verdict(to) = Verdict(from) => ContractVerdict' = ContractVerdict
             /\ r \in Excluded => ContractVerdict' = ContractVerdict
             /\ r \in Metered => /\ ContractVerdict[r] = Verdict(from)
                                 /\ ContractVerdict' =
                                        [ContractVerdict EXCEPT ![r] = Verdict(to)]
    BY <1>e DEF Move, ContractVerdict, TypeOK
<1>f. /\ Verdict("idle") = "none" /\ Verdict("miss") = "none" /\ Verdict("holding") = "none"
      /\ Verdict("allowed") = "allowed" /\ Verdict("allowedMiss") = "allowed"
      /\ Verdict("denied") = "denied" /\ Verdict("deniedMiss") = "denied"
    BY DEF Verdict
<1>g. /\ "idle" \in Stages /\ "miss" \in Stages /\ "holding" \in Stages
      /\ "allowed" \in Stages /\ "allowedMiss" \in Stages
      /\ "denied" \in Stages /\ "deniedMiss" \in Stages
    BY DEF Stages
<1>h. ~harmed
    BY DEF Next, vars, Tick, CleanupCheck, CleanupDelete, Close, LoopReturns, LoadHit,
           LoadMiss, ObtainBucket, TakeToken, FindEmpty, Exempt, HeaderHit,
           HeaderMiss, HeaderStore
<1>1. CASE UNCHANGED vars
    <2>1. Quiet
        BY <1>1 DEF vars, ContractLevel, ContractVerdict, Level
    <2> QED BY <2>1, <1>a
<1>2. CASE Tick
    <2>1. Quiet \/ (/\ ContractVerdict' = ContractVerdict
                    /\ ContractLevel < Burst
                    /\ ContractLevel' = ContractLevel + 1)
        BY <1>2, TickRefills
    <2>2. ASSUME ContractVerdict' = ContractVerdict, ContractLevel < Burst,
                 ContractLevel' = ContractLevel + 1
          PROVE  Contract!ContractNext
        BY <2>2 DEF Contract!ContractNext, Contract!Refill, ContractLevel, ContractVerdict
    <2> QED BY <2>1, <2>2, <1>a
<1>3. CASE CleanupCheck \/ CleanupDelete \/ Close \/ LoopReturns
    <2>1. CASE CleanupCheck \/ Close \/ LoopReturns
        <3>1. Quiet
            BY <2>1 DEF CleanupCheck, Close, LoopReturns, ContractLevel,
                        ContractVerdict, Level
        <3> QED BY <3>1, <1>a
    <2>2. CASE CleanupDelete
        <3>1. ContractVerdict' = ContractVerdict
            BY <2>2 DEF CleanupDelete, ContractVerdict
        <3>2. ContractLevel' = Burst
            BY <2>2 DEF CleanupDelete, ContractLevel
        <3>3. stored # NoBucket => Level(stored) = Burst
            <4>1. stored # NoBucket => Level(stored) \in 0..Burst
                BY LevelType DEF TypeOK
            <4>2. ~(Level(stored) < Burst)
                BY <2>2 DEF CleanupDelete, InUse
            <4> QED BY <4>1, <4>2
        <3> QED BY <3>1, <3>2, <3>3, <1>a DEF ContractLevel
    <2> QED BY <1>3, <2>1, <2>2
<1>4. ASSUME NEW r \in Requests, LoadHit(r) \/ LoadMiss(r) \/ ObtainBucket(r)
      PROVE  UNCHANGED Contract!contractVars
    <2>1. \/ Move(r, "idle", "holding")
          \/ Move(r, "idle", "miss")
          \/ Move(r, "miss", "holding")
        BY <1>4 DEF LoadHit, LoadMiss, ObtainBucket
    <2>2. ContractVerdict' = ContractVerdict
        BY <2>1, <1>e, <1>f, <1>g
    <2>3. ContractLevel' = ContractLevel
        <3>1. CASE LoadHit(r) \/ LoadMiss(r)
            BY <3>1 DEF LoadHit, LoadMiss, ContractLevel, Level
        <3>2. CASE ObtainBucket(r)
            <4>1. held[r] = NoBucket
                BY <3>2 DEF ObtainBucket, Move, TypeOK
            <4> QED BY <3>2, <4>1, StoreKeepsLevel DEF ObtainBucket
        <3> QED BY <1>4, <3>1, <3>2
    <2> QED BY <2>2, <2>3, <1>a
<1>5. ASSUME NEW r \in Requests, TakeToken(r) \/ FindEmpty(r), r \in Metered
      PROVE  Contract!ContractNext
    <2>1. held[r] \in Buckets /\ held[r] = stored /\ pc[r] = "holding"
        BY <1>5, <1>h DEF TakeToken, FindEmpty, Move, TypeOK, SoleBucket
    <2>2. ContractLevel = Level(stored) /\ Level(stored) \in 0..Burst
        BY <2>1, LevelType DEF ContractLevel
    <2>3. CASE TakeToken(r)
        <3>1. Level(stored) >= 1 /\ ContractLevel' = Level(stored) - 1
            <4>1. /\ stored' = stored
                  /\ tokens'[stored] = Level(stored) - 1
                  /\ age'[stored] = 0
                  /\ Level(stored) >= 1
                BY <2>1, <2>3 DEF TakeToken, RefilledLevel, TypeOK
            <4> QED BY <2>1, <2>2, <4>1 DEF ContractLevel, Level, Min2
        <3>2. Answered(r, "allowed")
            <4>1. Move(r, "holding", "allowed")
                BY <2>3 DEF TakeToken
            <4> QED BY <4>1, <1>5, <1>e, <1>f, <1>g
        <3> QED BY <1>5, <2>2, <3>1, <3>2, <1>b
    <2>4. CASE FindEmpty(r)
        <3>1. Level(stored) < 1 /\ ContractLevel' = Level(stored)
            <4>1. /\ stored' = stored
                  /\ tokens'[stored] = Level(stored)
                  /\ age'[stored] = 0
                  /\ Level(stored) < 1
                BY <2>1, <2>4 DEF FindEmpty, RefilledLevel, TypeOK
            <4> QED BY <2>1, <2>2, <4>1 DEF ContractLevel, Level, Min2
        <3>2. Answered(r, "denied")
            <4>1. Move(r, "holding", "denied")
                BY <2>4 DEF FindEmpty
            <4> QED BY <4>1, <1>5, <1>e, <1>f, <1>g
        <3> QED BY <1>5, <2>2, <3>1, <3>2, <1>c
    <2> QED BY <1>5, <2>3, <2>4
<1>6. ASSUME NEW r \in Requests, Exempt(r)
      PROVE  UNCHANGED Contract!contractVars
    <2>1. Move(r, "idle", "allowed") /\ r \in Excluded
        BY <1>6 DEF Exempt
    <2>2. ContractVerdict' = ContractVerdict
        BY <2>1, <1>e, <1>g
    <2>3. ContractLevel' = ContractLevel
        BY <1>6 DEF Exempt, ContractLevel, Level
    <2> QED BY <2>2, <2>3, <1>a
<1>7. ASSUME NEW r \in Requests, HeaderMiss(r)
      PROVE  UNCHANGED Contract!contractVars
    <2>1. Move(r, "allowed", "allowedMiss") \/ Move(r, "denied", "deniedMiss")
        BY <1>7 DEF HeaderMiss
    <2>2. ContractVerdict' = ContractVerdict
        BY <2>1, <1>e, <1>f, <1>g
    <2>3. ContractLevel' = ContractLevel
        BY <1>7 DEF HeaderMiss, ContractLevel, Level
    <2> QED BY <2>2, <2>3, <1>a
<1>8. ASSUME NEW r \in Requests, HeaderHit(r) \/ HeaderStore(r)
      PROVE  [Contract!ContractNext]_(Contract!contractVars)
    <2>1. PICK from \in {"allowed", "denied", "allowedMiss", "deniedMiss"} :
              Move(r, from, "idle")
        BY <1>8 DEF HeaderHit, HeaderStore
    <2>2. from \in Stages /\ Verdict(from) # "none"
        BY <2>1, <1>f, <1>g
    <2>3. ContractLevel' = ContractLevel
        <3>1. CASE HeaderHit(r)
            BY <3>1 DEF HeaderHit, ContractLevel, Level
        <3>2. CASE HeaderStore(r)
            <4>1. held[r] = NoBucket
                BY <3>2 DEF HeaderStore, Move, TypeOK
            <4> QED BY <3>2, <4>1, StoreKeepsLevel DEF HeaderStore
        <3> QED BY <1>8, <3>1, <3>2
    <2>4. CASE r \in Excluded
        BY <2>1, <2>2, <2>3, <2>4, <1>a, <1>e, <1>g
    <2>5. CASE r \in Metered
        <3>1. /\ ContractVerdict[r] # "none"
              /\ ContractVerdict' = [ContractVerdict EXCEPT ![r] = "none"]
            BY <2>1, <2>2, <2>5, <1>e, <1>f, <1>g
        <3> QED BY <2>3, <2>5, <3>1, <1>d
    <2> QED BY <2>4, <2>5
<1>9. ASSUME NEW r \in Requests, TakeToken(r) \/ FindEmpty(r)
      PROVE  r \in Metered
    BY <1>9 DEF TakeToken, FindEmpty, Move, TypeOK, ExcludedPass
<1> QED
    BY <1>1, <1>2, <1>3, <1>4, <1>5, <1>6, <1>7, <1>8, <1>9 DEF Next

(* Until the cleanup deletes a bucket in use, the limiter is the           *)
(* contract's token bucket: no race in getBucket lets a request through    *)
(* that finds no token, and none that finds a token is refused.            *)
THEOREM LimiterImplementsContract == Spec => ImplementsContract
<1> USE LimiterAssumption DEF LimiterAssumption
<1>1. Init => SoleBucket /\ ExcludedPass
    BY DEF Init, SoleBucket, ExcludedPass
<1>2. Init => Contract!ContractInit
    BY DEF Init, Contract!ContractInit, Verdict
<1>3. TypeOK /\ SoleBucket /\ ExcludedPass /\ [Next]_vars
          => [harmed' \/ Contract!ContractNext]_(Contract!contractVars)
    BY StepImplementsContract
<1> QED
    BY <1>1, <1>2, <1>3, SoleBucketKept, ExcludedPassKept, TypeCorrect, PTL
    DEF Spec, ImplementsContract

------------------------------------------------------------------------------
(* Requests that hold a bucket other than the one in the map and b.  *)
Strays(b) == {r \in Requests : held[r] \notin {NoBucket, stored, b}}

(* What may still be drawn from b, once it has left the map.  *)
LeftIn(b) == IF b \in {NoBucket, stored} THEN 0 ELSE Level(b)

(* The most requests that can have passed when this tick ends without      *)
(* another deletion: those that did, the tokens of the bucket in the map   *)
(* (a key without one gets a full one), those of the bucket b deleted      *)
(* last, and one token for each request that holds yet another.            *)
MayPass(b) == granted + ContractLevel + LeftIn(b) + Cardinality(Strays(b))

LEMMA MayPassTypes ==
    ASSUME TypeOK, NEW b \in Buckets \cup {NoBucket}
    PROVE  /\ IsFiniteSet(Strays(b))
           /\ Cardinality(Strays(b)) \in Nat
           /\ ContractLevel \in 0..Burst
           /\ LeftIn(b) \in 0..Burst
           /\ granted \in Nat
<1> USE LimiterAssumption DEF LimiterAssumption
<1>1. Strays(b) \in SUBSET Requests
    BY DEF Strays
<1>2. IsFiniteSet(Strays(b))
    BY <1>1, FS_Subset
<1>3. stored # NoBucket => Level(stored) \in 0..Burst
    BY LevelType DEF TypeOK
<1>4. b # NoBucket => Level(b) \in 0..Burst
    BY LevelType
<1> QED BY <1>2, <1>3, <1>4, FS_CardinalityType DEF ContractLevel, LeftIn, TypeOK

(* A bucket is created by a request that holds none, and nobody holds it.  *)
LEMMA StoreKeepsMayPass ==
    ASSUME TypeOK, NEW r \in Requests, held[r] = NoBucket, LoadOrStore,
           held' = held \/ held' = [held EXCEPT ![r] = stored'],
           granted' = granted, NEW b \in Buckets \cup {NoBucket}
    PROVE  MayPass(b)' <= MayPass(b)
<1> USE LimiterAssumption DEF LimiterAssumption
<1>1. ContractLevel' = ContractLevel
    BY StoreKeepsLevel
<1>2. Strays(b)' = Strays(b) /\ LeftIn(b)' \in {0, LeftIn(b)}
  <2>1. CASE stored = NoBucket
    <3>1. NewBucket \in Buckets /\ \A q \in Requests : held[q] # NewBucket
        BY <2>1, SomeBucketIsFree DEF Unreachable
    <3>2. /\ stored' = NewBucket
          /\ \A c \in Buckets \ {NewBucket} : tokens'[c] = tokens[c] /\ age'[c] = age[c]
        BY <2>1, <3>1 DEF LoadOrStore, Create, TypeOK
    <3>3. Strays(b)' = Strays(b)
        BY <2>1, <3>1, <3>2 DEF Strays, TypeOK
    <3>4. CASE b \in {NewBucket, NoBucket}
        BY <3>2, <3>3, <3>4 DEF LeftIn
    <3>5. CASE b \notin {NewBucket, NoBucket}
        BY <2>1, <3>2, <3>3, <3>5 DEF LeftIn, Level
    <3> QED BY <3>4, <3>5
  <2>2. CASE stored # NoBucket
    <3>1. UNCHANGED <<stored, tokens, age>>
        BY <2>2 DEF LoadOrStore
    <3>2. Strays(b)' = Strays(b)
        BY <3>1 DEF Strays, TypeOK
    <3>3. LeftIn(b)' = LeftIn(b)
        BY <3>1 DEF LeftIn, Level
    <3> QED BY <3>2, <3>3
  <2> QED BY <2>1, <2>2
<1>3. MayPass(b)' = granted + ContractLevel + LeftIn(b)' + Cardinality(Strays(b))
    BY <1>1, <1>2 DEF MayPass
<1> QED BY <1>2, <1>3, MayPassTypes DEF MayPass

(* Allow takes its token from what may still pass, or takes none.          *)
LEMMA DrawKeepsMayPass ==
    ASSUME TypeOK, NEW r \in Requests, TakeToken(r) \/ FindEmpty(r),
           NEW b \in Buckets \cup {NoBucket}
    PROVE  MayPass(b)' <= MayPass(b)
<1> USE LimiterAssumption DEF LimiterAssumption
<1>0. PICK h : h = held[r]
    OBVIOUS
<1>1. /\ h \in Buckets
      /\ stored' = stored
      /\ held' = [held EXCEPT ![r] = NoBucket]
      /\ \A c \in Buckets \ {h} : tokens'[c] = tokens[c] /\ age'[c] = age[c]
    BY <1>0 DEF TakeToken, FindEmpty, Move, TypeOK
<1>2. PICK n \in {0, 1} :
          /\ granted' = granted + n
          /\ tokens'[h] = Level(h) - n /\ age'[h] = 0
          /\ Level(h) - n \in 0..Burst
  <2>1. Level(h) \in 0..Burst
      BY <1>1, LevelType
  <2>2. CASE TakeToken(r)
      BY <1>0, <1>1, <2>1, <2>2 DEF TakeToken, RefilledLevel, TypeOK
  <2>3. CASE FindEmpty(r)
      BY <1>0, <1>1, <2>1, <2>3 DEF FindEmpty, RefilledLevel, TypeOK
  <2> QED BY <2>2, <2>3
<1>3. Level(h)' = Level(h) - n /\ Level(h) \in 0..Burst
  <2>1. Level(h)' = Min2(tokens'[h] + age'[h], Burst)
      BY <1>1 DEF Level
  <2>2. Level(h) \in 0..Burst
      BY <1>1, LevelType
  <2>3. Level(h)' = Min2(Level(h) - n + 0, Burst)
      BY <1>2, <2>1
  <2> QED BY <1>2, <2>2, <2>3 DEF Min2
<1>4. \A c \in Buckets \ {h} : Level(c)' = Level(c)
    BY <1>1 DEF Level
<1>5. h \notin {NoBucket}
    BY <1>1
<1>6. /\ granted \in Nat /\ ContractLevel \in 0..Burst /\ LeftIn(b) \in 0..Burst
      /\ IsFiniteSet(Strays(b)) /\ Cardinality(Strays(b)) \in Nat
    BY MayPassTypes
<1>7. MayPass(b) = granted + ContractLevel + LeftIn(b) + Cardinality(Strays(b))
      /\ MayPass(b)' = granted' + ContractLevel' + LeftIn(b)' + Cardinality(Strays(b)')
    BY DEF MayPass
<1>8. CASE h = stored
  <2>1. Strays(b)' = Strays(b)
      BY <1>0, <1>1, <1>8 DEF Strays, TypeOK
  <2>2. LeftIn(b)' = LeftIn(b)
    <3>1. CASE b \in {NoBucket, stored}
        BY <1>1, <3>1 DEF LeftIn
    <3>2. CASE b \notin {NoBucket, stored}
      <4>1. b \in Buckets \ {h}
          BY <1>8, <3>2
      <4>2. Level(b)' = Level(b)
          BY <1>4, <4>1
      <4> QED BY <1>1, <3>2, <4>2 DEF LeftIn
    <3> QED BY <3>1, <3>2
  <2>3. ContractLevel' = ContractLevel - n
    <3>1. stored' = stored /\ stored # NoBucket
        BY <1>1, <1>5, <1>8
    <3>2. ContractLevel = Level(h)
        BY <1>8, <3>1 DEF ContractLevel
    <3>3. ContractLevel' = Level(h)'
        BY <1>8, <3>1 DEF ContractLevel, Level
    <3> QED BY <1>3, <3>2, <3>3
  <2> QED BY <1>2, <1>6, <1>7, <2>1, <2>2, <2>3
<1>9. CASE h # stored /\ h = b
  <2>1. Strays(b)' = Strays(b)
      BY <1>0, <1>1, <1>9 DEF Strays, TypeOK
  <2>2. LeftIn(b)' = LeftIn(b) - n
    <3>1. b \notin {NoBucket, stored} /\ stored' = stored
        BY <1>1, <1>5, <1>9
    <3>2. Level(b)' = Level(b) - n
        BY <1>3, <1>9
    <3> QED BY <3>1, <3>2 DEF LeftIn
  <2>3. ContractLevel' = ContractLevel
      BY <1>1, <1>4, <1>9 DEF ContractLevel, TypeOK
  <2> QED BY <1>2, <1>6, <1>7, <2>1, <2>2, <2>3
<1>10. CASE h # stored /\ h # b
  <2>1. Strays(b)' = Strays(b) \ {r} /\ r \in Strays(b)
      BY <1>0, <1>1, <1>5, <1>10 DEF Strays, TypeOK
  <2>2. Cardinality(Strays(b)') = Cardinality(Strays(b)) - 1
      BY <1>6, <2>1, FS_RemoveElement
  <2>3. LeftIn(b)' = LeftIn(b)
    <3>1. CASE b \in {NoBucket, stored}
        BY <1>1, <3>1 DEF LeftIn
    <3>2. CASE b \notin {NoBucket, stored}
      <4>1. b \in Buckets \ {h}
          BY <1>10, <3>2
      <4>2. Level(b)' = Level(b)
          BY <1>4, <4>1
      <4> QED BY <1>1, <3>2, <4>2 DEF LeftIn
    <3> QED BY <3>1, <3>2
  <2>4. ContractLevel' = ContractLevel
      BY <1>1, <1>4, <1>10 DEF ContractLevel, TypeOK
  <2> QED BY <1>2, <1>6, <1>7, <2>2, <2>3, <2>4
<1> QED BY <1>8, <1>9, <1>10

(* Between two ticks only a deletion adds to what may pass.                *)
LEMMA MayPassFalls ==
    ASSUME TypeOK, [Next]_vars, ~Tick, ~CleanupDelete, NEW b \in Buckets \cup {NoBucket}
    PROVE  MayPass(b)' <= MayPass(b)
<1> USE LimiterAssumption DEF LimiterAssumption
<1>1. /\ granted \in Nat /\ ContractLevel \in 0..Burst /\ LeftIn(b) \in 0..Burst
      /\ Cardinality(Strays(b)) \in Nat
    BY MayPassTypes
<1>2. ASSUME UNCHANGED <<stored, tokens, age, granted>>, Strays(b)' = Strays(b)
      PROVE  MayPass(b)' <= MayPass(b)
  <2>1. ContractLevel' = ContractLevel /\ LeftIn(b)' = LeftIn(b)
      BY <1>2 DEF ContractLevel, LeftIn, Level
  <2> QED BY <1>1, <1>2, <2>1 DEF MayPass
<1>3. CASE UNCHANGED vars
    BY <1>2, <1>3 DEF vars, Strays
<1>4. CASE CleanupCheck \/ Close \/ LoopReturns
    BY <1>2, <1>4 DEF CleanupCheck, Close, LoopReturns, Strays
<1>5. ASSUME NEW r \in Requests, LoadMiss(r) \/ Exempt(r) \/ HeaderHit(r) \/ HeaderMiss(r)
      PROVE  MayPass(b)' <= MayPass(b)
    BY <1>2, <1>5 DEF LoadMiss, Exempt, HeaderHit, HeaderMiss, Strays
<1>6. ASSUME NEW r \in Requests, LoadHit(r) PROVE MayPass(b)' <= MayPass(b)
  <2>1. held[r] = NoBucket /\ held' = [held EXCEPT ![r] = stored] /\ stored' = stored
      BY <1>6 DEF LoadHit, Move, TypeOK
  <2>2. Strays(b)' = Strays(b)
      BY <2>1 DEF Strays, TypeOK
  <2> QED BY <1>2, <1>6, <2>2 DEF LoadHit
<1>7. ASSUME NEW r \in Requests, ObtainBucket(r) \/ HeaderStore(r)
      PROVE  MayPass(b)' <= MayPass(b)
  <2>1. /\ held[r] = NoBucket /\ LoadOrStore /\ granted' = granted
        /\ held' = held \/ held' = [held EXCEPT ![r] = stored']
      BY <1>7 DEF ObtainBucket, HeaderStore, Move, TypeOK
  <2> QED BY <2>1, StoreKeepsMayPass
<1>8. ASSUME NEW r \in Requests, TakeToken(r) \/ FindEmpty(r)
      PROVE  MayPass(b)' <= MayPass(b)
    BY <1>8, DrawKeepsMayPass
<1> QED BY <1>3, <1>4, <1>5, <1>6, <1>7, <1>8 DEF Next

(* Until the cleanup has deleted a bucket in this tick, one burst can      *)
(* pass; afterwards two, of which one is what the deleted bucket still     *)
(* held.  Each request that holds a bucket dropped earlier adds its token. *)
Metered == Requests \ Excluded

BurstsBounded ==
    \/ MayPass(NoBucket) <= Burst + Cardinality(Metered)
    \/ /\ cleaner \in {"swept", "stopped"}
       /\ \E b \in Buckets : MayPass(b) <= 2 * Burst + Cardinality(Metered)

(* Only requests that are not excluded hold buckets. *)
LEMMA FewStrays ==
    ASSUME TypeOK, ExcludedPass, NEW b
    PROVE  /\ Cardinality(Strays(b)) <= Cardinality(Metered)
           /\ Cardinality(Strays(b)) \in Nat
           /\ Cardinality(Metered) \in Nat
<1>1. IsFiniteSet(Metered)
    BY LimiterAssumption, FS_Subset DEF LimiterAssumption, Metered
<1>2. Strays(b) \in SUBSET Metered
    BY DEF Strays, Metered, TypeOK, ExcludedPass
<1>3. IsFiniteSet(Strays(b))
    BY <1>1, <1>2, FS_Subset
<1> QED BY <1>1, <1>2, <1>3, FS_Subset, FS_CardinalityType

(* The same of every state, to be used of the next one. *)
LEMMA MayPassBounds ==
    TypeOK /\ ExcludedPass =>
        /\ ContractLevel \in 0..Burst /\ LeftIn(NoBucket) = 0
        /\ Cardinality(Strays(NoBucket)) \in Nat
        /\ Cardinality(Strays(NoBucket)) <= Cardinality(Metered)
        /\ \A b \in Buckets \cup {NoBucket} : MayPass(b) \in Int
<1> USE LimiterAssumption DEF LimiterAssumption
<1> SUFFICES ASSUME TypeOK, ExcludedPass
             PROVE  /\ ContractLevel \in 0..Burst /\ LeftIn(NoBucket) = 0
                    /\ Cardinality(Strays(NoBucket)) \in Nat
                    /\ Cardinality(Strays(NoBucket)) <= Cardinality(Metered)
                    /\ \A b \in Buckets \cup {NoBucket} : MayPass(b) \in Int
    OBVIOUS
<1>1. LeftIn(NoBucket) = 0
    BY DEF LeftIn
<1>2. ContractLevel \in 0..Burst
    BY MayPassTypes
<1>3. \A b \in Buckets \cup {NoBucket} : MayPass(b) \in Int
    BY MayPassTypes DEF MayPass
<1> QED BY <1>1, <1>2, <1>3, FewStrays

LEMMA BurstsStep ==
    ASSUME TypeOK, TypeOK', ExcludedPass, ExcludedPass', BurstsBounded, [Next]_vars
    PROVE  BurstsBounded'
<1> USE LimiterAssumption DEF LimiterAssumption
<1>0. /\ ContractLevel' \in 0..Burst /\ LeftIn(NoBucket)' = 0
      /\ Cardinality(Strays(NoBucket)') \in Nat
      /\ Cardinality(Strays(NoBucket)') <= Cardinality(Metered)
      /\ \A b \in Buckets \cup {NoBucket} : MayPass(b)' \in Int
  <2>1. (TypeOK /\ ExcludedPass =>
            /\ ContractLevel \in 0..Burst /\ LeftIn(NoBucket) = 0
            /\ Cardinality(Strays(NoBucket)) \in Nat
            /\ Cardinality(Strays(NoBucket)) <= Cardinality(Metered)
            /\ \A b \in Buckets \cup {NoBucket} : MayPass(b) \in Int)'
      BY MayPassBounds, PTL
  <2>2. Metered' = Metered
      BY DEF Metered
  <2> QED BY <2>1, <2>2
<1>1. Cardinality(Metered) \in Nat /\ Cardinality(Metered)' = Cardinality(Metered)
    BY FewStrays DEF Metered
<1>2. CASE Tick
  <2>1. granted' = 0
      BY <1>2 DEF Tick
  <2>2. /\ ContractLevel' \in 0..Burst /\ LeftIn(NoBucket)' = 0
        /\ Cardinality(Strays(NoBucket)') \in Nat
        /\ Cardinality(Strays(NoBucket)') <= Cardinality(Metered)
      BY <1>0
  <2>3. MayPass(NoBucket)' = 0 + ContractLevel' + 0 + Cardinality(Strays(NoBucket)')
      BY <2>1, <2>2 DEF MayPass
  <2>4. MayPass(NoBucket)' <= Burst + Cardinality(Metered)
      BY <1>1, <2>2, <2>3
  <2> QED BY <1>1, <2>4 DEF BurstsBounded
<1>3. CASE CleanupDelete /\ ~Tick
  <2>1. MayPass(NoBucket) <= Burst + Cardinality(Metered) /\ cleaner' = "swept"
      BY <1>3 DEF BurstsBounded, CleanupDelete
  <2>2. UNCHANGED <<tokens, age, held, granted>> /\ stored' = NoBucket
      BY <1>3 DEF CleanupDelete
  <2>3. /\ granted \in Nat /\ ContractLevel \in 0..Burst
        /\ Cardinality(Strays(NoBucket)) \in Nat /\ LeftIn(NoBucket) = 0
    <3>1. LeftIn(NoBucket) = 0
        BY DEF LeftIn
    <3> QED BY <3>1, MayPassTypes
  <2>4. granted + ContractLevel + Cardinality(Strays(NoBucket)) <= Burst + Cardinality(Metered)
      BY <2>1, <2>3 DEF MayPass
  <2>5. CASE stored = NoBucket
    <3>1. /\ ContractLevel' = ContractLevel
          /\ LeftIn(NoBucket)' = 0
          /\ Strays(NoBucket)' = Strays(NoBucket)
        BY <2>2, <2>5 DEF ContractLevel, LeftIn, Strays
    <3> QED BY <1>1, <2>2, <2>3, <2>4, <3>1 DEF BurstsBounded, MayPass
  <2>6. CASE stored # NoBucket
    <3>1. stored \in Buckets /\ Level(stored) = ContractLevel
        BY <2>6 DEF TypeOK, ContractLevel
    <3> DEFINE b == stored
    <3>2. /\ \A c \in Buckets : Level(c)' = Level(c)
          /\ ContractLevel' = Burst
        BY <2>2 DEF Level, ContractLevel
    <3>3. PICK d \in Buckets : d = stored
        BY <3>1
    <3>4. LeftIn(d)' = ContractLevel
        BY <2>2, <3>1, <3>2, <3>3 DEF LeftIn
    <3>5. Strays(d)' = Strays(NoBucket)
        BY <2>2, <3>3 DEF Strays
    <3>6. MayPass(d)' = granted + Burst + ContractLevel + Cardinality(Strays(NoBucket))
        BY <2>2, <3>2, <3>4, <3>5 DEF MayPass
    <3>7. MayPass(d)' <= 2 * Burst + Cardinality(Metered)
        BY <1>1, <2>3, <2>4, <3>6
    <3> QED BY <1>1, <2>1, <3>7 DEF BurstsBounded
  <2> QED BY <2>5, <2>6
<1>4. CASE ~Tick /\ ~CleanupDelete
  <2>1. \A b \in Buckets \cup {NoBucket} :
            /\ MayPass(b)' <= MayPass(b)
            /\ MayPass(b) \in Int
            /\ MayPass(b)' \in Int
    <3> SUFFICES ASSUME NEW b \in Buckets \cup {NoBucket}
                 PROVE  /\ MayPass(b)' <= MayPass(b)
                        /\ MayPass(b) \in Int
                        /\ MayPass(b)' \in Int
        OBVIOUS
    <3>1. MayPass(b) \in Int
        BY MayPassBounds
    <3>2. MayPass(b)' \in Int
        BY <1>0
    <3> QED BY <1>4, <3>1, <3>2, MayPassFalls
  <2>2. cleaner \in {"swept", "stopped"} => cleaner' \in {"swept", "stopped"}
      BY <1>4 DEF Next, vars, CleanupCheck, Close, LoopReturns, LoadHit, LoadMiss,
                  ObtainBucket, TakeToken, FindEmpty, Exempt, HeaderHit, HeaderMiss, HeaderStore
  <2>3. CASE MayPass(NoBucket) <= Burst + Cardinality(Metered)
    <3>1. MayPass(NoBucket)' <= Burst + Cardinality(Metered)
        BY <1>1, <2>1, <2>3
    <3> QED BY <1>1, <3>1 DEF BurstsBounded
  <2>4. CASE /\ cleaner \in {"swept", "stopped"}
             /\ \E b \in Buckets : MayPass(b) <= 2 * Burst + Cardinality(Metered)
    <3>1. PICK b \in Buckets : MayPass(b) <= 2 * Burst + Cardinality(Metered)
        BY <2>4
    <3>2. MayPass(b)' <= 2 * Burst + Cardinality(Metered)
        BY <1>1, <2>1, <3>1
    <3> QED BY <1>1, <2>2, <2>4, <3>2 DEF BurstsBounded
  <2> QED BY <2>3, <2>4 DEF BurstsBounded
<1> QED BY <1>2, <1>3, <1>4

(* However the cleanup races with the requests, within a tick no more than *)
(* two bursts pass, and one request for each that held a bucket which was  *)
(* dropped in an earlier tick.                                             *)
THEOREM InstantBounded == Spec => []InstantBound
<1> USE LimiterAssumption DEF LimiterAssumption
<1>1. TypeOK /\ Init => BurstsBounded /\ ExcludedPass
  <2> SUFFICES ASSUME TypeOK, Init PROVE BurstsBounded /\ ExcludedPass
      OBVIOUS
  <2>1. ExcludedPass
      BY DEF Init, ExcludedPass
  <2>2. /\ Cardinality(Strays(NoBucket)) <= Cardinality(Metered)
        /\ Cardinality(Strays(NoBucket)) \in Nat
        /\ Cardinality(Metered) \in Nat
      BY <2>1, FewStrays
  <2>3. granted = 0 /\ ContractLevel = Burst /\ LeftIn(NoBucket) = 0
      BY DEF Init, ContractLevel, LeftIn
  <2> QED BY <2>1, <2>2, <2>3 DEF BurstsBounded, MayPass
<1>2. TypeOK /\ TypeOK' /\ ExcludedPass /\ ExcludedPass' /\ BurstsBounded /\ [Next]_vars
          => BurstsBounded'
    BY BurstsStep
<1>3. TypeOK /\ ExcludedPass /\ BurstsBounded => InstantBound
  <2> SUFFICES ASSUME TypeOK, ExcludedPass, BurstsBounded PROVE InstantBound
      OBVIOUS
  <2>1. \A b \in Buckets \cup {NoBucket} : granted <= MayPass(b) /\ MayPass(b) \in Int
      BY MayPassTypes DEF MayPass
  <2>2. granted \in Nat /\ Cardinality(Metered) \in Nat
      BY FewStrays DEF TypeOK
  <2>3. PICK b \in Buckets \cup {NoBucket} : MayPass(b) <= 2 * Burst + Cardinality(Metered)
    <3>1. CASE MayPass(NoBucket) <= Burst + Cardinality(Metered)
        BY <2>1, <2>2, <3>1
    <3>2. CASE \E b \in Buckets : MayPass(b) <= 2 * Burst + Cardinality(Metered)
        BY <3>2
    <3> QED BY <3>1, <3>2 DEF BurstsBounded
  <2>4. granted <= 2 * Burst + Cardinality(Metered)
      BY <2>1, <2>2, <2>3
  <2> QED BY <2>4 DEF InstantBound, Metered
<1> QED BY <1>1, <1>2, <1>3, ExcludedPassKept, TypeCorrect, PTL DEF Spec

------------------------------------------------------------------------------
(* WindowLimiter.                                                          *)
WindowTypeOK ==
    /\ entries \subseteq 0..Horizon
    /\ ttl \in 0..Window
    /\ step \in [Clients -> {"idle", "waiting", "asking", "sleeping"}]
    /\ stamp \in [Clients -> 0..MaxDelay]
    /\ passed \subseteq [read : Nat, ran : 0..Window - 1]
    /\ taken \in BOOLEAN
    /\ collapsed \in BOOLEAN

(* The entries no older than a window: no script of any age purges one.    *)
Recent == {a \in entries : a < Window}

WindowKept == Cardinality(Recent) <= Limit

(* A call that was admitted is among them, unless its script was late. *)
PassedEntered ==
    \A p \in passed :
        /\ p.ran <= p.read /\ p.read <= p.ran + MaxDelay
        /\ p.ran + ttl >= Window
        /\ p.read < Window => p.read \in entries

(* As long as no two calls read the same microsecond, one clock reading is *)
(* of one call, under way or admitted.                                     *)
ReadingsDiffer ==
    /\ collapsed => passed = {}
    /\ \A p, q \in passed : p.read = q.read => p = q
    /\ ~collapsed =>
          \A c \in Clients : Calling(c) =>
              /\ \A d \in Clients \ {c} : Calling(d) => stamp[c] # stamp[d]
              /\ \A p \in passed : stamp[c] # p.read
    /\ ~collapsed /\ ~taken =>
          /\ \A c \in Clients : Calling(c) => stamp[c] > 0
          /\ \A p \in passed : p.read > 0

WindowInv == WindowTypeOK /\ WindowKept /\ PassedEntered /\ ReadingsDiffer

LEMMA RecentIsFinite ==
    ASSUME WindowTypeOK
    PROVE  IsFiniteSet(Recent) /\ Cardinality(Recent) \in Nat
<1>1. IsFiniteSet(0..Horizon)
    BY WindowAssumption, FS_Interval DEF Horizon
<1>2. Recent \in SUBSET (0..Horizon)
    BY DEF WindowTypeOK, Recent
<1> QED BY <1>1, <1>2, FS_Subset, FS_CardinalityType

(* A script that counts fewer than Limit leaves no more than Limit. *)
LEMMA EnterKeepsWindow ==
    ASSUME WindowInv, NEW c \in Clients, HasRoom(c),
           entries' = Counted(c) \cup {stamp[c]}
    PROVE  WindowKept' /\ entries' \subseteq 0..Horizon
<1> USE WindowAssumption DEF WindowInv, WindowTypeOK, Horizon
<1>1. Counted(c) \in SUBSET (0..Horizon)
    BY DEF Counted
<1>2. IsFiniteSet(Counted(c)) /\ Cardinality(Counted(c)) \in Nat
    <2>1. IsFiniteSet(0..Horizon)
        BY FS_Interval
    <2> QED BY <1>1, <2>1, FS_Subset, FS_CardinalityType
<1>3. /\ IsFiniteSet(entries')
      /\ Cardinality(entries') \in Nat
      /\ Cardinality(entries') <= Cardinality(Counted(c)) + 1
    <2> DEFINE N == Counted(c) \cup {stamp[c]}
    <2>1. IsFiniteSet(N) /\ Cardinality(N) = IF stamp[c] \in Counted(c)
                                             THEN Cardinality(Counted(c))
                                             ELSE Cardinality(Counted(c)) + 1
        BY <1>2, FS_AddElement
    <2>2. Cardinality(N) \in Nat /\ Cardinality(N) <= Cardinality(Counted(c)) + 1
        BY <1>2, <2>1
    <2> QED BY <2>1, <2>2
<1>4. Recent' \in SUBSET entries'
    BY DEF Recent
<1>5. Cardinality(Recent') <= Cardinality(entries') /\ Cardinality(Recent') \in Nat
    BY <1>3, <1>4, FS_Subset, FS_CardinalityType
<1>6. Cardinality(Counted(c)) < Limit
    BY DEF HasRoom
<1>7. WindowKept'
    BY <1>2, <1>3, <1>5, <1>6 DEF WindowKept
<1> QED BY <1>1, <1>7

(* A script purges nothing that is recent, a late one even less: it counts *)
(* from an earlier start of the window.                                    *)
LEMMA RecentStays ==
    ASSUME WindowInv, NEW c \in Clients
    PROVE  Recent \subseteq Counted(c)
<1>1. stamp[c] \in Nat /\ entries \subseteq Int
    BY WindowAssumption DEF WindowInv, WindowTypeOK, Horizon
<1>2. \A a \in entries : a < Window => a < stamp[c] + Window
    BY <1>1, WindowAssumption
<1> QED BY <1>2 DEF Recent, Counted

LEMMA PurgeKeepsWindow ==
    ASSUME WindowInv, NEW c \in Clients, entries' = Counted(c)
    PROVE  WindowKept' /\ entries' \subseteq 0..Horizon /\ Recent \subseteq entries'
<1>1. Recent \subseteq entries' /\ entries' \subseteq entries
    BY RecentStays DEF Counted
<1>2. Recent' = Recent
    BY <1>1 DEF Recent
<1> QED BY <1>1, <1>2 DEF WindowInv, WindowTypeOK, WindowKept

(* A reading is taken. *)
LEMMA ReadClockStep ==
    ASSUME WindowInv, NEW c \in Clients, ReadClock(c)
    PROVE  WindowInv'
<1> USE WindowAssumption DEF WindowInv, WindowTypeOK, ReadClock
<1>1. WindowTypeOK' /\ WindowKept'
    <2>1. Recent' = Recent
        BY DEF Recent
    <2>2. step' \in [Clients -> {"idle", "waiting", "asking", "sleeping"}]
        OBVIOUS
    <2> QED BY <2>1, <2>2 DEF WindowKept
<1>2. PassedEntered'
    BY DEF PassedEntered
<1>3. Calling(c)' /\ ~Calling(c) /\ \A d \in Clients \ {c} : Calling(d)' = Calling(d)
    BY DEF Calling
<1>4. ReadingsDiffer'
    <2>1. CASE collapsed'
        BY <2>1 DEF ReadingsDiffer
    <2>2. CASE ~collapsed'
        <3>1. /\ ~collapsed /\ ~taken /\ taken' /\ passed' = passed
              /\ stamp'[c] = 0 /\ \A d \in Clients \ {c} : stamp'[d] = stamp[d]
            BY <2>2
        <3> QED BY <1>3, <2>2, <3>1 DEF ReadingsDiffer
    <2> QED BY <2>1, <2>2
<1> QED BY <1>1, <1>2, <1>4

(* The readings of a client that is done, or sleeps, are nobody's. *)
LEMMA ReadingsGiven ==
    ASSUME WindowInv, NEW c \in Clients, ~Calling(c)', UNCHANGED <<passed, taken, collapsed>>,
           stamp' = [stamp EXCEPT ![c] = 0], NEW s, step' = [step EXCEPT ![c] = s]
    PROVE  ReadingsDiffer'
<1>1. \A d \in Clients \ {c} : Calling(d)' = Calling(d) /\ stamp'[d] = stamp[d]
    BY DEF WindowInv, WindowTypeOK, Calling
<1> QED BY <1>1 DEF WindowInv, ReadingsDiffer

LEMMA ScriptStep ==
    ASSUME WindowInv, NEW c \in Clients, Script(c)
    PROVE  WindowInv'
<1> USE WindowAssumption DEF WindowInv
<1>0. Recent \subseteq Counted(c)
    BY RecentStays
<1>1. CASE HasRoom(c) /\ Admit(c)
    <2>1. /\ WindowKept' /\ entries' \subseteq 0..Horizon
          /\ entries' = Counted(c) \cup {stamp[c]}
        BY <1>1, EnterKeepsWindow DEF Admit
    <2>2. CASE collapsed
        <3>1. passed' = {}
            BY <1>1, <2>2 DEF Admit
        <3>2. WindowTypeOK'
            BY <1>1, <2>1, <3>1 DEF WindowTypeOK, Admit, Script
        <3>3. PassedEntered' /\ ReadingsDiffer'
            BY <2>2, <3>1 DEF PassedEntered, ReadingsDiffer, Script
        <3> QED BY <2>1, <3>2, <3>3
    <2>3. CASE ~collapsed
        <3> DEFINE p == [read |-> stamp[c], ran |-> 0]
        <3>1. passed' = passed \cup {p} /\ ttl' = Window /\ stamp[c] \in 0..MaxDelay
            BY <1>1, <2>3 DEF Admit, WindowTypeOK
        <3>2. WindowTypeOK'
            BY <1>1, <2>1, <3>1 DEF WindowTypeOK, Admit, Script
        <3>3. PassedEntered'
            BY <1>0, <2>1, <3>1 DEF PassedEntered, WindowTypeOK, Recent
        <3>4. /\ Calling(c) /\ ~Calling(c)' /\ UNCHANGED <<taken, collapsed>>
              /\ \A d \in Clients \ {c} : Calling(d)' = Calling(d) /\ stamp'[d] = stamp[d]
            BY <1>1 DEF Script, Admit, Calling, WindowTypeOK
        <3>5. /\ \A q \in passed : stamp[c] # q.read
              /\ \A d \in Clients \ {c} : Calling(d) => stamp[d] # stamp[c]
              /\ ~taken => stamp[c] > 0
            BY <2>3, <3>4 DEF ReadingsDiffer
        <3>6. p.read = stamp[c]
            OBVIOUS
        <3> HIDE DEF p
        <3>7. ReadingsDiffer'
            BY <2>3, <3>1, <3>4, <3>5, <3>6 DEF ReadingsDiffer
        <3> QED BY <2>1, <3>2, <3>3, <3>7
    <2> QED BY <2>2, <2>3
<1>2. CASE ~HasRoom(c) /\ PutOff(c)
    <2>1. WindowKept' /\ entries' \subseteq 0..Horizon /\ Recent \subseteq entries'
        BY <1>2, PurgeKeepsWindow DEF PutOff
    <2>2. WindowTypeOK'
        BY <1>2, <2>1 DEF WindowTypeOK, PutOff, Script
    <2>3. PassedEntered'
        BY <1>2, <2>1 DEF PassedEntered, PutOff, WindowTypeOK, Recent
    <2>4. ~Calling(c)'
        BY <1>2 DEF Calling, PutOff, WindowTypeOK
    <2>5. ReadingsDiffer'
        BY <1>2, <2>4, ReadingsGiven DEF PutOff, Script
    <2> QED BY <2>1, <2>2, <2>3, <2>5
<1> QED BY <1>1, <1>2 DEF Script

LEMMA AllowStep ==
    ASSUME WindowInv, NEW c \in Clients, Allow(c)
    PROVE  WindowInv'
<1> USE WindowAssumption DEF WindowInv, Allow
<1>1. WindowKept' /\ entries' \subseteq 0..Horizon /\ Recent \subseteq entries'
    BY PurgeKeepsWindow
<1>2. WindowTypeOK'
    BY <1>1 DEF WindowTypeOK
<1>3. PassedEntered'
    BY <1>1 DEF PassedEntered, WindowTypeOK, Recent
<1>4. ~Calling(c)'
    BY DEF Calling, WindowTypeOK
<1>5. ReadingsDiffer'
    BY <1>4, ReadingsGiven
<1> QED BY <1>1, <1>2, <1>3, <1>5

LEMMA GiveUpStep ==
    ASSUME WindowInv, NEW c \in Clients, GiveUp(c)
    PROVE  WindowInv'
<1> USE WindowAssumption DEF WindowInv, GiveUp
<1>1. WindowKept' /\ entries' \subseteq 0..Horizon /\ Recent \subseteq entries' /\ ttl' \in {ttl, Window}
    <2>1. CASE UNCHANGED <<entries, ttl>>
        BY <2>1 DEF WindowKept, Recent, WindowTypeOK
    <2>2. CASE HasRoom(c) /\ entries' = Counted(c) \cup {stamp[c]} /\ ttl' = Window
        BY <2>2, EnterKeepsWindow, RecentStays
    <2> QED BY <2>1, <2>2
<1>2. WindowTypeOK'
    BY <1>1 DEF WindowTypeOK
<1>3. PassedEntered'
    BY <1>1 DEF PassedEntered, WindowTypeOK, Recent
<1>4. ~Calling(c)'
    BY DEF Calling, WindowTypeOK
<1>5. ReadingsDiffer'
    BY <1>4, ReadingsGiven
<1> QED BY <1>1, <1>2, <1>3, <1>5

(* Everything becomes a tick older. *)
LEMMA WindowTickStep ==
    ASSUME WindowInv, WindowTick
    PROVE  WindowInv'
<1> USE WindowAssumption DEF WindowInv, WindowTick
<1> DEFINE Aged(p) == [read |-> p.read + 1, ran |-> p.ran + 1]
<1>1. entries' \subseteq 0..Horizon
    BY DEF Age, WindowTypeOK, Horizon
<1>2. \A p \in passed' : \E q \in passed : p = Aged(q) /\ q.ran + 1 < Window
    OBVIOUS
<1>3. \A q \in passed : q \in [read : Nat, ran : 0..Window - 1]
    BY DEF WindowTypeOK
<1>4. WindowTypeOK'
    <2>1. passed' \subseteq [read : Nat, ran : 0..Window - 1]
        BY <1>2, <1>3
    <2>2. stamp' \in [Clients -> 0..MaxDelay]
        BY DEF WindowTypeOK, Calling
    <2>3. ttl' \in 0..Window
        BY DEF WindowTypeOK
    <2> QED BY <1>1, <2>1, <2>2, <2>3 DEF WindowTypeOK
<1>5. WindowKept'
    <2> DEFINE next == [a \in Recent |-> a + 1]
               T == {next[a] : a \in Recent}
    <2>1. IsFiniteSet(Recent) /\ Cardinality(Recent) \in Nat
        BY RecentIsFinite
    <2>2. IsFiniteSet(T) /\ Cardinality(T) <= Cardinality(Recent)
        <3>1. next \in Surjection(Recent, T)
            BY DEF Surjection
        <3> HIDE DEF next, T
        <3> QED BY <2>1, <3>1, FS_Surjection
    <2>3. Recent' \in SUBSET T
        BY DEF Recent, Age, WindowTypeOK, Horizon
    <2> HIDE DEF T
    <2>4. Cardinality(Recent') <= Cardinality(T) /\ Cardinality(Recent') \in Nat
          /\ Cardinality(T) \in Nat
        BY <2>2, <2>3, FS_Subset, FS_CardinalityType
    <2> QED BY <2>1, <2>2, <2>4 DEF WindowKept
<1>6. PassedEntered'
    <2> SUFFICES ASSUME NEW p \in passed'
                 PROVE  /\ p.ran <= p.read /\ p.read <= p.ran + MaxDelay
                        /\ p.ran + ttl' >= Window
                        /\ p.read < Window => p.read \in entries'
        BY DEF PassedEntered
    <2>1. PICK q \in passed : p = Aged(q) /\ q.ran + 1 < Window
        BY <1>2
    <2>2. /\ p.read = q.read + 1 /\ p.ran = q.ran + 1
          /\ q.read \in Nat /\ q.ran \in 0..Window - 1
        BY <1>3, <2>1
    <2>3. /\ q.ran <= q.read /\ q.read <= q.ran + MaxDelay
          /\ q.ran + ttl >= Window
          /\ q.read < Window => q.read \in entries
        BY DEF PassedEntered
    <2>4. ttl \in 0..Window /\ ttl > 1 /\ ttl' = ttl - 1
        BY <2>1, <2>2, <2>3 DEF WindowTypeOK
    <2>5. p.read < Window => p.read \in entries'
        BY <2>2, <2>3, <2>4 DEF Age, Horizon
    <2> QED BY <2>2, <2>3, <2>4, <2>5
<1>7. ReadingsDiffer'
    <2>1. \A c \in Clients : /\ Calling(c)' = Calling(c)
                             /\ Calling(c) => stamp'[c] = stamp[c] + 1 /\ stamp[c] \in Nat
        BY DEF Calling, WindowTypeOK
    <2>2. collapsed' => passed' = {}
        BY DEF ReadingsDiffer
    <2>3. ASSUME NEW p \in passed', NEW q \in passed', p.read = q.read
          PROVE  p = q
        <3>1. PICK a \in passed, b \in passed : p = Aged(a) /\ q = Aged(b)
            BY <1>2
        <3>2. a.read \in Nat /\ b.read \in Nat /\ p.read = a.read + 1 /\ q.read = b.read + 1
            BY <1>3, <3>1
        <3>3. a.read = b.read
            <4>1. p.read = q.read
                BY <2>3
            <4>2. a.read + 1 = b.read + 1
                BY <3>2, <4>1
            <4> QED BY <3>2, <4>2
        <3>4. a = b
            BY <3>3 DEF ReadingsDiffer
        <3> QED BY <3>1, <3>4
    <2>4. ASSUME NEW p \in passed'
          PROVE  /\ p.read > 0
                 /\ \E q \in passed : p.read = q.read + 1 /\ q.read \in Nat
        BY <1>2, <1>3
    <2>5. ASSUME ~collapsed, NEW c \in Clients, Calling(c)
          PROVE  /\ \A d \in Clients \ {c} : Calling(d) => stamp'[c] # stamp'[d]
                 /\ \A p \in passed' : stamp'[c] # p.read
                 /\ stamp'[c] > 0
        BY <2>1, <2>4, <2>5 DEF ReadingsDiffer
    <2> QED BY <2>1, <2>2, <2>3, <2>4, <2>5 DEF ReadingsDiffer
<1> QED BY <1>4, <1>5, <1>6, <1>7
LEMMA WindowInductive == WindowSpec => []WindowInv
<1> USE WindowAssumption
<1>1. WindowInit => WindowInv
  <2> SUFFICES ASSUME WindowInit PROVE WindowInv
      OBVIOUS
  <2>1. WindowTypeOK
    <3>1. /\ entries = {} /\ passed = {} /\ 0 \in 0..Window /\ 0 \in 0..MaxDelay
          /\ collapsed \in BOOLEAN /\ ttl = 0 /\ taken = FALSE
          /\ step = [c \in Clients |-> "idle"] /\ stamp = [c \in Clients |-> 0]
        BY DEF WindowInit
    <3>2. step \in [Clients -> {"idle", "waiting", "asking", "sleeping"}]
          /\ stamp \in [Clients -> 0..MaxDelay]
        BY <3>1
    <3> QED BY <3>1, <3>2 DEF WindowTypeOK
  <2>3. PassedEntered /\ ReadingsDiffer
      BY DEF WindowInit, PassedEntered, ReadingsDiffer, Calling
  <2>2. Recent = {}
      BY DEF WindowInit, Recent
  <2> QED BY <2>1, <2>2, <2>3, FS_EmptySet DEF WindowInv, WindowKept
<1>2. WindowInv /\ [WindowNext]_windowVars => WindowInv'
  <2>1. WindowInv /\ UNCHANGED windowVars => WindowInv'
      BY DEF windowVars, WindowInv, WindowTypeOK, WindowKept, Recent, PassedEntered,
             ReadingsDiffer, Calling
  <2> QED BY <2>1, WindowTickStep, ReadClockStep, ScriptStep, AllowStep, GiveUpStep DEF WindowNext
<1> QED BY <1>1, <1>2, PTL DEF WindowSpec

(* The calls admitted within a window are those whose entry is recent, no  *)
(* more than Limit, and those that ran late enough for it to be older: one *)
(* for each tick that a script can be late.                                *)
LEMMA WindowInvBounds ==
    ASSUME WindowInv
    PROVE  LateBound
<1> USE WindowAssumption DEF WindowInv
<1> DEFINE Late == Window..(Window + MaxDelay - 1)
           Slots == Recent \cup Late
           read == [p \in passed |-> p.read]
<1>1. IsFiniteSet(Recent) /\ Cardinality(Recent) \in Nat /\ Cardinality(Recent) <= Limit
    BY RecentIsFinite DEF WindowKept
<1>2. IsFiniteSet(Late) /\ Cardinality(Late) = MaxDelay
    <2> DEFINE top == Window + MaxDelay - 1
    <2>1. Window \in Int /\ top \in Int
        OBVIOUS
    <2>2. IsFiniteSet(Window..top) /\ Cardinality(Window..top) = IF Window > top THEN 0 ELSE top - Window + 1
        BY <2>1, FS_Interval
    <2> QED BY <2>2
<1>3. IsFiniteSet(Slots) /\ Cardinality(Slots) \in Nat /\ Cardinality(Slots) <= Limit + MaxDelay
    <2> HIDE DEF Late
    <2>1. /\ IsFiniteSet(Slots)
          /\ Cardinality(Slots) = Cardinality(Recent) + Cardinality(Late)
                                    - Cardinality(Recent \cap Late)
        BY <1>1, <1>2, FS_Union
    <2>2. Cardinality(Recent \cap Late) \in Nat
        BY <1>1, FS_Intersection, FS_CardinalityType
    <2>3. Cardinality(Slots) \in Nat
        BY <2>1, FS_CardinalityType
    <2> HIDE DEF Slots
    <2> QED BY <1>1, <1>2, <2>1, <2>2, <2>3
<1>4. read \in Injection(passed, Slots)
    <2>1. \A p \in passed : p.read \in Slots
        BY DEF WindowTypeOK, PassedEntered, Recent
    <2>2. \A p, q \in passed : read[p] = read[q] => p = q
        BY DEF ReadingsDiffer
    <2> HIDE DEF Slots
    <2> QED BY <2>1, <2>2 DEF Injection, IsInjective
<1> HIDE DEF Slots, read
<1>5. IsFiniteSet(passed) /\ Cardinality(passed) <= Cardinality(Slots)
    BY <1>3, <1>4, FS_Injection
<1>6. Cardinality(passed) \in Nat
    BY <1>5, FS_CardinalityType
<1> QED BY <1>3, <1>5, <1>6 DEF LateBound

(* For any number of processes, any limit, window and delay of a script,   *)
(* a window is exceeded by no more calls than can be late at once.         *)
THEOREM WindowBounded == WindowSpec => []LateBound
<1> QED BY WindowInductive, WindowInvBounds, PTL

------------------------------------------------------------------------------
(* MapsClient.                                                             *)

(* The client calls its limiter as the limiter allows: what holds of the   *)
(* limiter by itself holds under the client.                               *)
THEOREM MapsRefinesWindow == MapsSpec => WindowSpec
<1>1. MapsInit => WindowInit
    BY DEF MapsInit
<1>2. [MapsNext]_mapsVars => [WindowNext]_windowVars
  <2>1. CASE UNCHANGED mapsVars
      BY <2>1 DEF mapsVars
  <2>2. CASE MapsTick
      BY <2>2 DEF MapsTick, WindowNext
  <2>3. ASSUME NEW c \in Clients, AskLimiter(c) \/ Limited(c) \/ LimiterFails(c) \/ Allow(c)
        PROVE  WindowNext
      BY <2>3 DEF AskLimiter, Limited, LimiterFails, WindowNext
  <2>4. ASSUME NEW c \in Clients,
               \/ Begin(c) \/ LookUp(c) \/ Rejected(c) \/ Answers(c) \/ DecodeReply(c) \/ Store(c)
               \/ AttemptFails(c)
        PROVE  UNCHANGED windowVars
      BY <2>4 DEF Begin, LookUp, Rejected, Answers, DecodeReply, Store, AttemptFails
  <2> QED BY <2>1, <2>2, <2>3, <2>4 DEF MapsNext
<1> QED BY <1>1, <1>2, PTL DEF MapsSpec, WindowSpec

(* And so does the bound, for the calls of every operation: each asks the  *)
(* limiter once, whatever number of attempts it makes after that.          *)
THEOREM LimitHoldsForCalls == MapsSpec => []LateBound
<1> QED BY WindowBounded, MapsRefinesWindow, PTL

(* How old an answer can be: it was at most MaxDelay old when it was       *)
(* stored, and is not read when it has lain there for CacheTTL.            *)
CallStages == {"idle", "looking", "limited", "sending", "decoding", "storing", "answered"}

MapsTypeOK ==
    /\ cache \in [said : Nat, put : 0..CacheTTL]
    /\ call \in [Users -> [stage : CallStages, tries : Nat, said : Nat]]

CacheIsFresh == Cached => cache.said <= cache.put + MaxDelay

AgesBounded ==
    \A c \in Users :
        /\ call[c].stage \in {"decoding", "storing"} => call[c].said <= MaxDelay
        /\ call[c].stage = "answered" => call[c].said < CacheTTL + MaxDelay

CallInv == MapsTypeOK /\ CacheIsFresh /\ AgesBounded

Calls == [stage : CallStages, tries : Nat, said : Nat]

(* What the call of one user may become. *)
Sound(k) ==
    /\ k \in Calls
    /\ k.stage \in {"decoding", "storing"} => k.said <= MaxDelay
    /\ k.stage = "answered" => k.said < CacheTTL + MaxDelay

LEMMA NoCallSound == Sound(NoCall)
<1>1. NoCall \in Calls
    BY DEF NoCall, Calls, CallStages
<1> QED BY <1>1 DEF NoCall, Sound

LEMMA SoundCalls ==
    ASSUME CallInv
    PROVE  \A c \in Users : Sound(call[c])
    BY DEF CallInv, MapsTypeOK, AgesBounded, Sound, Calls

LEMMA CallsSound ==
    ASSUME DOMAIN call' = Users, call' = [c \in Users |-> call'[c]],
           \A c \in Users : Sound(call'[c]),
           cache' \in [said : Nat, put : 0..CacheTTL], CacheIsFresh'
    PROVE  CallInv'
    BY DEF CallInv, MapsTypeOK, AgesBounded, Sound, Calls

LEMMA OneCall ==
    ASSUME CallInv, NEW c, NEW k, c \in Users => Sound(k), call' = [call EXCEPT ![c] = k],
           cache' \in [said : Nat, put : 0..CacheTTL], CacheIsFresh'
    PROVE  CallInv'
<1>1. \A d \in Users : call'[d] = IF d = c THEN k ELSE call[d]
    BY DEF CallInv, MapsTypeOK
<1>2. \A d \in Users : Sound(call'[d])
    BY <1>1, SoundCalls
<1>3. call' = [d \in Users |-> call'[d]]
    BY DEF CallInv, MapsTypeOK
<1> QED BY <1>2, <1>3, CallsSound

LEMMA MapsTickStep ==
    ASSUME CallInv, MapsTick
    PROVE  CallInv'
<1> USE WindowAssumption, MapsAssumption
<1>1. call' = [c \in Users |-> Older(c)]
    BY DEF MapsTick
<1>2. ASSUME NEW c \in Users
      PROVE  Sound(Older(c))
    <2>1. Sound(call[c])
        BY SoundCalls
    <2>2. CASE Over(c)
        <3>1. Older(c) = NoCall
            BY <2>2 DEF Older
        <3> QED BY <3>1, NoCallSound
    <2>3. CASE ~Over(c) /\ call[c].stage \in {"decoding", "storing"}
        <3>1. Older(c) = [call[c] EXCEPT !.said = @ + 1] /\ call[c].said < MaxDelay
            BY <2>3 DEF Older, MapsTick
        <3> QED BY <2>1, <2>3, <3>1 DEF Sound, Calls
    <2>4. CASE ~Over(c) /\ call[c].stage \notin {"decoding", "storing"}
        <3>1. Older(c) = call[c]
            BY <2>4 DEF Older
        <3> QED BY <2>1, <3>1
    <2> QED BY <2>2, <2>3, <2>4
<1>3. cache' \in [said : Nat, put : 0..CacheTTL] /\ CacheIsFresh'
    <2>1. cache \in [said : Nat, put : 0..CacheTTL] /\ (Cached => cache.said <= cache.put + MaxDelay)
        BY DEF CallInv, MapsTypeOK, CacheIsFresh
    <2>2. CASE cache.put + 1 < CacheTTL
        <3>1. cache' = [cache EXCEPT !.said = @ + 1, !.put = @ + 1]
            BY <2>2 DEF MapsTick
        <3>2. cache'.said = cache.said + 1 /\ cache'.put = cache.put + 1
            BY <2>1, <3>1
        <3>3. cache' \in [said : Nat, put : 0..CacheTTL]
            <4>1. cache.said + 1 \in Nat /\ cache.put + 1 \in 0..CacheTTL
                BY <2>1, <2>2
            <4> QED BY <2>1, <3>1, <4>1
        <3>4. cache.said <= cache.put + MaxDelay
            BY <2>1, <2>2 DEF Cached
        <3> QED BY <2>1, <3>2, <3>3, <3>4 DEF CacheIsFresh
    <2>3. CASE ~(cache.put + 1 < CacheTTL)
        <3>1. cache' = NoEntry
            BY <2>3 DEF MapsTick
        <3>2. cache' = [said |-> 0, put |-> CacheTTL]
            BY <3>1 DEF NoEntry
        <3>3. cache' \in [said : Nat, put : 0..CacheTTL]
            BY <3>2
        <3>4. ~(cache'.put < CacheTTL)
            BY <3>2
        <3> QED BY <3>3, <3>4 DEF CacheIsFresh, Cached
    <2> QED BY <2>2, <2>3
<1> QED BY <1>1, <1>2, <1>3, CallsSound

LEMMA CallSteps ==
    ASSUME CallInv, NEW c \in Clients,
           \/ AskLimiter(c) \/ Limited(c) \/ LimiterFails(c) \/ Begin(c)
           \/ LookUp(c) \/ Rejected(c) \/ Answers(c) \/ DecodeReply(c) \/ Store(c)
           \/ AttemptFails(c)
    PROVE  CallInv'
<1> USE WindowAssumption, MapsAssumption
<1>0. /\ c \in Users => Sound(call[c])
      /\ c \in Users => call[c] \in Calls
      /\ call = [d \in Users |-> call[d]]
      /\ cache \in [said : Nat, put : 0..CacheTTL]
      /\ Cached => cache.said <= cache.put + MaxDelay
    BY SoundCalls DEF CallInv, MapsTypeOK, CacheIsFresh, Calls
<1>1. ASSUME UNCHANGED cache
      PROVE  cache' \in [said : Nat, put : 0..CacheTTL] /\ CacheIsFresh'
    BY <1>0, <1>1 DEF CacheIsFresh, Cached
<1>2. ASSUME UNCHANGED <<cache, call>>
      PROVE  CallInv'
    BY <1>2 DEF CallInv, MapsTypeOK, CacheIsFresh, Cached, AgesBounded
<1>13. ASSUME UNCHANGED cache, Fails(c)
      PROVE  CallInv'
    BY <1>1, <1>13, NoCallSound, OneCall DEF Fails
<1>3. CASE AskLimiter(c)
    BY <1>2, <1>3 DEF AskLimiter
<1>4. CASE Limited(c)
    <2>1. CASE op # "none" /\ step'[c] = "idle"
        <3> DEFINE k == [call[c] EXCEPT !.stage = "sending"]
        <3>2. call' = [call EXCEPT ![c] = k]
            BY <1>4, <2>1 DEF Limited, Through
        <3>3. c \in Users => Sound(k)
            BY <1>0 DEF Sound, Calls, CallStages
        <3> QED BY <1>1, <1>4, <3>2, <3>3, OneCall DEF Limited
    <2>2. CASE ~(op # "none" /\ step'[c] = "idle")
        BY <1>2, <1>4, <2>2 DEF Limited, Through
    <2> QED BY <2>1, <2>2
<1>5. CASE LimiterFails(c)
    BY <1>2, <1>5, <1>13 DEF LimiterFails
<1>6. CASE Begin(c)
    <2> DEFINE stage == IF Kept THEN "looking" ELSE "limited"
               k == [NoCall EXCEPT !.stage = stage]
    <2>1. call' = [call EXCEPT ![c] = k]
        BY <1>6 DEF Begin
    <2>2. stage \in {"looking", "limited"}
        OBVIOUS
    <2> HIDE DEF stage
    <2>3. Sound(k)
        <3>1. NoCall \in Calls
            BY NoCallSound DEF Sound
        <3>2. stage \in CallStages
            BY <2>2 DEF CallStages
        <3>3. k \in Calls /\ k.stage = stage
            BY <3>1, <3>2 DEF Calls
        <3> HIDE DEF k
        <3> QED BY <2>2, <3>3 DEF Sound
    <2> QED BY <1>1, <1>6, <2>1, <2>3, OneCall DEF Begin
<1>7. CASE LookUp(c)
    <2>1. c \in Users /\ call[c].stage = "looking" /\ op' = op
        BY <1>7 DEF LookUp, At
    <2>2. CASE Go(c, "limited") /\ UNCHANGED cache
        <3> DEFINE k == [call[c] EXCEPT !.stage = "limited"]
        <3>1. Sound(k)
            BY <1>0, <2>1 DEF Sound, Calls, CallStages
        <3> QED BY <1>1, <2>1, <2>2, <3>1, OneCall DEF Go
    <2>3. CASE /\ Cached /\ cache' = AfterHit
               /\ call' = [call EXCEPT ![c].stage = "answered", ![c].said = cache.said]
        <3> DEFINE k == [call[c] EXCEPT !.stage = "answered", !.said = cache.said]
        <3>1. call' = [call EXCEPT ![c] = k]
            BY <2>3
        <3>2. cache.said < CacheTTL + MaxDelay /\ cache.said \in Nat
            BY <1>0, <2>3 DEF Cached
        <3>3. Sound(k)
            BY <1>0, <2>1, <3>2 DEF Sound, Calls, CallStages
        <3> QED BY <1>1, <2>1, <2>3, <3>1, <3>3, OneCall DEF AfterHit
    <2> QED BY <1>7, <2>2, <2>3 DEF LookUp
<1>8. CASE Rejected(c)
    BY <1>8, <1>13 DEF Rejected
<1>9. CASE Answers(c)
    <2> DEFINE k == [NoCall EXCEPT !.stage = "decoding"]
    <2>1. Sound(k)
        BY NoCallSound DEF Sound, Calls, CallStages, NoCall
    <2> QED BY <1>1, <1>9, <2>1, OneCall DEF Answers
<1>10. CASE DecodeReply(c)
    <2>1. c \in Users /\ call[c].stage = "decoding" /\ UNCHANGED cache
        BY <1>10 DEF DecodeReply, At
    <2>2. CASE Fails(c)
        BY <1>13, <2>1, <2>2
    <2>3. ASSUME NEW stage \in {"storing", "answered"}, Go(c, stage)
          PROVE  CallInv'
        <3> DEFINE k == [call[c] EXCEPT !.stage = stage]
        <3>1. Sound(k)
            BY <1>0, <2>1 DEF Sound, Calls, CallStages
        <3> QED BY <1>1, <2>1, <2>3, <3>1, OneCall DEF Go
    <2> QED BY <1>10, <2>2, <2>3 DEF DecodeReply
<1>11. CASE Store(c)
    <2>1. c \in Users /\ call[c].stage = "storing" /\ op' = op
          /\ cache' \in {cache, [said |-> call[c].said, put |-> 0]}
        BY <1>11 DEF Store, At
    <2> DEFINE k == [call[c] EXCEPT !.stage = "answered"]
    <2>2. Sound(k) /\ call[c].said \in Nat /\ call[c].said <= MaxDelay
        BY <1>0, <2>1 DEF Sound, Calls, CallStages
    <2>3. cache' \in [said : Nat, put : 0..CacheTTL] /\ CacheIsFresh'
        <3>1. CASE cache' = [said |-> call[c].said, put |-> 0]
            BY <2>2, <3>1 DEF CacheIsFresh
        <3> QED BY <1>1, <2>1, <3>1
    <2> QED BY <1>11, <2>1, <2>2, <2>3, OneCall DEF Store, Go
<1>12. CASE AttemptFails(c)
    <2>1. UNCHANGED cache
        BY <1>12 DEF AttemptFails
    <2>2. CASE call' = [call EXCEPT ![c].tries = @ + 1]
        <3> DEFINE k == [call[c] EXCEPT !.tries = @ + 1]
        <3>1. c \in Users => Sound(k)
            BY <1>0 DEF Sound, Calls
        <3> QED BY <1>1, <2>1, <2>2, <3>1, OneCall
    <2> QED BY <1>12, <1>13, <2>1, <2>2 DEF AttemptFails
<1> QED BY <1>3, <1>4, <1>5, <1>6, <1>7, <1>8, <1>9, <1>10, <1>11, <1>12

LEMMA MapsInductive == MapsSpec => []CallInv
<1> USE WindowAssumption, MapsAssumption
<1>1. MapsInit => CallInv
  <2> SUFFICES ASSUME MapsInit PROVE CallInv
      OBVIOUS
  <2>1. /\ cache = [said |-> 0, put |-> CacheTTL]
        /\ call = [c \in Users |-> NoCall]
        /\ NoCall \in [stage : CallStages, tries : Nat, said : Nat]
      BY DEF MapsInit, NoEntry, NoCall, CallStages
  <2>2. MapsTypeOK /\ CacheIsFresh
      BY <2>1 DEF MapsTypeOK, CacheIsFresh, Cached
  <2>3. AgesBounded
      BY <2>1 DEF AgesBounded, NoCall
  <2> QED BY <2>2, <2>3 DEF CallInv
<1>2. CallInv /\ [MapsNext]_mapsVars => CallInv'
  <2> SUFFICES ASSUME CallInv, [MapsNext]_mapsVars PROVE CallInv'
      OBVIOUS
  <2>1. ASSUME UNCHANGED <<cache, call>>
        PROVE  CallInv'
      BY <2>1 DEF CallInv, MapsTypeOK, CacheIsFresh, Cached, AgesBounded
  <2> QED BY <2>1, CallSteps, MapsTickStep DEF MapsNext, mapsVars
<1> QED BY <1>1, <1>2, PTL DEF MapsSpec

(* For any time to live, no answer is older than that and the time it took *)
(* to store it, however many clients fill and read the cache.              *)
THEOREM CachedAnswersAreFresh == MapsSpec => []AnswersAreFresh
<1>1. CallInv => AnswersAreFresh
    BY DEF CallInv, AgesBounded, AnswersAreFresh
<1> QED BY <1>1, MapsInductive, PTL

------------------------------------------------------------------------------
(* DriverIndex.  Between them the lists of the cells hold every driver who *)
(* has a home, once, under that cell, and nobody else; no list is empty.   *)
Filled(lists) ==
    \A c \in DOMAIN lists : lists[c] \in Seq(Drivers) /\ lists[c] # <<>>

EachOnce(lists) ==
    \A c \in DOMAIN lists : \A i, j \in 1 .. Len(lists[c]) :
        lists[c][i] = lists[c][j] => i = j

AtHome(lists, home) ==
    \A c \in DOMAIN lists : \A i \in 1 .. Len(lists[c]) :
        lists[c][i] \in DOMAIN home /\ home[lists[c][i]] = c

AllListed(lists, home) ==
    \A d \in DOMAIN home :
        /\ home[d] \in DOMAIN lists
        /\ \E i \in 1 .. Len(lists[home[d]]) : lists[home[d]][i] = d

ListsThem(lists, home) ==
    /\ Filled(lists)
    /\ EachOnce(lists)
    /\ AtHome(lists, home)
    /\ AllListed(lists, home)

(* A spliced list is one shorter, the places before the cut stay, and      *)
(* those after it move up.                                                 *)
LEMMA SplicedList ==
    ASSUME NEW S, NEW list \in Seq(S), NEW i \in 1 .. Len(list)
    PROVE  /\ Spliced(list, i) \in Seq(S)
           /\ Len(Spliced(list, i)) = Len(list) - 1
           /\ \A j \in 1 .. Len(list) - 1 :
                 Spliced(list, i)[j] = IF j < i THEN list[j] ELSE list[j + 1]
<1>1. Len(list) \in Nat /\ \A j \in 1 .. Len(list) : list[j] \in S
    OBVIOUS
<1>2. \A j \in 1 .. Len(list) - 1 : (IF j < i THEN list[j] ELSE list[j + 1]) \in S
    BY <1>1
<1>3. Len(list) - 1 \in Nat
    BY <1>1
<1>4. Spliced(list, i) \in [1 .. Len(list) - 1 -> S]
    BY <1>2 DEF Spliced
<1>5. Spliced(list, i) \in Seq(S) /\ Len(Spliced(list, i)) = Len(list) - 1
    BY <1>3, <1>4
<1> QED BY <1>5 DEF Spliced

(* A driver who is taken out of his cell is out of the lists, and the      *)
(* others are where they were.                                             *)
LEMMA Removing ==
    ASSUME NEW lists, NEW home, ListsThem(lists, home), NEW d \in DOMAIN home
    PROVE  ListsThem(RemoveFromCell(lists, d, home[d]), Without(home, d))
<1> DEFINE cell == home[d]
           list == lists[cell]
           new == RemoveFromCell(lists, d, cell)
<1>1. cell \in DOMAIN lists /\ list \in Seq(Drivers) /\ Listed(lists, cell) = list
    BY DEF ListsThem, AllListed, Filled, Listed
<1>2. PICK i \in 1 .. Len(list) : list[i] = d
    BY DEF ListsThem, AllListed
<1>3. {j \in DOMAIN list : list[j] = d} = {i}
    <2>1. DOMAIN list = 1 .. Len(list)
        BY <1>1
    <2> QED BY <1>1, <1>2, <2>1 DEF ListsThem, EachOnce
<1>4. Min({i}) = i
    BY DEF Min
<1> DEFINE rest == Spliced(list, i)
<1>5. new = IF rest = <<>> THEN Without(lists, cell) ELSE Put(lists, cell, rest)
    BY <1>1, <1>3, <1>4 DEF RemoveFromCell
<1>6. /\ rest \in Seq(Drivers)
      /\ Len(rest) = Len(list) - 1
      /\ \A j \in 1 .. Len(list) - 1 :
            rest[j] = IF j < i THEN list[j] ELSE list[j + 1]
    BY <1>1, <1>2, SplicedList
<1>7. Len(list) \in Nat
    BY <1>1
<1> HIDE DEF list, rest, new, cell
<1>8. /\ \A c \in DOMAIN new : c # cell => c \in DOMAIN lists /\ new[c] = lists[c]
      /\ \A c \in DOMAIN lists : c # cell => c \in DOMAIN new
      /\ cell \in DOMAIN new => rest # <<>> /\ new[cell] = rest
      /\ rest # <<>> => cell \in DOMAIN new
    BY <1>5 DEF Without, Put
<1>9. \A j \in 1 .. Len(rest) :
         LET k == IF j < i THEN j ELSE j + 1
         IN  k \in 1 .. Len(list) /\ k # i /\ rest[j] = list[k]
    BY <1>2, <1>6, <1>7
<1>10. \A k \in 1 .. Len(list) : k # i =>
         \E j \in 1 .. Len(rest) : rest[j] = list[k]
    <2> TAKE k \in 1 .. Len(list)
    <2> HAVE k # i
    <2>1. CASE k < i
        <3>1. k \in 1 .. Len(rest) /\ rest[k] = list[k]
            BY <2>1, <1>2, <1>6, <1>7
        <3> QED BY <3>1
    <2>2. CASE k > i
        <3>1. k - 1 \in 1 .. Len(rest) /\ rest[k - 1] = list[k]
            BY <2>2, <1>2, <1>6, <1>7
        <3> QED BY <3>1
    <2> QED BY <2>1, <2>2, <1>2, <1>7
<1>11. Filled(new)
    BY <1>6, <1>8 DEF ListsThem, Filled
<1>12. EachOnce(new)
    <2> SUFFICES ASSUME NEW c \in DOMAIN new,
                        NEW j \in 1 .. Len(new[c]), NEW k \in 1 .. Len(new[c]),
                        new[c][j] = new[c][k]
                 PROVE  j = k
        BY DEF EachOnce
    <2>1. CASE c # cell
        BY <2>1, <1>8 DEF ListsThem, EachOnce
    <2>2. CASE c = cell
        <3> DEFINE J == IF j < i THEN j ELSE j + 1
                   K == IF k < i THEN k ELSE k + 1
        <3>1. /\ J \in 1 .. Len(list) /\ rest[j] = list[J]
              /\ K \in 1 .. Len(list) /\ rest[k] = list[K]
            BY <2>2, <1>8, <1>9
        <3>2. list[J] = list[K]
            BY <3>1, <2>2, <1>8
        <3>3. J = K
            BY <3>1, <3>2, <1>1 DEF ListsThem, EachOnce, list
        <3>4. Len(rest) \in Nat /\ new[c] = rest
            BY <1>6, <1>8, <2>2
        <3> QED BY <3>3, <3>4, <1>2
    <2> QED BY <2>1, <2>2
<1>13. DOMAIN Without(home, d) = DOMAIN home \ {d}
       /\ \A e \in DOMAIN home : e # d => Without(home, d)[e] = home[e]
    BY DEF Without
<1>14. AtHome(new, Without(home, d))
    <2> SUFFICES ASSUME NEW c \in DOMAIN new, NEW j \in 1 .. Len(new[c])
                 PROVE  /\ new[c][j] \in DOMAIN home /\ home[new[c][j]] = c
                        /\ new[c][j] # d
        BY <1>13 DEF AtHome
    <2>1. CASE c # cell
        <3>1. c \in DOMAIN lists /\ new[c] = lists[c]
            BY <2>1, <1>8
        <3>2. new[c][j] \in DOMAIN home /\ home[new[c][j]] = c
            BY <3>1 DEF ListsThem, AtHome
        <3> QED BY <3>2, <2>1 DEF cell
    <2>2. CASE c = cell
        <3>1. PICK k \in 1 .. Len(list) : k # i /\ new[c][j] = list[k]
            BY <2>2, <1>8, <1>9
        <3>2. list[k] \in DOMAIN home /\ home[list[k]] = c
            BY <3>1, <1>1, <2>2 DEF ListsThem, AtHome, list
        <3>3. list[k] # d
            BY <3>1, <1>1, <1>2 DEF ListsThem, EachOnce, list
        <3> QED BY <3>1, <3>2, <3>3
    <2> QED BY <2>1, <2>2
<1>15. AllListed(new, Without(home, d))
    <2> SUFFICES ASSUME NEW e \in DOMAIN home, e # d
                 PROVE  /\ home[e] \in DOMAIN new
                        /\ \E j \in 1 .. Len(new[home[e]]) : new[home[e]][j] = e
        BY <1>13 DEF AllListed
    <2>1. home[e] \in DOMAIN lists
          /\ \E j \in 1 .. Len(lists[home[e]]) : lists[home[e]][j] = e
        BY DEF ListsThem, AllListed
    <2>2. CASE home[e] # cell
        BY <2>1, <2>2, <1>8
    <2>3. CASE home[e] = cell
        <3>1. PICK k \in 1 .. Len(list) : list[k] = e
            BY <2>1, <2>3 DEF list
        <3>2. PICK j \in 1 .. Len(rest) : rest[j] = e
            BY <3>1, <1>2, <1>10
        <3>3. rest # <<>>
            BY <3>2, <1>6
        <3> QED BY <3>2, <3>3, <2>3, <1>8
    <2> QED BY <2>2, <2>3
<1> QED BY <1>11, <1>12, <1>14, <1>15 DEF ListsThem, new, cell

(* A driver who is appended to the list of a cell is in the lists once,    *)
(* under that cell.                                                        *)
LEMMA Adding ==
    ASSUME NEW lists, NEW home, ListsThem(lists, home),
           NEW d \in Drivers, d \notin DOMAIN home, NEW cell
    PROVE  ListsThem(Put(lists, cell, Append(Listed(lists, cell), d)),
                     Put(home, d, cell))
<1> DEFINE list == Listed(lists, cell)
           new == Put(lists, cell, Append(list, d))
           homes == Put(home, d, cell)
<1>1. list \in Seq(Drivers)
    BY DEF Listed, ListsThem, Filled
<1>2. /\ \A i, j \in 1 .. Len(list) : list[i] = list[j] => i = j
      /\ \A i \in 1 .. Len(list) : list[i] \in DOMAIN home /\ home[list[i]] = cell
    <2>1. CASE cell \in DOMAIN lists
        BY <2>1 DEF Listed, ListsThem, EachOnce, AtHome
    <2>2. CASE cell \notin DOMAIN lists
        <3>1. Len(list) = 0
            BY <2>2 DEF Listed
        <3> QED BY <3>1
    <2> QED BY <2>1, <2>2
<1>3. /\ Append(list, d) \in Seq(Drivers)
      /\ Append(list, d) # <<>>
      /\ Len(Append(list, d)) = Len(list) + 1
      /\ Len(list) \in Nat
      /\ \A i \in 1 .. Len(list) : Append(list, d)[i] = list[i]
      /\ Append(list, d)[Len(list) + 1] = d
    BY <1>1
<1>4. /\ DOMAIN new = DOMAIN lists \cup {cell}
      /\ new[cell] = Append(list, d)
      /\ \A c \in DOMAIN lists : c # cell => new[c] = lists[c]
      /\ DOMAIN homes = DOMAIN home \cup {d}
      /\ homes[d] = cell
      /\ \A e \in DOMAIN home : homes[e] = home[e]
    BY DEF Put
<1>5. \A c \in DOMAIN lists : c # cell =>
        \A i \in 1 .. Len(lists[c]) : lists[c][i] \in DOMAIN home /\ home[lists[c][i]] = c
    BY DEF ListsThem, AtHome
<1>6. cell \in DOMAIN lists => list = lists[cell]
    BY DEF Listed
<1> HIDE DEF new, homes, list
<1>7. Filled(new)
    BY <1>3, <1>4 DEF ListsThem, Filled
<1>8. EachOnce(new)
    <2> SUFFICES ASSUME NEW c \in DOMAIN new,
                        NEW j \in 1 .. Len(new[c]), NEW k \in 1 .. Len(new[c]),
                        new[c][j] = new[c][k]
                 PROVE  j = k
        BY DEF EachOnce
    <2>1. CASE c # cell
        BY <2>1, <1>4 DEF ListsThem, EachOnce
    <2>2. CASE c = cell
        <3>1. j \in 1 .. Len(list) + 1 /\ k \in 1 .. Len(list) + 1
            BY <2>2, <1>3, <1>4
        <3>2. Append(list, d)[j] = Append(list, d)[k]
            BY <2>2, <1>4
        <3>3. \A i \in 1 .. Len(list) : list[i] # d
            BY <1>2
        <3> QED BY <3>1, <3>2, <3>3, <1>2, <1>3
    <2> QED BY <2>1, <2>2
<1>9. AtHome(new, homes)
    <2> SUFFICES ASSUME NEW c \in DOMAIN new, NEW j \in 1 .. Len(new[c])
                 PROVE  new[c][j] \in DOMAIN homes /\ homes[new[c][j]] = c
        BY DEF AtHome
    <2>1. CASE c # cell
        BY <2>1, <1>4, <1>5
    <2>2. CASE c = cell
        <3>1. j \in 1 .. Len(list) + 1 /\ new[c] = Append(list, d)
            BY <2>2, <1>3, <1>4
        <3>2. CASE j = Len(list) + 1
            BY <2>2, <3>1, <3>2, <1>3, <1>4
        <3>3. CASE j \in 1 .. Len(list)
            BY <2>2, <3>1, <3>3, <1>2, <1>3, <1>4
        <3> QED BY <3>1, <3>2, <3>3, <1>3
    <2> QED BY <2>1, <2>2
<1>10. AllListed(new, homes)
    <2> SUFFICES ASSUME NEW e \in DOMAIN homes
                 PROVE  /\ homes[e] \in DOMAIN new
                        /\ \E j \in 1 .. Len(new[homes[e]]) : new[homes[e]][j] = e
        BY DEF AllListed
    <2>1. CASE e = d
        <3>1. Len(list) + 1 \in 1 .. Len(new[cell]) /\ new[cell][Len(list) + 1] = d
            BY <1>3, <1>4
        <3> QED BY <3>1, <2>1, <1>4
    <2>2. CASE e # d
        <3>1. e \in DOMAIN home /\ homes[e] = home[e] /\ home[e] \in DOMAIN lists
            BY <2>2, <1>4 DEF ListsThem, AllListed
        <3>2. PICK i \in 1 .. Len(lists[home[e]]) : lists[home[e]][i] = e
            BY <3>1 DEF ListsThem, AllListed
        <3>3. CASE home[e] # cell
            BY <3>1, <3>2, <3>3, <1>4
        <3>4. CASE home[e] = cell
            <4>1. i \in 1 .. Len(list) /\ list[i] = e
                BY <3>1, <3>2, <3>4, <1>6
            <4>2. i \in 1 .. Len(new[cell]) /\ new[cell][i] = e
                BY <4>1, <1>3, <1>4
            <4> QED BY <4>2, <3>1, <3>4, <1>4
        <3> QED BY <3>3, <3>4
    <2> QED BY <2>1, <2>2
<1> QED BY <1>7, <1>8, <1>9, <1>10 DEF ListsThem, new, homes, list

(* The rings around a cell are the cells at most so far from it.           *)
LEMMA DiskIsWithinDistance ==
    ASSUME NEW c \in Int \X Int, NEW d \in Int \X Int, NEW k \in Nat
    PROVE  d \in GridDisk(c, k) <=> GridDistance(d, c) <= k
<1> DEFINE q == d[1] - c[1]
           r == d[2] - c[2]
<1>1. q \in Int /\ r \in Int
    OBVIOUS
<1>2. GridDistance(d, c) <= k
        <=> q \in -k .. k /\ r \in -k .. k /\ Abs(q + r) <= k
    <2>1. GridDistance(d, c) = (Abs(q) + Abs(r) + Abs(q + r)) \div 2
        BY DEF GridDistance
    <2> HIDE DEF q, r
    <2> QED BY <1>1, <2>1 DEF Abs
<1>3. d \in GridDisk(c, k)
        <=> q \in -k .. k /\ r \in -k .. k /\ Abs(q + r) <= k
    <2>1. ASSUME d \in GridDisk(c, k)
          PROVE  q \in -k .. k /\ r \in -k .. k /\ Abs(q + r) <= k
        <3>1. PICK o \in (-k .. k) \X (-k .. k) :
                 Abs(o[1] + o[2]) <= k /\ d = <<c[1] + o[1], c[2] + o[2]>>
            BY <2>1 DEF GridDisk
        <3>2. o[1] = q /\ o[2] = r
            BY <3>1
        <3> QED BY <3>1, <3>2
    <2>2. ASSUME q \in -k .. k, r \in -k .. k, Abs(q + r) <= k
          PROVE  d \in GridDisk(c, k)
        <3> DEFINE o == <<q, r>>
        <3>1. o \in (-k .. k) \X (-k .. k) /\ Abs(o[1] + o[2]) <= k
            BY <2>2
        <3>2. d = <<c[1] + o[1], c[2] + o[2]>>
            OBVIOUS
        <3> QED BY <3>1, <3>2 DEF GridDisk
    <2> QED BY <2>1, <2>2
<1> QED BY <1>2, <1>3

LEMMA CellType ==
    ASSUME NEW p \in Points
    PROVE  LatLngToCell(p) \in Int \X Int
BY IndexAssumption DEF IndexAssumption, LatLngToCell

(* The index knows the drivers it was told of, each in the cell of his     *)
(* last position, and its lists are of these cells.                        *)
IndexInv ==
    /\ DOMAIN at \subseteq Drivers
    /\ \A d \in DOMAIN at : at[d] \in Points
    /\ DOMAIN drivers = DOMAIN at
    /\ \A d \in DOMAIN at : drivers[d] = LatLngToCell(at[d])
    /\ ListsThem(cells, drivers)

LEMMA IndexStep ==
    ASSUME IndexInv, [IndexNext]_indexVars
    PROVE  IndexInv'
<1> USE DEF IndexInv
<1>1. ASSUME NEW d \in Drivers, RemoveDriver(d)
      PROVE  IndexInv'
    <2>1. ListsThem(cells', drivers')
        BY <1>1, Removing DEF RemoveDriver
    <2>2. /\ DOMAIN at' = DOMAIN at \ {d} /\ DOMAIN drivers' = DOMAIN at'
          /\ \A e \in DOMAIN at' : at'[e] = at[e] /\ drivers'[e] = drivers[e]
        BY <1>1 DEF RemoveDriver, Without
    <2> QED BY <2>1, <2>2 DEF ListsThem, Filled, EachOnce, AtHome, AllListed
<1>2. ASSUME NEW d \in Drivers, NEW p \in Points, UpdateDriver(d, p)
      PROVE  IndexInv'
    <2> DEFINE cell == LatLngToCell(p)
               known == d \in DOMAIN drivers
               rest == IF known THEN RemoveFromCell(cells, d, drivers[d]) ELSE cells
    <2>1. /\ DOMAIN at' = DOMAIN at \cup {d} /\ at'[d] = p
          /\ \A e \in DOMAIN at : e # d => at'[e] = at[e]
        BY <1>2 DEF UpdateDriver, Put
    <2>2. CASE known /\ drivers[d] = cell
        <3>1. UNCHANGED <<cells, drivers>>
            BY <1>2, <2>2 DEF UpdateDriver
        <3> QED BY <2>1, <2>2, <3>1
    <2>3. CASE ~(known /\ drivers[d] = cell)
        <3>1. /\ drivers' = Put(drivers, d, cell)
              /\ cells' = Put(rest, cell, Append(Listed(rest, cell), d))
            BY <1>2, <2>3 DEF UpdateDriver
        <3>2. ListsThem(cells', drivers')
            <4>1. CASE known
                <5>1. ListsThem(rest, Without(drivers, d))
                    BY <4>1, Removing
                <5>2. d \notin DOMAIN Without(drivers, d)
                    BY DEF Without
                <5> HIDE DEF rest, cell
                <5>3. ListsThem(cells', Put(Without(drivers, d), d, cell))
                    BY <5>1, <5>2, <3>1, Adding
                <5>4. Put(Without(drivers, d), d, cell) = Put(drivers, d, cell)
                    BY <4>1 DEF Put, Without
                <5> QED BY <5>3, <5>4, <3>1
            <4>2. CASE ~known
                <5>1. rest = cells
                    BY <4>2
                <5> HIDE DEF rest, cell
                <5> QED BY <4>2, <5>1, <3>1, Adding
            <4> QED BY <4>1, <4>2
        <3>3. /\ DOMAIN drivers' = DOMAIN drivers \cup {d} /\ drivers'[d] = cell
              /\ \A e \in DOMAIN drivers : e # d => drivers'[e] = drivers[e]
            BY <3>1 DEF Put
        <3> QED BY <2>1, <3>2, <3>3
    <2> QED BY <2>2, <2>3
<1>3. CASE UNCHANGED indexVars
    BY <1>3 DEF indexVars
<1> QED BY <1>1, <1>2, <1>3 DEF IndexNext

(* What the invariant says of the index as it is asked. *)
LEMMA IndexAnswers ==
    ASSUME IndexInv
    PROVE  NearbyIsExact
<1> USE DEF IndexInv
<1>1. ASSUME NEW pickup \in Points, NEW k \in 0 .. 2
      PROVE  GetDriversNearby(pickup, k) =
                {d \in DOMAIN at :
                    GridDistance(LatLngToCell(at[d]), LatLngToCell(pickup)) <= k}
    <2> DEFINE disk == GridDisk(LatLngToCell(pickup), k)
    <2>1. \A d \in DOMAIN at :
             LatLngToCell(at[d]) \in disk
                <=> GridDistance(LatLngToCell(at[d]), LatLngToCell(pickup)) <= k
        BY CellType, DiskIsWithinDistance
    <2> HIDE DEF disk
    <2>2. ASSUME NEW d \in GetDriversNearby(pickup, k)
          PROVE  d \in DOMAIN at /\ LatLngToCell(at[d]) \in disk
        <3>1. PICK c \in DOMAIN cells : c \in disk /\ d \in Range(cells[c])
            BY <2>2 DEF GetDriversNearby, disk
        <3>2. PICK i \in 1 .. Len(cells[c]) : d = cells[c][i]
            <4>1. cells[c] \in Seq(Drivers)
                BY DEF ListsThem, Filled
            <4>2. DOMAIN cells[c] = 1 .. Len(cells[c])
                BY <4>1
            <4> QED BY <3>1, <4>2 DEF Range
        <3>3. d \in DOMAIN drivers /\ drivers[d] = c
            BY <3>2 DEF ListsThem, AtHome
        <3> QED BY <3>1, <3>3
    <2>3. ASSUME NEW d \in DOMAIN at, LatLngToCell(at[d]) \in disk
          PROVE  d \in GetDriversNearby(pickup, k)
        <3> DEFINE c == drivers[d]
        <3>1. c \in DOMAIN cells /\ c \in disk
            BY <2>3 DEF ListsThem, AllListed
        <3>2. PICK i \in 1 .. Len(cells[c]) : cells[c][i] = d
            BY DEF ListsThem, AllListed
        <3>3. d \in Range(cells[c])
            <4>1. cells[c] \in Seq(Drivers)
                BY <3>1 DEF ListsThem, Filled
            <4>2. DOMAIN cells[c] = 1 .. Len(cells[c])
                BY <4>1
            <4> QED BY <3>2, <4>2 DEF Range
        <3> QED BY <3>1, <3>3 DEF GetDriversNearby, disk
    <2> QED BY <2>1, <2>2, <2>3
<1>2. GetDriverCount = Cardinality(DOMAIN at)
    BY DEF GetDriverCount
<1>3. DOMAIN cells = {LatLngToCell(at[d]) : d \in DOMAIN at}
    <2>1. ASSUME NEW c \in DOMAIN cells
          PROVE  \E d \in DOMAIN at : c = LatLngToCell(at[d])
        <3>1. cells[c] \in Seq(Drivers) /\ cells[c] # <<>>
            BY DEF ListsThem, Filled
        <3>2. 1 \in 1 .. Len(cells[c])
            BY <3>1
        <3>3. cells[c][1] \in DOMAIN drivers /\ drivers[cells[c][1]] = c
            BY <3>2 DEF ListsThem, AtHome
        <3> QED BY <3>3
    <2>2. ASSUME NEW d \in DOMAIN at
          PROVE  LatLngToCell(at[d]) \in DOMAIN cells
        BY DEF ListsThem, AllListed
    <2> QED BY <2>1, <2>2
<1>4. ASSUME NEW c \in DOMAIN cells
      PROVE  Len(cells[c]) = Cardinality({d \in DOMAIN at : LatLngToCell(at[d]) = c})
    <2> DEFINE T == {d \in DOMAIN at : LatLngToCell(at[d]) = c}
               n == Len(cells[c])
    <2>1. cells[c] \in Seq(Drivers)
        BY DEF ListsThem, Filled
    <2>2. n \in Nat /\ DOMAIN cells[c] = 1 .. n
        BY <2>1
    <2>3. \A i \in 1 .. n : cells[c][i] \in T
        BY DEF ListsThem, AtHome
    <2>4. \A d \in T : \E i \in 1 .. n : cells[c][i] = d
        BY DEF ListsThem, AllListed
    <2>5. \A i, j \in 1 .. n : cells[c][i] = cells[c][j] => i = j
        BY DEF ListsThem, EachOnce
    <2> DEFINE f == [i \in 1 .. n |-> cells[c][i]]
    <2> HIDE DEF T, n
    <2>6. f \in Bijection(1 .. n, T)
        BY <2>3, <2>4, <2>5 DEF Bijection, Injection, Surjection, IsInjective
    <2> HIDE DEF f
    <2>7. ExistsBijection(1 .. n, T)
        BY <2>6 DEF ExistsBijection
    <2>8. Cardinality(T) = n
        BY <2>2, <2>7, FS_CountingElements
    <2> QED BY <2>8 DEF T, n
<1>5. GetCellStats =
          [c \in {LatLngToCell(at[d]) : d \in DOMAIN at} |->
              Cardinality({d \in DOMAIN at : LatLngToCell(at[d]) = c})]
    BY <1>3, <1>4 DEF GetCellStats
<1> QED BY <1>1, <1>2, <1>5 DEF NearbyIsExact

LEMMA IndexBegins ==
    ASSUME IndexInit
    PROVE  IndexInv
BY DEF IndexInit, IndexInv, ListsThem, Filled, EachOnce, AtHome, AllListed

(* Around any pickup H3DriverIndex finds the drivers in the rings, all of  *)
(* them and no other, whatever moved, left and came back before.           *)
THEOREM NearbyExact == GeoSpec => []NearbyIsExact
<1>1. GeoInit => IndexInv
    BY IndexBegins DEF GeoInit
<1>2. IndexInv /\ [GeoNext]_geoVars => IndexInv'
    BY IndexStep DEF GeoNext, geoVars
<1>3. IndexInv => NearbyIsExact
    BY IndexAnswers
<1> QED BY <1>1, <1>2, <1>3, PTL DEF GeoSpec


------------------------------------------------------------------------------
(* Polygon and the zones of Geo.                                           *)
Place == [lat : Int, lng : Int]

(* A polygon comes out of its own GeoJSON as it went in.                   *)
LEMMA GeoJSONKeepsPolygon ==
    ASSUME NEW polygon \in Seq(Place), polygon # <<>>
    PROVE  FromGeoJSON(ToGeoJSON(polygon)) = polygon
<1> DEFINE n == Len(polygon)
           pairs == [i \in DOMAIN polygon |-> Pair(polygon[i])]
           ring == ToGeoJSON(polygon)
<1>1. n \in Nat \ {0} /\ DOMAIN polygon = 1 .. n
    OBVIOUS
<1>2. \A i \in 1 .. n : polygon[i] \in Place
    OBVIOUS
<1>3. \A q \in Place : Pair(q) \in Seq(Int) /\ Len(Pair(q)) = 2
                       /\ Pair(q)[1] = q.lng /\ Pair(q)[2] = q.lat
    BY DEF Pair, Place
<1>4. pairs \in Seq(Seq(Int)) /\ Len(pairs) = n
    BY <1>1, <1>2, <1>3
<1>5. ring = pairs \o <<Pair(polygon[1])>>
    BY DEF ToGeoJSON
<1>6. /\ Len(ring) = n + 1
      /\ \A i \in 1 .. n : ring[i] = Pair(polygon[i])
    <2>1. <<Pair(polygon[1])>> \in Seq(Seq(Int))
        BY <1>1, <1>2, <1>3
    <2>2. Len(ring) = n + 1 /\ \A i \in 1 .. n : ring[i] = pairs[i]
        BY <2>1, <1>4, <1>5
    <2> QED BY <2>2, <1>1
<1> HIDE DEF ring, pairs, n
<1> DEFINE long == {i \in 1 .. Len(ring) - 1 : Len(ring[i]) >= 2}
           kth(k) == CHOOSE i \in long : Cardinality({j \in long : j <= i}) = k
<1>7. long = 1 .. n
    <2>1. \A i \in 1 .. n : Len(ring[i]) = 2
        BY <1>2, <1>3, <1>6
    <2>2. Len(ring) - 1 = n
        BY <1>1, <1>6
    <2>3. \A i \in 1 .. n : Len(ring[i]) >= 2
        <3> TAKE i \in 1 .. n
        <3>1. Len(ring[i]) = 2
            BY <2>1
        <3>2. 2 >= 2
            OBVIOUS
        <3> QED BY <3>1, <3>2, Zenon
    <2> QED BY <2>2, <2>3, Zenon
<1>8. \A i \in 1 .. n : Cardinality({j \in long : j <= i}) = i
    <2> TAKE i \in 1 .. n
    <2>1. {j \in long : j <= i} = 1 .. i
        BY <1>1, <1>7
    <2>2. Cardinality(1 .. i) = i
        BY <1>1, FS_Interval
    <2> QED BY <2>1, <2>2
<1>9. Cardinality(long) = n
    <2>1. Cardinality(1 .. n) = n
        BY <1>1, FS_Interval
    <2> QED BY <2>1, <1>7
<1>10. \A k \in 1 .. n : kth(k) = k
    BY <1>7, <1>8
<1>11. FromGeoJSON(ring) =
          [k \in 1 .. n |-> [lat |-> ring[kth(k)][2], lng |-> ring[kth(k)][1]]]
    BY <1>9 DEF FromGeoJSON
<1> HIDE DEF kth, long
<1>12. \A k \in 1 .. n :
          [lat |-> ring[kth(k)][2], lng |-> ring[kth(k)][1]] = polygon[k]
    <2> TAKE k \in 1 .. n
    <2>1. ring[kth(k)] = Pair(polygon[k])
        BY <1>6, <1>10
    <2>2. polygon[k] \in Place
        BY <1>2
    <2>3. ring[kth(k)][2] = polygon[k].lat /\ ring[kth(k)][1] = polygon[k].lng
        BY <2>1, <2>2, <1>3
    <2> QED BY <2>2, <2>3 DEF Place
<1>13. FromGeoJSON(ring) = [k \in 1 .. n |-> polygon[k]]
    BY <1>11, <1>12
<1>14. [k \in 1 .. n |-> polygon[k]] = polygon
    BY <1>1
<1> QED BY <1>13, <1>14 DEF ring

(* Whether an edge is crossed does not depend on which end is first, but   *)
(* for points on it where float64 rounds.                                  *)
LEMMA CrossesBothWays ==
    ASSUME NEW u \in Place, NEW v \in Place, NEW p \in Place,
           ~Rounded(u, v, p), ~Rounded(v, u, p)
    PROVE  Crosses(u, v, p) <=> Crosses(v, u, p)
<1>1. /\ u.lat \in Int /\ u.lng \in Int /\ v.lat \in Int /\ v.lng \in Int
      /\ p.lat \in Int /\ p.lng \in Int
    BY DEF Place
<1> DEFINE left == (p.lng - u.lng) * (v.lat - u.lat)
           right == (v.lng - u.lng) * (p.lat - u.lat)
           left2 == (p.lng - v.lng) * (u.lat - v.lat)
           right2 == (u.lng - v.lng) * (p.lat - v.lat)
<1>2. left2 - right2 = right - left
    <2> DEFINE ux == u.lng
               uy == u.lat
               vx == v.lng
               vy == v.lat
               px == p.lng
               py == p.lat
    <2>1. ux \in Int /\ uy \in Int /\ vx \in Int /\ vy \in Int /\ px \in Int /\ py \in Int
        BY <1>1
    <2> HIDE DEF ux, uy, vx, vy, px, py
    <2>2. (px - vx) * (uy - vy) - (ux - vx) * (py - vy)
             = (vx - ux) * (py - uy) - (px - ux) * (vy - uy)
        BY <2>1
    <2> QED BY <2>2 DEF ux, uy, vx, vy, px, py
<1>3. left \in Int /\ right \in Int /\ left2 \in Int /\ right2 \in Int
    BY <1>1
<1>4. Crosses(u, v, p)
        <=> /\ (u.lat > p.lat) # (v.lat > p.lat)
            /\ IF v.lat > u.lat THEN left < right ELSE left > right
    BY DEF Crosses, Straddles, IsEast
<1>5. Crosses(v, u, p)
        <=> /\ (v.lat > p.lat) # (u.lat > p.lat)
            /\ IF u.lat > v.lat THEN left2 < right2 ELSE left2 > right2
    BY DEF Crosses, Straddles, IsEast
<1> HIDE DEF left, right, left2, right2
<1> QED BY <1>1, <1>2, <1>3, <1>4, <1>5

(* An edge that straddles the point is east of it when both ends are, and  *)
(* not when both are west of it: the difference of the products is a sum   *)
(* with the weights by which the latitude divides the edge.                *)
LEMMA UpwardEdge ==
    ASSUME NEW u \in Place, NEW v \in Place, NEW p \in Place,
           u.lat <= p.lat, p.lat < v.lat
    PROVE  /\ p.lng < u.lng /\ p.lng < v.lng => IsEast(u, v, p) /\ IsEast(v, u, p)
           /\ u.lng < p.lng /\ v.lng < p.lng =>
                 /\ ~IsEast(u, v, p) /\ ~IsEast(v, u, p)
                 /\ ~Rounded(u, v, p) /\ ~Rounded(v, u, p)
<1>1. /\ u.lat \in Int /\ u.lng \in Int /\ v.lat \in Int /\ v.lng \in Int
      /\ p.lat \in Int /\ p.lng \in Int
    BY DEF Place
<1> DEFINE above == v.lat - p.lat
           below == p.lat - u.lat
           x == p.lng - u.lng
           y == p.lng - v.lng
           left == (p.lng - u.lng) * (v.lat - u.lat)
           right == (v.lng - u.lng) * (p.lat - u.lat)
           left2 == (p.lng - v.lng) * (u.lat - v.lat)
           right2 == (u.lng - v.lng) * (p.lat - v.lat)
<1>2. left - right = x * above + y * below /\ left2 - right2 = right - left
    <2> DEFINE ux == u.lng
               uy == u.lat
               vx == v.lng
               vy == v.lat
               px == p.lng
               py == p.lat
    <2>1. ux \in Int /\ uy \in Int /\ vx \in Int /\ vy \in Int /\ px \in Int /\ py \in Int
        BY <1>1
    <2> HIDE DEF ux, uy, vx, vy, px, py
    <2>2. (px - ux) * (vy - uy) - (vx - ux) * (py - uy)
             = (px - ux) * (vy - py) + (px - vx) * (py - uy)
        BY <2>1
    <2>3. (px - vx) * (uy - vy) - (ux - vx) * (py - vy)
             = (vx - ux) * (py - uy) - (px - ux) * (vy - uy)
        BY <2>1
    <2> QED BY <2>2, <2>3 DEF ux, uy, vx, vy, px, py
<1>3. /\ left \in Int /\ right \in Int /\ left2 \in Int /\ right2 \in Int
      /\ x \in Int /\ y \in Int /\ above \in Nat \ {0} /\ below \in Nat
    BY <1>1
<1>4. /\ IsEast(u, v, p) <=> left < right
      /\ IsEast(v, u, p) <=> left2 > right2
      /\ Rounded(u, v, p) => left = right
      /\ Rounded(v, u, p) => left2 = right2
    BY <1>1 DEF IsEast, Rounded
<1>5. p.lng < u.lng /\ p.lng < v.lng => x < 0 /\ y < 0
    BY <1>1
<1>6. u.lng < p.lng /\ v.lng < p.lng => x > 0 /\ y > 0
    BY <1>1
<1> HIDE DEF left, right, left2, right2, x, y, above, below
<1>7. x * above \in Int /\ y * below \in Int
    BY <1>3
<1>8. x < 0 => x * above < 0
    BY <1>3
<1>9. y < 0 => y * below <= 0
    BY <1>3
<1>10. x > 0 => x * above > 0
    BY <1>3
<1>11. y > 0 => y * below >= 0
    BY <1>3
<1>12. x < 0 /\ y < 0 => left < right /\ left2 > right2
    BY <1>2, <1>3, <1>7, <1>8, <1>9
<1>13. x > 0 /\ y > 0 => left > right /\ left2 < right2
    BY <1>2, <1>3, <1>7, <1>10, <1>11
<1> QED BY <1>3, <1>4, <1>5, <1>6, <1>12, <1>13

LEMMA EdgeEastOrWest ==
    ASSUME NEW u \in Place, NEW v \in Place, NEW p \in Place
    PROVE  /\ Crosses(u, v, p) => Straddles(u, v, p)
           /\ Crosses(u, v, p) => p.lng <= u.lng \/ p.lng <= v.lng
           /\ Straddles(u, v, p) /\ p.lng < u.lng /\ p.lng < v.lng
                => Crosses(u, v, p)
<1>1. /\ u.lat \in Int /\ u.lng \in Int /\ v.lat \in Int /\ v.lng \in Int
      /\ p.lat \in Int /\ p.lng \in Int
    BY DEF Place
<1>2. /\ Crosses(u, v, p) => Straddles(u, v, p)
      /\ Crosses(u, v, p) => IsEast(u, v, p) \/ Rounded(u, v, p)
      /\ Straddles(u, v, p) /\ IsEast(u, v, p) => Crosses(u, v, p)
    BY DEF Crosses
<1>3. CASE u.lat <= p.lat /\ p.lat < v.lat
    BY <1>1, <1>2, <1>3, UpwardEdge
<1>4. CASE v.lat <= p.lat /\ p.lat < u.lat
    BY <1>1, <1>2, <1>4, UpwardEdge
<1>5. CASE ~Straddles(u, v, p)
    BY <1>2, <1>5
<1> QED BY <1>1, <1>3, <1>4, <1>5 DEF Straddles

(* How many numbers up to n a set has, counted one by one.                 *)
CountUpTo(C, n) == Cardinality(C \cap 1 .. n)

LEMMA CountStarts ==
    ASSUME NEW C
    PROVE  CountUpTo(C, 0) = 0
<1>1. C \cap 1 .. 0 = {}
    OBVIOUS
<1> QED BY <1>1, FS_EmptySet DEF CountUpTo

LEMMA CountGoesOn ==
    ASSUME NEW C, NEW n \in Nat
    PROVE  /\ CountUpTo(C, n) \in Nat
           /\ CountUpTo(C, n + 1) =
                IF n + 1 \in C THEN CountUpTo(C, n) + 1 ELSE CountUpTo(C, n)
<1> DEFINE S == C \cap 1 .. n
<1>1. IsFiniteSet(1 .. n)
    BY FS_Interval
<1>2. IsFiniteSet(S) /\ Cardinality(S) \in Nat
    BY <1>1, FS_Subset, FS_CardinalityType
<1>3. CASE n + 1 \in C
    <2>1. C \cap 1 .. (n + 1) = S \cup {n + 1} /\ n + 1 \notin S
        BY <1>3
    <2>2. Cardinality(S \cup {n + 1}) = Cardinality(S) + 1
        BY <2>1, <1>2, FS_AddElement
    <2> QED BY <2>1, <2>2, <1>2, <1>3 DEF CountUpTo
<1>4. CASE n + 1 \notin C
    <2>1. C \cap 1 .. (n + 1) = S
        BY <1>4
    <2> QED BY <2>1, <1>2, <1>4 DEF CountUpTo
<1> QED BY <1>3, <1>4

(* Contains for three and for four corners.                                *)
LEMMA ContainsTriangle ==
    ASSUME NEW a \in Place, NEW b \in Place, NEW c \in Place, NEW p \in Place
    PROVE  Contains(<<a, b, c>>, p)
             <=> (Crosses(a, c, p) <=> (Crosses(b, a, p) <=> Crosses(c, b, p)))
<1> DEFINE t == <<a, b, c>>
           C == {i \in 1 .. 3 : Crosses(t[i], t[Before(i, 3)], p)}
<1>1. Len(t) = 3
    OBVIOUS
<1>2. Contains(t, p) <=> Cardinality(C) % 2 = 1
    BY <1>1 DEF Contains
<1>3. /\ 1 \in C <=> Crosses(a, c, p)
      /\ 2 \in C <=> Crosses(b, a, p)
      /\ 3 \in C <=> Crosses(c, b, p)
    BY DEF Before
<1>4. C \cap 1 .. 3 = C
    OBVIOUS
<1> HIDE DEF C
<1>5. /\ CountUpTo(C, 0) = 0
      /\ CountUpTo(C, 1) = IF 1 \in C THEN 1 ELSE 0
      /\ CountUpTo(C, 2) = IF 2 \in C THEN CountUpTo(C, 1) + 1 ELSE CountUpTo(C, 1)
      /\ CountUpTo(C, 3) = IF 3 \in C THEN CountUpTo(C, 2) + 1 ELSE CountUpTo(C, 2)
    <2>1. CountUpTo(C, 0) = 0
        BY CountStarts
    <2>2. CountUpTo(C, 0 + 1) = IF 0 + 1 \in C THEN CountUpTo(C, 0) + 1 ELSE CountUpTo(C, 0)
        BY CountGoesOn
    <2>3. CountUpTo(C, 1 + 1) = IF 1 + 1 \in C THEN CountUpTo(C, 1) + 1 ELSE CountUpTo(C, 1)
        BY CountGoesOn
    <2>4. CountUpTo(C, 2 + 1) = IF 2 + 1 \in C THEN CountUpTo(C, 2) + 1 ELSE CountUpTo(C, 2)
        BY CountGoesOn
    <2> QED BY <2>1, <2>2, <2>3, <2>4
<1>6. CountUpTo(C, 3) % 2 = 1 <=> (1 \in C <=> (2 \in C <=> 3 \in C))
    BY <1>5
<1>7. CountUpTo(C, 3) = Cardinality(C)
    BY <1>4 DEF CountUpTo
<1> QED BY <1>2, <1>3, <1>6, <1>7

LEMMA ContainsQuad ==
    ASSUME NEW a \in Place, NEW b \in Place, NEW c \in Place, NEW d \in Place,
           NEW p \in Place
    PROVE  Contains(<<a, b, c, d>>, p)
             <=> ~((Crosses(a, d, p) <=> Crosses(b, a, p))
                       <=> (Crosses(c, b, p) <=> Crosses(d, c, p)))
<1> DEFINE t == <<a, b, c, d>>
           C == {i \in 1 .. 4 : Crosses(t[i], t[Before(i, 4)], p)}
<1>1. Len(t) = 4
    OBVIOUS
<1>2. Contains(t, p) <=> Cardinality(C) % 2 = 1
    BY <1>1 DEF Contains
<1>3. /\ 1 \in C <=> Crosses(a, d, p)
      /\ 2 \in C <=> Crosses(b, a, p)
      /\ 3 \in C <=> Crosses(c, b, p)
      /\ 4 \in C <=> Crosses(d, c, p)
    BY DEF Before
<1>4. C \cap 1 .. 4 = C
    OBVIOUS
<1> HIDE DEF C
<1>5. /\ CountUpTo(C, 0) = 0
      /\ CountUpTo(C, 1) = IF 1 \in C THEN 1 ELSE 0
      /\ CountUpTo(C, 2) = IF 2 \in C THEN CountUpTo(C, 1) + 1 ELSE CountUpTo(C, 1)
      /\ CountUpTo(C, 3) = IF 3 \in C THEN CountUpTo(C, 2) + 1 ELSE CountUpTo(C, 2)
      /\ CountUpTo(C, 4) = IF 4 \in C THEN CountUpTo(C, 3) + 1 ELSE CountUpTo(C, 3)
    <2>1. CountUpTo(C, 0) = 0
        BY CountStarts
    <2>2. CountUpTo(C, 0 + 1) = IF 0 + 1 \in C THEN CountUpTo(C, 0) + 1 ELSE CountUpTo(C, 0)
        BY CountGoesOn
    <2>3. CountUpTo(C, 1 + 1) = IF 1 + 1 \in C THEN CountUpTo(C, 1) + 1 ELSE CountUpTo(C, 1)
        BY CountGoesOn
    <2>4. CountUpTo(C, 2 + 1) = IF 2 + 1 \in C THEN CountUpTo(C, 2) + 1 ELSE CountUpTo(C, 2)
        BY CountGoesOn
    <2>5. CountUpTo(C, 3 + 1) = IF 3 + 1 \in C THEN CountUpTo(C, 3) + 1 ELSE CountUpTo(C, 3)
        BY CountGoesOn
    <2> QED BY <2>1, <2>2, <2>3, <2>4, <2>5
<1>6. CountUpTo(C, 4) % 2 = 1
        <=> ~((1 \in C <=> 2 \in C) <=> (3 \in C <=> 4 \in C))
    BY <1>5
<1>7. CountUpTo(C, 4) = Cardinality(C)
    BY <1>4 DEF CountUpTo
<1> QED BY <1>2, <1>3, <1>6, <1>7

(* A cut along a diagonal divides a polygon of four corners: the cut is    *)
(* crossed in both parts, or in none.                                      *)
LEMMA CutDivides ==
    ASSUME NEW a \in Place, NEW b \in Place, NEW c \in Place, NEW d \in Place,
           NEW p \in Place, ~Rounded(a, c, p), ~Rounded(c, a, p)
    PROVE  /\ Contains(<<a, b, c, d>>, p)
                <=> ~(Contains(<<a, b, c>>, p) <=> Contains(<<a, c, d>>, p))
           /\ b = c /\ c = d => ~Contains(<<a, b, c>>, p)
<1>1. /\ Contains(<<a, b, c>>, p)
            <=> (Crosses(a, c, p) <=> (Crosses(b, a, p) <=> Crosses(c, b, p)))
      /\ Contains(<<a, c, d>>, p)
            <=> (Crosses(a, d, p) <=> (Crosses(c, a, p) <=> Crosses(d, c, p)))
      /\ Contains(<<a, b, c, d>>, p)
            <=> ~((Crosses(a, d, p) <=> Crosses(b, a, p))
                      <=> (Crosses(c, b, p) <=> Crosses(d, c, p)))
    BY ContainsTriangle, ContainsQuad
<1>2. Crosses(a, c, p) <=> Crosses(c, a, p)
    BY CrossesBothWays
<1>3. /\ Crosses(a, d, p) \in BOOLEAN /\ Crosses(b, a, p) \in BOOLEAN
      /\ Crosses(c, b, p) \in BOOLEAN /\ Crosses(d, c, p) \in BOOLEAN
      /\ Crosses(a, c, p) \in BOOLEAN /\ Crosses(c, a, p) \in BOOLEAN
    BY DEF Crosses
<1>4. ~Crosses(c, c, p)
    BY DEF Crosses, Straddles
<1> QED BY <1>1, <1>2, <1>3, <1>4

(* Who is in a polygon of four corners has corners on all sides.           *)
LEMMA CornersAround ==
    ASSUME NEW a \in Place, NEW b \in Place, NEW c \in Place, NEW d \in Place,
           NEW p \in Place, Contains(<<a, b, c, d>>, p)
    PROVE  /\ \E u \in {a, b, c, d} : u.lat <= p.lat
           /\ \E u \in {a, b, c, d} : p.lat <= u.lat
           /\ \E u \in {a, b, c, d} : u.lng <= p.lng
           /\ \E u \in {a, b, c, d} : p.lng <= u.lng
<1>1. ~((Crosses(a, d, p) <=> Crosses(b, a, p))
          <=> (Crosses(c, b, p) <=> Crosses(d, c, p)))
    BY ContainsQuad
<1>2. \A u \in {a, b, c, d} : u \in Place /\ u.lat \in Int /\ u.lng \in Int
    BY DEF Place
<1>3. p.lat \in Int /\ p.lng \in Int
    BY DEF Place
<1>4. PICK u \in {a, b, c, d}, v \in {a, b, c, d} : Crosses(u, v, p)
    BY <1>1
<1>5. Straddles(u, v, p) /\ (p.lng <= u.lng \/ p.lng <= v.lng)
    BY <1>2, <1>4, EdgeEastOrWest
<1>6. \/ u.lat <= p.lat /\ p.lat <= v.lat
      \/ v.lat <= p.lat /\ p.lat <= u.lat
    BY <1>2, <1>3, <1>5 DEF Straddles
<1>7. p.lng <= u.lng \/ p.lng <= v.lng
    BY <1>2, <1>3, <1>5
<1>8. \E x \in {a, b, c, d} : x.lng <= p.lng
    <2> SUFFICES ASSUME ~(\E x \in {a, b, c, d} : x.lng <= p.lng)
                 PROVE  FALSE
        OBVIOUS
    <2>1. p.lng < a.lng /\ p.lng < b.lng /\ p.lng < c.lng /\ p.lng < d.lng
        BY <1>2, <1>3
    <2>2. /\ Crosses(a, d, p) <=> Straddles(a, d, p)
          /\ Crosses(b, a, p) <=> Straddles(b, a, p)
          /\ Crosses(c, b, p) <=> Straddles(c, b, p)
          /\ Crosses(d, c, p) <=> Straddles(d, c, p)
        BY <2>1, EdgeEastOrWest
    <2>3. ~((Straddles(a, d, p) <=> Straddles(b, a, p))
              <=> (Straddles(c, b, p) <=> Straddles(d, c, p)))
        BY <1>1, <2>2
    <2> QED BY <2>3, <1>2, <1>3 DEF Straddles
<1> QED BY <1>4, <1>6, <1>7, <1>8

(* The least and the greatest of up to four numbers.                       *)
LEMMA FourExtremes ==
    ASSUME NEW x \in Int, NEW y \in Int, NEW z \in Int, NEW w \in Int,
           NEW S, S = {x, y, z, w}
    PROVE  /\ Min(S) \in Int /\ Max(S) \in Int
           /\ \A n \in S : Min(S) <= n /\ n <= Max(S)
<1>1. \E m \in S : \A n \in S : m <= n
    OBVIOUS
<1>2. \E m \in S : \A n \in S : m >= n
    OBVIOUS
<1>3. Min(S) \in S /\ \A n \in S : Min(S) <= n
    BY <1>1 DEF Min
<1>4. Max(S) \in S /\ \A n \in S : Max(S) >= n
    BY <1>2 DEF Max
<1> QED BY <1>3, <1>4

LEMMA InTheBox ==
    ASSUME NEW a \in Place, NEW b \in Place, NEW c \in Place, NEW d \in Place,
           NEW p \in Place, Contains(<<a, b, c, d>>, p),
           NEW polygon \in Seq(Place), polygon # <<>>,
           {polygon[i] : i \in DOMAIN polygon} = {a, b, c, d}
    PROVE  /\ Within(BoundingBox(polygon).lat, p.lat)
           /\ Within(BoundingBox(polygon).lng, p.lng)
<1> DEFINE lats == {polygon[i].lat : i \in DOMAIN polygon}
           lngs == {polygon[i].lng : i \in DOMAIN polygon}
           corners == {a, b, c, d}
<1>1. \A u \in corners : u.lat \in Int /\ u.lng \in Int
    BY DEF Place
<1>2. p.lat \in Int /\ p.lng \in Int
    BY DEF Place
<1>3. lats = {u.lat : u \in corners} /\ lngs = {u.lng : u \in corners}
    OBVIOUS
<1>4. lats = {a.lat, b.lat, c.lat, d.lat} /\ lngs = {a.lng, b.lng, c.lng, d.lng}
    BY <1>3
<1>5. /\ Min(lats) \in Int /\ Max(lats) \in Int
      /\ \A n \in lats : Min(lats) <= n /\ n <= Max(lats)
      /\ Min(lngs) \in Int /\ Max(lngs) \in Int
      /\ \A n \in lngs : Min(lngs) <= n /\ n <= Max(lngs)
    <2>1. /\ a.lat \in Int /\ b.lat \in Int /\ c.lat \in Int /\ d.lat \in Int
          /\ a.lng \in Int /\ b.lng \in Int /\ c.lng \in Int /\ d.lng \in Int
        BY <1>1
    <2> HIDE DEF lats, lngs
    <2>2. /\ Min(lats) \in Int /\ Max(lats) \in Int
          /\ \A n \in lats : Min(lats) <= n /\ n <= Max(lats)
        BY <1>4, <2>1, FourExtremes
    <2>3. /\ Min(lngs) \in Int /\ Max(lngs) \in Int
          /\ \A n \in lngs : Min(lngs) <= n /\ n <= Max(lngs)
        BY <1>4, <2>1, FourExtremes
    <2> QED BY <2>2, <2>3
<1>6. \A u \in corners : /\ Min(lats) <= u.lat /\ u.lat <= Max(lats)
                         /\ Min(lngs) <= u.lng /\ u.lng <= Max(lngs)
    BY <1>3, <1>5
<1>7. BoundingBox(polygon) =
          [lat |-> <<Min(lats), Max(lats)>>, lng |-> <<Min(lngs), Max(lngs)>>]
    BY DEF BoundingBox
<1> HIDE DEF lats, lngs
<1>8. /\ \E u \in corners : u.lat <= p.lat
      /\ \E u \in corners : p.lat <= u.lat
      /\ \E u \in corners : u.lng <= p.lng
      /\ \E u \in corners : p.lng <= u.lng
    BY CornersAround
<1>9. /\ Min(lats) <= p.lat /\ p.lat <= Max(lats)
      /\ Min(lngs) <= p.lng /\ p.lng <= Max(lngs)
    <2>1. \A l, m, n \in Int : l <= m /\ m <= n => l <= n
        OBVIOUS
    <2> HIDE DEF corners
    <2>2. Min(lats) <= p.lat
        BY <1>1, <1>2, <1>5, <1>6, <1>8, <2>1
    <2>3. p.lat <= Max(lats)
        BY <1>1, <1>2, <1>5, <1>6, <1>8, <2>1
    <2>4. Min(lngs) <= p.lng
        BY <1>1, <1>2, <1>5, <1>6, <1>8, <2>1
    <2>5. p.lng <= Max(lngs)
        BY <1>1, <1>2, <1>5, <1>6, <1>8, <2>1
    <2> QED BY <2>2, <2>3, <2>4, <2>5
<1> QED BY <1>7, <1>9 DEF Within

(* The fences, once their polygons have come out of GeoJSON. *)
Zoned(a, b, c, d) ==
    [area |-> [type |-> "service_area", polygon |-> <<a, b, c, d>>],
     east |-> [type |-> "surge_zone", polygon |-> <<a, b, c>>],
     west |-> [type |-> "surge_zone", polygon |-> <<a, c, d>>]]

LEMMA DividedIsZoned ==
    ASSUME NEW a \in Place, NEW b \in Place, NEW c \in Place, NEW d \in Place
    PROVE  Divided(a, b, c, d) = Zoned(a, b, c, d)
<1>1. /\ <<a, b, c, d>> \in Seq(Place) /\ <<a, b, c, d>> # <<>>
      /\ <<a, b, c>> \in Seq(Place) /\ <<a, b, c>> # <<>>
      /\ <<a, c, d>> \in Seq(Place) /\ <<a, c, d>> # <<>>
    OBVIOUS
<1> QED BY <1>1, GeoJSONKeepsPolygon DEF Divided, Fence, Zoned

LEMMA ZonesOf ==
    ASSUME NEW a \in Place, NEW b \in Place, NEW c \in Place, NEW d \in Place,
           NEW p \in Place
    PROVE  LET zoned == Range(Zoned(a, b, c, d))
           IN  /\ \/ Rounded(a, c, p) \/ Rounded(c, a, p)
                  \/ (IsInServiceArea(zoned, p)
                        <=> Cardinality(FindByType(zoned, p, "surge_zone")) = 1)
               /\ \A f \in FindContaining(zoned, p) :
                     /\ Within(BoundingBox(f.polygon).lat, p.lat)
                     /\ Within(BoundingBox(f.polygon).lng, p.lng)
<1> DEFINE zoned == Range(Zoned(a, b, c, d))
           area == [type |-> "service_area", polygon |-> <<a, b, c, d>>]
           east == [type |-> "surge_zone", polygon |-> <<a, b, c>>]
           west == [type |-> "surge_zone", polygon |-> <<a, c, d>>]
<1>1. zoned = {area, east, west}
    BY DEF Range, Zoned
<1> DEFINE exact == ~Rounded(a, c, p) /\ ~Rounded(c, a, p)
<1>2. ASSUME exact
      PROVE  /\ Contains(<<a, b, c, d>>, p)
                   <=> ~(Contains(<<a, b, c>>, p) <=> Contains(<<a, c, d>>, p))
             /\ b = c /\ c = d => ~Contains(<<a, b, c>>, p)
    BY <1>2, CutDivides
<1>3. east = west => b = c /\ c = d
    <2>1. east = west => <<a, b, c>> = <<a, c, d>>
        OBVIOUS
    <2> QED BY <2>1
<1>4. /\ area.polygon = <<a, b, c, d>> /\ area.type = "service_area"
      /\ east.polygon = <<a, b, c>> /\ east.type = "surge_zone"
      /\ west.polygon = <<a, c, d>> /\ west.type = "surge_zone"
    OBVIOUS
<1> HIDE DEF zoned, area, east, west
<1>5. IsInServiceArea(zoned, p) <=> Contains(<<a, b, c, d>>, p)
    BY <1>1, <1>4 DEF IsInServiceArea, FindByType, FindContaining
<1>6. FindByType(zoned, p, "surge_zone") =
          {f \in {east, west} : Contains(f.polygon, p)}
    BY <1>1, <1>4 DEF FindByType, FindContaining
<1>7. ASSUME exact
      PROVE  Cardinality({f \in {east, west} : Contains(f.polygon, p)}) = 1
               <=> ~(Contains(<<a, b, c>>, p) <=> Contains(<<a, c, d>>, p))
    <2> DEFINE F == {f \in {east, west} : Contains(f.polygon, p)}
    <2>1. CASE Contains(<<a, b, c>>, p) /\ Contains(<<a, c, d>>, p)
        <3>1. F = {east} \cup {west} /\ east # west
            BY <1>7, <2>1, <1>2, <1>3, <1>4
        <3>2. IsFiniteSet({east}) /\ Cardinality({east}) = 1
            BY FS_Singleton
        <3>3. west \notin {east}
            BY <3>1
        <3>4. Cardinality({east} \cup {west}) = 2
            BY <3>2, <3>3, FS_AddElement
        <3> QED BY <2>1, <3>1, <3>4
    <2>2. CASE Contains(<<a, b, c>>, p) /\ ~Contains(<<a, c, d>>, p)
        <3>1. F = {east}
            BY <2>2, <1>4
        <3> QED BY <3>1, <2>2, FS_Singleton
    <2>3. CASE ~Contains(<<a, b, c>>, p) /\ Contains(<<a, c, d>>, p)
        <3>1. F = {west}
            BY <2>3, <1>4
        <3> QED BY <3>1, <2>3, FS_Singleton
    <2>4. CASE ~Contains(<<a, b, c>>, p) /\ ~Contains(<<a, c, d>>, p)
        <3>1. F = {}
            BY <2>4, <1>4
        <3>2. Cardinality(F) = 0
            BY <3>1, FS_EmptySet
        <3> QED BY <3>2, <2>4
    <2> QED BY <2>1, <2>2, <2>3, <2>4
<1>8. \A u, v, w \in Place : Contains(<<u, v, w>>, p) =>
          /\ Within(BoundingBox(<<u, v, w>>).lat, p.lat)
          /\ Within(BoundingBox(<<u, v, w>>).lng, p.lng)
    <2> TAKE u, v, w \in Place
    <2> HAVE Contains(<<u, v, w>>, p)
    <2>1. Contains(<<u, v, w, w>>, p)
        BY ContainsTriangle, ContainsQuad DEF Crosses, Straddles
    <2>2. <<u, v, w>> \in Seq(Place) /\ <<u, v, w>> # <<>>
        OBVIOUS
    <2>3. {<<u, v, w>>[i] : i \in DOMAIN <<u, v, w>>} = {u, v, w, w}
        OBVIOUS
    <2> QED BY <2>1, <2>2, <2>3, InTheBox
<1>9. Contains(<<a, b, c, d>>, p) =>
          /\ Within(BoundingBox(<<a, b, c, d>>).lat, p.lat)
          /\ Within(BoundingBox(<<a, b, c, d>>).lng, p.lng)
    <2>1. <<a, b, c, d>> \in Seq(Place) /\ <<a, b, c, d>> # <<>>
        OBVIOUS
    <2>2. {<<a, b, c, d>>[i] : i \in DOMAIN <<a, b, c, d>>} = {a, b, c, d}
        OBVIOUS
    <2> QED BY <2>1, <2>2, InTheBox
<1>10. \A f \in FindContaining(zoned, p) :
          /\ Within(BoundingBox(f.polygon).lat, p.lat)
          /\ Within(BoundingBox(f.polygon).lng, p.lng)
    BY <1>1, <1>4, <1>8, <1>9 DEF FindContaining
<1> QED BY <1>2, <1>5, <1>6, <1>7, <1>10 DEF zoned

(* The fences stay as they were divided.                                   *)
AreaInv ==
    \E a, b, c, d \in Place : fences = Zoned(a, b, c, d)

LEMMA AreaBegins == GeoInit => AreaInv
<1> SUFFICES ASSUME GeoInit PROVE AreaInv
    OBVIOUS
<1>1. PICK a \in Corners[1], b \in Corners[2], c \in Corners[3], d \in Corners[4] :
         fences = Divided(a, b, c, d)
    BY DEF GeoInit
<1>2. a \in Place /\ b \in Place /\ c \in Place /\ d \in Place
    BY GeoAssumption DEF GeoAssumption, Place
<1> QED BY <1>1, <1>2, DividedIsZoned DEF AreaInv

(* A driver in a service area is in exactly one of the zones a cut divides *)
(* it into, wherever its four corners are, unless he is on the cut where   *)
(* float64 rounds; and nobody is in a polygon without being in its         *)
(* bounding box, however it rounds.                                        *)
THEOREM ZonesDivideArea == GeoSpec => []ZonesPartition
<1>1. GeoInit => AreaInv /\ IndexInv
    BY AreaBegins, IndexBegins DEF GeoInit
<1>2. AreaInv /\ IndexInv /\ [GeoNext]_geoVars => AreaInv' /\ IndexInv'
    BY IndexStep DEF GeoNext, geoVars, AreaInv
<1>3. AreaInv /\ IndexInv => ZonesPartition
    <2> SUFFICES ASSUME AreaInv, IndexInv, NEW p \in Positions
                 PROVE  /\ OnRoundedCut(p)
                           \/ (IsInServiceArea(Range(fences), p)
                                <=> Cardinality(FindByType(Range(fences), p, "surge_zone")) = 1)
                        /\ \A f \in FindContaining(Range(fences), p) :
                              /\ Within(BoundingBox(f.polygon).lat, p.lat)
                              /\ Within(BoundingBox(f.polygon).lng, p.lng)
        BY DEF ZonesPartition
    <2>1. p \in Place
        BY IndexAssumption DEF IndexAssumption, IndexInv, Positions, Place
    <2>2. PICK a, b, c, d \in Place : fences = Zoned(a, b, c, d)
        BY DEF AreaInv
    <2>3. OnRoundedCut(p) <=> Rounded(a, c, p) \/ Rounded(c, a, p)
        BY <2>2 DEF OnRoundedCut, Zoned
    <2> QED BY <2>1, <2>2, <2>3, ZonesOf
<1> QED BY <1>1, <1>2, <1>3, PTL DEF GeoSpec

------------------------------------------------------------------------------
(* Geohash and the covers of Geo.                                          *)

(* Counting up from 0 reaches every natural number. *)
LEMMA CountingUp ==
    ASSUME NEW S, 0 \in S, \A i \in Nat : i \in S => i + 1 \in S
    PROVE  Nat \subseteq S
<1> DEFINE missed == Nat \ S
<1>1. SUFFICES ASSUME missed # {} PROVE FALSE
    OBVIOUS
<1>2. PICK i \in missed : \A j \in missed : ~(<<j, i>> \in OpToRel(<, Nat))
    BY <1>1, NatLessThanWellFounded, WFMin, Zenon
<1>3. i - 1 \in Nat /\ i - 1 < i /\ (i - 1) + 1 = i
    OBVIOUS
<1>4. i - 1 \in S
    <2>1. \A j, k \in Nat : j < k => <<j, k>> \in OpToRel(<, Nat)
        BY Zenon DEF OpToRel
    <2>2. <<i - 1, i>> \in OpToRel(<, Nat)
        BY <1>3, <2>1, Zenon
    <2> QED BY <1>2, <1>3, <2>2, Zenon
<1> QED BY <1>3, <1>4

Halved(x, interval) == Half(interval, Upper(x, interval))

(* The intervals around a coordinate are what their recursion says. *)
LEMMA AroundHalves ==
    ASSUME NEW x
    PROVE  /\ Around(x)[0] = World
           /\ \A k \in 1 .. 60 : Around(x)[k] = Halved(x, Around(x)[k - 1])
<1> DEFINE Halves(n, f) ==
               f[0] = World /\ \A k \in 1 .. n : f[k] = Halved(x, f[k - 1])
           S == {n \in Nat : \E f : Halves(n, f)}
<1>1. 0 \in S
    <2>1. Halves(0, [k \in {0} |-> World])
        OBVIOUS
    <2> QED BY <2>1
<1>2. \A n \in Nat : n \in S => n + 1 \in S
    <2> SUFFICES ASSUME NEW n \in Nat, NEW f, Halves(n, f)
                 PROVE  \E h : Halves(n + 1, h)
        OBVIOUS
    <2> DEFINE h == [k \in 0 .. n + 1 |-> IF k = n + 1 THEN Halved(x, f[n]) ELSE f[k]]
    <2>1. Halves(n + 1, h)
        OBVIOUS
    <2> QED BY <2>1
<1>3. PICK f : Halves(60, f)
    <2>1. 60 \in S
        BY <1>1, <1>2, CountingUp
    <2> QED BY <2>1
<1> DEFINE Equals(g) == g = [k \in 0 .. 60 |->
               IF k = 0 THEN World
               ELSE LET before == g[k - 1] IN Half(before, Upper(x, before))]
           after == CHOOSE g : Equals(g)
<1>4. Equals(after)
    <2> DEFINE g == [k \in 0 .. 60 |-> f[k]]
    <2>1. \A k \in 0 .. 60 : g[k] = IF k = 0 THEN World
                ELSE LET before == g[k - 1] IN Half(before, Upper(x, before))
        BY <1>3 DEF Halved
    <2>2. Equals(g)
        BY <2>1
    <2> QED BY <2>2, Zenon
<1>5. Around(x) = after
    <2>1. 5 * MaxPrecision = 60
        BY DEF MaxPrecision
    <2> QED BY <2>1, Zenon DEF Around
<1> HIDE DEF after
<1> QED BY <1>4, <1>5 DEF Halved

(* What the bits leave of the world is what the recursion says. *)
LEMMA NarrowedHalves ==
    ASSUME NEW bits, Len(bits) \in Nat
    PROVE  \E f : /\ f[0] = World
                  /\ \A k \in 1 .. Len(bits) : f[k] = Half(f[k - 1], bits[k])
                  /\ Narrowed(bits) = f[Len(bits)]
<1> DEFINE Step(k, s) == Half(s, bits[k])
<1> HIDE DEF Step
<1> DEFINE Halves(n, f) ==
               f[0] = World /\ \A k \in 1 .. n : f[k] = Step(k, f[k - 1])
           S == {n \in Nat : \E f : Halves(n, f)}
<1>1. 0 \in S
    <2>1. Halves(0, [k \in {0} |-> World])
        OBVIOUS
    <2> QED BY <2>1
<1>2. \A n \in Nat : n \in S => n + 1 \in S
    <2> SUFFICES ASSUME NEW n \in Nat, n \in S PROVE n + 1 \in S
        BY Zenon
    <2> PICK f : Halves(n, f)
        OBVIOUS
    <2> DEFINE h == [k \in 0 .. n + 1 |-> IF k = n + 1 THEN Step(n + 1, f[n]) ELSE f[k]]
    <2>1. Halves(n + 1, h)
        OBVIOUS
    <2>2. \E g : Halves(n + 1, g)
        BY <2>1, Zenon
    <2> QED BY <2>2
<1> DEFINE m == Len(bits)
<1>3. m \in Nat
    OBVIOUS
<1> HIDE DEF m
<1>4. PICK f : Halves(m, f)
    <2>1. m \in S
        BY <1>1, <1>2, <1>3, CountingUp
    <2> QED BY <2>1
<1> DEFINE Equals(g) == g = [k \in 0 .. m |->
               IF k = 0 THEN World ELSE Step(k, g[k - 1])]
           after == CHOOSE g : Equals(g)
<1>5. Equals(after)
    <2> DEFINE g == [k \in 0 .. m |-> f[k]]
    <2>1. \A k \in 0 .. m : g[k] = IF k = 0 THEN World ELSE Step(k, g[k - 1])
        BY <1>3, <1>4
    <2>2. Equals(g)
        BY <2>1
    <2> QED BY <2>2, Zenon
<1>6. Narrowed(bits) = after[m]
    BY Zenon DEF Narrowed, m, Step
<1> HIDE DEF after
<1>7. after[0] = World /\ \A k \in 1 .. m : after[k] = Step(k, after[k - 1])
    BY <1>3, <1>5
<1> QED BY <1>6, <1>7, Zenon DEF Step, m

(* An interval around a coordinate of the world has a width, and its ends  *)
(* are in the world.                                                       *)
Holds(interval, x) ==
    /\ interval \in Int \X Int
    /\ 0 <= interval[1] /\ interval[1] <= x
    /\ x <= interval[2] /\ interval[2] <= Side
    /\ interval[1] < interval[2]

LEMMA HalfHolds ==
    ASSUME NEW x \in 0 .. Side, NEW s, Holds(s, x)
    PROVE  /\ Holds(Halved(x, s), x)
           /\ s[1] <= Halved(x, s)[1] /\ Halved(x, s)[2] <= s[2]
<1> DEFINE mid == Mid(s)
<1>1. mid \in Int /\ s[1] <= mid /\ mid < s[2]
    BY DEF Holds, Mid
<1>2. s[1] \in Int /\ s[2] \in Int
    BY DEF Holds
<1>3. Halved(x, s) = IF x >= mid THEN <<mid, s[2]>> ELSE <<s[1], mid>>
    BY DEF Halved, Half, Upper
<1> HIDE DEF mid
<1>4. CASE x >= mid
    <2>1. Halved(x, s) = <<mid, s[2]>>
        BY <1>3, <1>4
    <2> QED BY <1>1, <1>2, <1>4, <2>1, GeohashAssumption DEF Holds, GeohashAssumption
<1>5. CASE ~(x >= mid)
    <2>1. Halved(x, s) = <<s[1], mid>>
        BY <1>3, <1>5
    <2> QED BY <1>1, <1>2, <1>5, <2>1, GeohashAssumption DEF Holds, GeohashAssumption
<1> QED BY <1>4, <1>5

LEMMA AroundHolds ==
    ASSUME NEW x \in 0 .. Side
    PROVE  \A k \in 0 .. 60 : Holds(Around(x)[k], x)
<1> DEFINE S == {k \in Nat : k <= 60 => Holds(Around(x)[k], x)}
<1>1. 0 \in S
    <2>1. Holds(World, x)
        BY GeohashAssumption DEF Holds, World, GeohashAssumption
    <2> QED BY <2>1, AroundHalves
<1>2. \A k \in Nat : k \in S => k + 1 \in S
    <2> SUFFICES ASSUME NEW k \in Nat, k + 1 <= 60, Holds(Around(x)[k], x)
                 PROVE  Holds(Around(x)[k + 1], x)
        OBVIOUS
    <2>1. k + 1 \in 1 .. 60 /\ (k + 1) - 1 = k
        OBVIOUS
    <2>2. Around(x)[k + 1] = Halved(x, Around(x)[k])
        BY <2>1, AroundHalves
    <2> QED BY <2>2, HalfHolds
<1>3. Nat \subseteq S
    BY <1>1, <1>2, CountingUp
<1> QED BY <1>3

(* Each interval is part of those before it. *)
LEMMA AroundNested ==
    ASSUME NEW x \in 0 .. Side, NEW n \in 0 .. 60, NEW k \in 0 .. n
    PROVE  /\ Around(x)[k][1] <= Around(x)[n][1]
           /\ Around(x)[n][2] <= Around(x)[k][2]
<1> DEFINE Inside(m) == /\ Around(x)[k][1] <= Around(x)[m][1]
                         /\ Around(x)[m][2] <= Around(x)[k][2]
           S == {i \in Nat : k + i <= 60 => Inside(k + i)}
<1>0. \A m \in 0 .. 60 : Around(x)[m][1] \in Int /\ Around(x)[m][2] \in Int
    BY AroundHolds DEF Holds
<1>1. 0 \in S
    <2>1. k + 0 = k /\ k \in 0 .. 60
        OBVIOUS
    <2>2. Around(x)[k][1] \in Int /\ Around(x)[k][2] \in Int
        BY <1>0, <2>1, Zenon
    <2>3. \A a \in Int : a <= a
        OBVIOUS
    <2>4. Inside(k)
        BY <2>2, <2>3, Zenon
    <2> QED BY <2>1, <2>4
<1>2. \A i \in Nat : i \in S => i + 1 \in S
    <2> SUFFICES ASSUME NEW i \in Nat, k + (i + 1) <= 60, Inside(k + i)
                 PROVE  Inside(k + (i + 1))
        OBVIOUS
    <2> DEFINE m == k + i
    <2>1. m \in 0 .. 60 /\ m + 1 \in 1 .. 60 /\ (m + 1) - 1 = m /\ k + (i + 1) = m + 1
        OBVIOUS
    <2> HIDE DEF m
    <2>2. Around(x)[m + 1] = Halved(x, Around(x)[m])
        BY <2>1, AroundHalves
    <2>3. Holds(Around(x)[m], x)
        BY <2>1, AroundHolds
    <2>4. /\ Around(x)[m][1] <= Around(x)[m + 1][1]
          /\ Around(x)[m + 1][2] <= Around(x)[m][2]
        BY <2>2, <2>3, HalfHolds
    <2>5. m + 1 \in 0 .. 60 /\ k \in 0 .. 60
        BY <2>1
    <2>6. Inside(m)
        BY DEF m
    <2>7. \A a, b, c \in Int : a <= b /\ b <= c => a <= c
        OBVIOUS
    <2>8. /\ Around(x)[k][1] \in Int /\ Around(x)[k][2] \in Int
          /\ Around(x)[m][1] \in Int /\ Around(x)[m][2] \in Int
          /\ Around(x)[m + 1][1] \in Int /\ Around(x)[m + 1][2] \in Int
        BY <1>0, <2>1, <2>5
    <2>9. Inside(m + 1)
        BY <2>4, <2>6, <2>7, <2>8
    <2> QED BY <2>1, <2>9
<1>3. n - k \in Nat /\ k + (n - k) = n
    OBVIOUS
<1>4. n - k \in S
    BY <1>1, <1>2, <1>3, CountingUp
<1> QED BY <1>3, <1>4

(* A coordinate that is in the interval around another, after n halvings,  *)
(* at its lower end too and between the two in any case, has taken the     *)
(* same halves.                                                            *)
Joins(y, x, n) ==
    /\ Around(x)[n][1] <= y
    /\ y < Around(x)[n][2] \/ y <= x

LEMMA SameHalves ==
    ASSUME NEW x \in 0 .. Side, NEW y \in Int, NEW n \in 0 .. 60, Joins(y, x, n)
    PROVE  /\ \A k \in 0 .. n : Around(y)[k] = Around(x)[k]
           /\ \A k \in 0 .. n - 1 : Upper(y, Around(y)[k]) = Upper(x, Around(x)[k])
<1>1. \A k \in 0 .. n - 1 : Upper(y, Around(x)[k]) = Upper(x, Around(x)[k])
    <2> TAKE k \in 0 .. n - 1
    <2> DEFINE s == Around(x)[k]
               t == Around(x)[k + 1]
               z == Around(x)[n]
    <2>1. k \in 0 .. 60 /\ k + 1 \in 0 .. n /\ k + 1 \in 1 .. 60 /\ (k + 1) - 1 = k
        OBVIOUS
    <2>2. t = Halved(x, s)
        BY <2>1, AroundHalves
    <2>3. Holds(s, x)
        BY <2>1, AroundHolds
    <2>4. t[1] <= z[1] /\ z[2] <= t[2]
        BY <2>1, AroundNested
    <2>5. z[1] \in Int /\ z[2] \in Int
        BY AroundHolds DEF Holds
    <2>6. z[1] <= y /\ (y < z[2] \/ y <= x)
        BY DEF Joins
    <2> HIDE DEF s, t, z
    <2> DEFINE mid == Mid(s)
    <2>7. mid \in Int
        BY <2>3 DEF Holds, Mid
    <2>8. x >= mid => t[1] = mid
        BY <2>2 DEF Halved, Half, Upper
    <2>9. ~(x >= mid) => t[2] = mid
        BY <2>2 DEF Halved, Half, Upper
    <2> HIDE DEF mid
    <2>10. y >= mid <=> x >= mid
        BY <2>4, <2>5, <2>6, <2>7, <2>8, <2>9
    <2> QED BY <2>10 DEF Upper, mid, s
<1> DEFINE S == {k \in Nat : k <= n => Around(y)[k] = Around(x)[k]}
<1>2. 0 \in S
    BY AroundHalves
<1>3. \A k \in Nat : k \in S => k + 1 \in S
    <2> SUFFICES ASSUME NEW k \in Nat, k + 1 <= n, Around(y)[k] = Around(x)[k]
                 PROVE  Around(y)[k + 1] = Around(x)[k + 1]
        OBVIOUS
    <2>1. k + 1 \in 1 .. 60 /\ (k + 1) - 1 = k /\ k \in 0 .. n - 1
        OBVIOUS
    <2>2. /\ Around(x)[k + 1] = Halved(x, Around(x)[k])
          /\ Around(y)[k + 1] = Halved(y, Around(y)[k])
        BY <2>1, AroundHalves
    <2>3. Halved(y, Around(x)[k]) = Halved(x, Around(x)[k])
        BY <1>1, <2>1 DEF Halved
    <2> QED BY <2>2, <2>3
<1>4. Nat \subseteq S
    BY <1>2, <1>3, CountingUp
<1>5. \A k \in 0 .. n : Around(y)[k] = Around(x)[k]
    BY <1>4
<1> QED BY <1>1, <1>5

(* The bits of a coordinate narrow the world to the interval around it. *)
BitsOf(bits, x, n) ==
    /\ bits \in Seq(Int) /\ Len(bits) = n
    /\ \A k \in 1 .. n : bits[k] = Upper(x, Around(x)[k - 1])

LEMMA NarrowedAround ==
    ASSUME NEW x, NEW n \in 0 .. 60, NEW bits, BitsOf(bits, x, n)
    PROVE  Narrowed(bits) = Around(x)[n]
<1>1. n \in Nat /\ Len(bits) = n
    BY DEF BitsOf
<1>2. PICK f : /\ f[0] = World
               /\ \A k \in 1 .. n : f[k] = Half(f[k - 1], bits[k])
               /\ Narrowed(bits) = f[n]
    BY <1>1, NarrowedHalves, Zenon
<1> DEFINE S == {k \in Nat : k <= n => f[k] = Around(x)[k]}
<1>3. 0 \in S
    BY <1>2, AroundHalves
<1>4. \A k \in Nat : k \in S => k + 1 \in S
    <2> SUFFICES ASSUME NEW k \in Nat, k + 1 <= n, f[k] = Around(x)[k]
                 PROVE  f[k + 1] = Around(x)[k + 1]
        OBVIOUS
    <2>1. k + 1 \in 1 .. 60 /\ k + 1 \in 1 .. n /\ (k + 1) - 1 = k
        OBVIOUS
    <2>2. Around(x)[k + 1] = Halved(x, Around(x)[k])
        BY <2>1, AroundHalves
    <2>3. f[k + 1] = Half(f[k], bits[k + 1])
        BY <1>2, <2>1, Zenon
    <2>4. bits[k + 1] = Upper(x, Around(x)[k])
        BY <2>1, Zenon DEF BitsOf
    <2> QED BY <2>2, <2>3, <2>4, Zenon DEF Halved
<1>5. n \in S
    BY <1>1, <1>3, <1>4, CountingUp
<1> QED BY <1>2, <1>5

------------------------------------------------------------------------------
LEMMA UpperIsBit == \A x, s : Upper(x, s) \in {0, 1}
BY DEF Upper

LEMMA BitOfIsBit == \A p, i : BitOf(p, i) \in {0, 1}
BY UpperIsBit, Zenon DEF BitOf

Length(precision) == Bound(precision, 1, MaxPrecision)

LEMMA LengthBounded ==
    ASSUME NEW precision \in Int
    PROVE  Length(precision) \in 1 .. 12
BY DEF Length, Bound, MaxPrecision

(* Five bits and the character they make. *)
Five(a, b, c, d, e) == 16 * a + 8 * b + 4 * c + 2 * d + e

LEMMA FiveBits ==
    ASSUME NEW a \in {0, 1}, NEW b \in {0, 1}, NEW c \in {0, 1}, NEW d \in {0, 1},
           NEW e \in {0, 1}
    PROVE  /\ Five(a, b, c, d, e) \in 0 .. 31
           /\ (Five(a, b, c, d, e) \div 16) % 2 = a
           /\ (Five(a, b, c, d, e) \div 8) % 2 = b
           /\ (Five(a, b, c, d, e) \div 4) % 2 = c
           /\ (Five(a, b, c, d, e) \div 2) % 2 = d
           /\ (Five(a, b, c, d, e) \div 1) % 2 = e
<1> DEFINE m == Five(a, b, c, d, e)
<1>1. a \in Int /\ b \in Int /\ c \in Int /\ d \in Int /\ e \in Int
    OBVIOUS
<1>2. m = 16 * a + 8 * b + 4 * c + 2 * d + e
    BY DEF Five
<1> HIDE DEF m
<1>3. m \in 0 .. 31
    BY <1>2
<1>4. m \div 16 = a
    BY <1>1, <1>2
<1>5. m \div 8 = 2 * a + b
    BY <1>1, <1>2
<1>6. m \div 4 = 4 * a + 2 * b + c
    BY <1>1, <1>2
<1>7. m \div 2 = 8 * a + 4 * b + 2 * c + d
    BY <1>1, <1>2
<1>8. m \div 1 = 16 * a + 8 * b + 4 * c + 2 * d + e
    BY <1>1, <1>2
<1>9. a % 2 = a
    OBVIOUS
<1>10. (2 * a + b) % 2 = b
    OBVIOUS
<1>11. (4 * a + 2 * b + c) % 2 = c
    OBVIOUS
<1>12. (8 * a + 4 * b + 2 * c + d) % 2 = d
    OBVIOUS
<1>13. (16 * a + 8 * b + 4 * c + 2 * d + e) % 2 = e
    OBVIOUS
<1> QED BY <1>3, <1>4, <1>5, <1>6, <1>7, <1>8, <1>9, <1>10, <1>11, <1>12, <1>13 DEF m

(* A geohash is a row of characters of the alphabet, each of its five bits. *)
LEMMA EncodeChars ==
    ASSUME NEW p, NEW precision \in Int
    PROVE  /\ Encode(p, precision) \in [1 .. Length(precision) -> 0 .. 31]
           /\ \A c \in 1 .. Length(precision) :
                 Encode(p, precision)[c] =
                     Five(BitOf(p, 5 * c - 4), BitOf(p, 5 * c - 3), BitOf(p, 5 * c - 2),
                          BitOf(p, 5 * c - 1), BitOf(p, 5 * c))
<1> DEFINE Char(i) == 16 * BitOf(p, i) + 8 * BitOf(p, i + 1) + 4 * BitOf(p, i + 2)
                          + 2 * BitOf(p, i + 3) + BitOf(p, i + 4)
           n == Length(precision)
<1>1. n \in 1 .. 12
    BY LengthBounded
<1>2. Encode(p, precision) = [c \in 1 .. n |-> Char(5 * c - 4)]
    BY Zenon DEF Encode, Length
<1> HIDE DEF n
<1>3. \A c \in 1 .. n :
         /\ Char(5 * c - 4) =
                Five(BitOf(p, 5 * c - 4), BitOf(p, 5 * c - 3), BitOf(p, 5 * c - 2),
                     BitOf(p, 5 * c - 1), BitOf(p, 5 * c))
         /\ Char(5 * c - 4) \in 0 .. 31
    <2> TAKE c \in 1 .. n
    <2>1. /\ (5 * c - 4) + 1 = 5 * c - 3 /\ (5 * c - 4) + 2 = 5 * c - 2
          /\ (5 * c - 4) + 3 = 5 * c - 1 /\ (5 * c - 4) + 4 = 5 * c
        BY <1>1
    <2>2. Char(5 * c - 4) =
                Five(BitOf(p, 5 * c - 4), BitOf(p, 5 * c - 3), BitOf(p, 5 * c - 2),
                     BitOf(p, 5 * c - 1), BitOf(p, 5 * c))
        BY <2>1, Zenon DEF Five
    <2> QED BY <2>2, BitOfIsBit, FiveBits
<1> HIDE DEF Char
<1> QED BY <1>2, <1>3 DEF n

(* Reading the geohash gives its bits back. *)
LEMMA ReadsBits ==
    ASSUME NEW p, NEW precision \in Int, NEW i \in 1 .. 5 * Length(precision)
    PROVE  ReadBit(Encode(p, precision), i) = BitOf(p, i)
<1> DEFINE n == Length(precision)
           hash == Encode(p, precision)
           c == ((i - 1) \div 5) + 1
           j == ((i - 1) % 5) + 1
<1>1. n \in 1 .. 12
    BY LengthBounded
<1>2. /\ c \in 1 .. n /\ j \in 1 .. 5
      /\ i = 5 * c - 5 + j
    BY <1>1
<1>3. hash[c] = Five(BitOf(p, 5 * c - 4), BitOf(p, 5 * c - 3), BitOf(p, 5 * c - 2),
                     BitOf(p, 5 * c - 1), BitOf(p, 5 * c))
    BY <1>2, EncodeChars
<1>4. ReadBit(hash, i) = (hash[c] \div Weights[j]) % 2
    BY Zenon DEF ReadBit
<1> HIDE DEF c, j, hash, n
<1>5. c \in Int
    BY <1>1, <1>2
<1>6. /\ (hash[c] \div 16) % 2 = BitOf(p, 5 * c - 4)
      /\ (hash[c] \div 8) % 2 = BitOf(p, 5 * c - 3)
      /\ (hash[c] \div 4) % 2 = BitOf(p, 5 * c - 2)
      /\ (hash[c] \div 2) % 2 = BitOf(p, 5 * c - 1)
      /\ (hash[c] \div 1) % 2 = BitOf(p, 5 * c)
    BY <1>3, BitOfIsBit, FiveBits
<1>7. CASE j = 1
    <2>1. i = 5 * c - 4 /\ Weights[j] = 16
        BY <1>2, <1>5, <1>7 DEF Weights
    <2> QED BY <1>4, <1>6, <2>1 DEF hash
<1>8. CASE j = 2
    <2>1. i = 5 * c - 3 /\ Weights[j] = 8
        BY <1>2, <1>5, <1>8 DEF Weights
    <2> QED BY <1>4, <1>6, <2>1 DEF hash
<1>9. CASE j = 3
    <2>1. i = 5 * c - 2 /\ Weights[j] = 4
        BY <1>2, <1>5, <1>9 DEF Weights
    <2> QED BY <1>4, <1>6, <2>1 DEF hash
<1>10. CASE j = 4
    <2>1. i = 5 * c - 1 /\ Weights[j] = 2
        BY <1>2, <1>5, <1>10 DEF Weights
    <2> QED BY <1>4, <1>6, <2>1 DEF hash
<1>11. CASE j = 5
    <2>1. i = 5 * c /\ Weights[j] = 1
        BY <1>2, <1>5, <1>11 DEF Weights
    <2> QED BY <1>4, <1>6, <2>1 DEF hash
<1> QED BY <1>2, <1>7, <1>8, <1>9, <1>10, <1>11

(* No character of a geohash that was encoded is passed over. *)
LEMMA AllKnown ==
    ASSUME NEW n \in Nat, NEW hash \in [1 .. n -> 0 .. 31]
    PROVE  Known(hash) = hash /\ Len(hash) = n
<1> DEFINE places == {c \in DOMAIN hash : hash[c] # NoChar}
           kth(k) == CHOOSE c \in places : Cardinality({d \in places : d <= c}) = k
<1>1. places = 1 .. n
    <2>1. \A c \in 1 .. n : hash[c] # NoChar
        <3>1. \A c \in 1 .. n : hash[c] \in 0 .. 31
            OBVIOUS
        <3>2. \A h \in 0 .. 31 : h # NoChar
            BY DEF NoChar
        <3> QED BY <3>1, <3>2, Zenon
    <2>2. DOMAIN hash = 1 .. n
        OBVIOUS
    <2> QED BY <2>1, <2>2, Zenon
<1>2. \A c \in 1 .. n : Cardinality({d \in places : d <= c}) = c
    <2> TAKE c \in 1 .. n
    <2>1. {d \in places : d <= c} = 1 .. c
        BY <1>1
    <2>2. Cardinality(1 .. c) = c
        BY FS_Interval
    <2> QED BY <2>1, <2>2
<1>3. Cardinality(places) = n
    <2>1. Cardinality(1 .. n) = n
        BY FS_Interval
    <2> QED BY <2>1, <1>1
<1>4. \A k \in 1 .. n : kth(k) = k
    BY <1>1, <1>2
<1>5. Known(hash) = [k \in 1 .. n |-> hash[kth(k)]]
    BY <1>3 DEF Known
<1> HIDE DEF kth, places
<1>6. Known(hash) = [k \in 1 .. n |-> hash[k]]
    BY <1>4, <1>5
<1> QED BY <1>6

WorldPoint == [lat : 0 .. Side, lng : 0 .. Side]

(* The intervals of the two axes that so many characters come to. *)
Cell(p, precision) ==
    [lat |-> Around(p.lat)[(5 * Length(precision)) \div 2],
     lng |-> Around(p.lng)[(5 * Length(precision) + 1) \div 2]]

(* Bits of odd places are of the longitude, the others of the latitude. *)
LEMMA BitsOfAxes ==
    ASSUME NEW p, NEW k \in Nat \ {0}
    PROVE  /\ BitOf(p, 2 * k) = Upper(p.lat, Around(p.lat)[k - 1])
           /\ BitOf(p, 2 * k - 1) = Upper(p.lng, Around(p.lng)[k - 1])
<1>1. /\ (2 * k) % 2 # 1 /\ (2 * k - 1) % 2 = 1
      /\ (2 * k - 1) \div 2 = k - 1 /\ ((2 * k - 1) - 1) \div 2 = k - 1
    OBVIOUS
<1>2. Axis(2 * k) = "lat" /\ Axis(2 * k - 1) = "lng"
    BY <1>1 DEF Axis
<1>3. "lat" # "lng"
    OBVIOUS
<1> QED BY <1>1, <1>2, <1>3, Zenon DEF BitOf

(* A geohash decodes to the intervals its bits were taken from. *)
LEMMA DecodesToCell ==
    ASSUME NEW p, NEW precision \in Int
    PROVE  DecodeBounds(Encode(p, precision)) = Cell(p, precision)
<1> DEFINE m == Length(precision)
           hash == Encode(p, precision)
           lats == [k \in 1 .. (5 * m) \div 2 |-> ReadBit(hash, 2 * k)]
           lngs == [k \in 1 .. (5 * m + 1) \div 2 |-> ReadBit(hash, 2 * k - 1)]
<1>1. m \in 1 .. 12
    BY LengthBounded
<1>2. Known(hash) = hash /\ Len(hash) = m
    <2>1. hash \in [1 .. m -> 0 .. 31]
        BY EncodeChars, Zenon
    <2> HIDE DEF m, hash
    <2>2. m \in Nat
        BY <1>1
    <2> QED BY <2>1, <2>2, AllKnown
<1>3. DecodeBounds(hash) = [lat |-> Narrowed(lats), lng |-> Narrowed(lngs)]
    BY <1>2, Zenon DEF DecodeBounds
<1> HIDE DEF m
<1>4. (5 * m) \div 2 \in 0 .. 60 /\ (5 * m + 1) \div 2 \in 0 .. 60
    BY <1>1
<1>5. \A k \in 1 .. (5 * m) \div 2 : ReadBit(hash, 2 * k) = BitOf(p, 2 * k)
    <2> TAKE k \in 1 .. (5 * m) \div 2
    <2>1. 2 * k \in 1 .. 5 * m
        BY <1>1
    <2> QED BY <2>1, ReadsBits DEF m
<1>6. \A k \in 1 .. (5 * m + 1) \div 2 : ReadBit(hash, 2 * k - 1) = BitOf(p, 2 * k - 1)
    <2> TAKE k \in 1 .. (5 * m + 1) \div 2
    <2>1. 2 * k - 1 \in 1 .. 5 * m
        BY <1>1
    <2> QED BY <2>1, ReadsBits DEF m
<1> HIDE DEF hash
<1>7. BitsOf(lats, p.lat, (5 * m) \div 2)
    <2>1. \A k \in 1 .. (5 * m) \div 2 :
             ReadBit(hash, 2 * k) = Upper(p.lat, Around(p.lat)[k - 1])
        BY <1>4, <1>5, BitsOfAxes
    <2> DEFINE n == (5 * m) \div 2
    <2>2. n \in Nat
        BY <1>4
    <2>3. \A k \in 1 .. n : ReadBit(hash, 2 * k) \in Int
        BY <2>1, UpperIsBit
    <2>4. lats = [k \in 1 .. n |-> ReadBit(hash, 2 * k)]
        OBVIOUS
    <2> HIDE DEF n, lats
    <2>5. lats \in Seq(Int) /\ Len(lats) = n
        BY <2>2, <2>3, <2>4
    <2>6. \A k \in 1 .. n : lats[k] = Upper(p.lat, Around(p.lat)[k - 1])
        BY <2>1, <2>4 DEF n
    <2> QED BY <2>5, <2>6, Zenon DEF BitsOf, n
<1>8. BitsOf(lngs, p.lng, (5 * m + 1) \div 2)
    <2>1. \A k \in 1 .. (5 * m + 1) \div 2 :
             ReadBit(hash, 2 * k - 1) = Upper(p.lng, Around(p.lng)[k - 1])
        BY <1>4, <1>6, BitsOfAxes
    <2> DEFINE n == (5 * m + 1) \div 2
    <2>2. n \in Nat
        BY <1>4
    <2>3. \A k \in 1 .. n : ReadBit(hash, 2 * k - 1) \in Int
        BY <2>1, UpperIsBit
    <2>4. lngs = [k \in 1 .. n |-> ReadBit(hash, 2 * k - 1)]
        OBVIOUS
    <2> HIDE DEF n, lngs
    <2>5. lngs \in Seq(Int) /\ Len(lngs) = n
        BY <2>2, <2>3, <2>4
    <2>6. \A k \in 1 .. n : lngs[k] = Upper(p.lng, Around(p.lng)[k - 1])
        BY <2>1, <2>4 DEF n
    <2> QED BY <2>5, <2>6, Zenon DEF BitsOf, n
<1> HIDE DEF lats, lngs
<1>9. /\ Narrowed(lats) = Around(p.lat)[(5 * m) \div 2]
      /\ Narrowed(lngs) = Around(p.lng)[(5 * m + 1) \div 2]
    BY <1>4, <1>7, <1>8, NarrowedAround
<1> QED BY <1>3, <1>9, Zenon DEF Cell, m, hash

LEMMA SameRows ==
    ASSUME NEW n \in Nat, NEW f \in [1 .. n -> 0 .. 31], NEW g \in [1 .. n -> 0 .. 31],
           \A c \in 1 .. n : f[c] = g[c]
    PROVE  f = g
OBVIOUS

(* Points whose coordinates join those of another have its geohash. *)
LEMMA SameHash ==
    ASSUME NEW p \in WorldPoint, NEW q \in Place, NEW precision \in Int,
           Joins(q.lat, p.lat, (5 * Length(precision)) \div 2),
           Joins(q.lng, p.lng, (5 * Length(precision) + 1) \div 2)
    PROVE  Encode(q, precision) = Encode(p, precision)
<1> DEFINE m == Length(precision)
<1>1. m \in 1 .. 12
    BY LengthBounded
<1>2. p.lat \in 0 .. Side /\ p.lng \in 0 .. Side /\ q.lat \in Int /\ q.lng \in Int
    BY DEF WorldPoint, Place
<1>3. \A k \in 0 .. (5 * m) \div 2 - 1 :
         Upper(q.lat, Around(q.lat)[k]) = Upper(p.lat, Around(p.lat)[k])
    <2>1. (5 * m) \div 2 \in 0 .. 60
        BY <1>1
    <2> QED BY <1>2, <2>1, SameHalves
<1>4. \A k \in 0 .. (5 * m + 1) \div 2 - 1 :
         Upper(q.lng, Around(q.lng)[k]) = Upper(p.lng, Around(p.lng)[k])
    <2>1. (5 * m + 1) \div 2 \in 0 .. 60
        BY <1>1
    <2> QED BY <1>2, <2>1, SameHalves
<1> HIDE DEF m
<1>5. \A i \in 1 .. 5 * m : BitOf(q, i) = BitOf(p, i)
    <2> TAKE i \in 1 .. 5 * m
    <2> DEFINE k == (i - 1) \div 2
    <2>1. CASE i % 2 = 1
        <3>1. k \in 0 .. (5 * m + 1) \div 2 - 1
            BY <1>1, <2>1
        <3>2. Axis(i) = "lng"
            BY <2>1 DEF Axis
        <3> QED BY <1>4, <3>1, <3>2, Zenon DEF BitOf
    <2>2. CASE i % 2 # 1
        <3>1. k \in 0 .. (5 * m) \div 2 - 1
            BY <1>1, <2>2
        <3>2. Axis(i) # "lng"
            BY <2>2 DEF Axis
        <3> QED BY <1>3, <3>1, <3>2, Zenon DEF BitOf
    <2> QED BY <2>1, <2>2
<1>6. \A c \in 1 .. m :
         /\ 5 * c - 4 \in 1 .. 5 * m /\ 5 * c - 3 \in 1 .. 5 * m
         /\ 5 * c - 2 \in 1 .. 5 * m /\ 5 * c - 1 \in 1 .. 5 * m /\ 5 * c \in 1 .. 5 * m
    BY <1>1
<1>7. \A c \in 1 .. m : Encode(q, precision)[c] = Encode(p, precision)[c]
    BY <1>5, <1>6, EncodeChars, Zenon DEF m
<1>8. /\ Encode(q, precision) \in [1 .. m -> 0 .. 31]
      /\ Encode(p, precision) \in [1 .. m -> 0 .. 31]
    BY EncodeChars DEF m
<1> DEFINE f == Encode(q, precision)
           g == Encode(p, precision)
<1>9. /\ f \in [1 .. m -> 0 .. 31] /\ g \in [1 .. m -> 0 .. 31]
      /\ \A c \in 1 .. m : f[c] = g[c]
    BY <1>7, <1>8
<1> HIDE DEF f, g
<1>10. f = g
    BY <1>1, <1>9, SameRows
<1> QED BY <1>10 DEF f, g

(* The middle of an interval joins what the interval is around. *)
LEMMA MiddleJoins ==
    ASSUME NEW x \in 0 .. Side, NEW n \in 0 .. 60
    PROVE  Mid(Around(x)[n]) \in Int /\ Joins(Mid(Around(x)[n]), x, n)
<1>1. Holds(Around(x)[n], x)
    BY AroundHolds
<1> QED BY <1>1 DEF Joins, Holds, Mid

LEMMA NextSample ==
    ASSUME NEW low \in Int, NEW k \in Int, NEW tenth \in Int
    PROVE  /\ low + k * tenth \in Int /\ low + (k + 1) * tenth \in Int
           /\ low + (k + 1) * tenth = (low + k * tenth) + tenth
OBVIOUS

LEMMA OneOfTwo ==
    ASSUME NEW left \in Int, NEW right \in Int, NEW x \in Int, NEW y \in Int,
           NEW tenth \in Int, left <= x, x < y + tenth, tenth <= right - left
    PROVE  left <= y \/ (left <= y + tenth /\ y + tenth < right)
OBVIOUS

(* A coordinate below the tenth of the samples is between two of them. *)
LEMMA BetweenTwo ==
    ASSUME NEW low \in Int, NEW tenth \in Int, NEW x \in Int,
           low <= x, x < low + 9 * tenth
    PROVE  \E k \in 0 .. 8 : low + k * tenth <= x /\ x < low + (k + 1) * tenth
<1>1. \/ low + 0 * tenth <= x /\ x < low + (0 + 1) * tenth
      \/ low + 1 * tenth <= x /\ x < low + (1 + 1) * tenth
      \/ low + 2 * tenth <= x /\ x < low + (2 + 1) * tenth
      \/ low + 3 * tenth <= x /\ x < low + (3 + 1) * tenth
      \/ low + 4 * tenth <= x /\ x < low + (4 + 1) * tenth
      \/ low + 5 * tenth <= x /\ x < low + (5 + 1) * tenth
      \/ low + 6 * tenth <= x /\ x < low + (6 + 1) * tenth
      \/ low + 7 * tenth <= x /\ x < low + (7 + 1) * tenth
      \/ low + 8 * tenth <= x /\ x < low + (8 + 1) * tenth
    OBVIOUS
<1>2. /\ 0 \in 0 .. 8 /\ 1 \in 0 .. 8 /\ 2 \in 0 .. 8 /\ 3 \in 0 .. 8 /\ 4 \in 0 .. 8
      /\ 5 \in 0 .. 8 /\ 6 \in 0 .. 8 /\ 7 \in 0 .. 8 /\ 8 \in 0 .. 8
    OBVIOUS
<1> QED BY <1>1, <1>2, Zenon

(* One of the samples joins a coordinate that lies between the first and   *)
(* the tenth, when the interval around it is as wide as they are apart.    *)
LEMMA SampleJoins ==
    ASSUME NEW x \in 0 .. Side, NEW n \in 0 .. 60,
           NEW low \in Int, NEW high \in Int, NEW last \in {9, 10},
           low <= x, x <= high, x <= low + 9 * ((high - low) \div 10),
           (high - low) \div 10 <= Around(x)[n][2] - Around(x)[n][1]
    PROVE  \E y \in Samples(<<low, high>>, last) : y \in Int /\ Joins(y, x, n)
<1> DEFINE tenth == (high - low) \div 10
           left == Around(x)[n][1]
           right == Around(x)[n][2]
<1>1. /\ left \in Int /\ right \in Int
      /\ left <= x /\ x <= right /\ left < right
    BY AroundHolds DEF Holds
<1>2. tenth \in Nat /\ tenth <= right - left
    OBVIOUS
<1>3. \A k \in 0 .. 9 : low + k * tenth \in Samples(<<low, high>>, last)
    BY DEF Samples
<1>4. \A y \in Int : left <= y /\ (y < right \/ y <= x) => Joins(y, x, n)
    BY DEF Joins
<1>5. x <= low + 9 * tenth
    OBVIOUS
<1> HIDE DEF tenth, left, right
<1>6. \A y \in Int : y <= x /\ x < y + tenth =>
         left <= y \/ (left <= y + tenth /\ y + tenth < right)
    BY <1>1, <1>2, OneOfTwo
<1>7. \A k \in 0 .. 8 : low + k * tenth <= x /\ x < low + (k + 1) * tenth =>
         \E y \in Samples(<<low, high>>, last) : y \in Int /\ Joins(y, x, n)
    <2> SUFFICES ASSUME NEW k \in 0 .. 8,
                        low + k * tenth <= x, x < low + (k + 1) * tenth
                 PROVE  \E y \in Samples(<<low, high>>, last) : y \in Int /\ Joins(y, x, n)
        OBVIOUS
    <2> DEFINE y == low + k * tenth
               z == low + (k + 1) * tenth
    <2>1. y \in Int /\ z \in Int /\ z = y + tenth
        <3>1. k \in Int /\ tenth \in Int
            BY <1>2
        <3> QED BY <3>1, NextSample
    <2>2. y \in Samples(<<low, high>>, last) /\ z \in Samples(<<low, high>>, last)
        BY <1>3
    <2>3. y <= x /\ x < z
        OBVIOUS
    <2> HIDE DEF y, z
    <2>4. left <= y \/ (left <= z /\ z < right)
        BY <1>6, <2>1, <2>3
    <2> QED BY <1>4, <2>1, <2>2, <2>3, <2>4
<1>8. CASE x = low + 9 * tenth
    <2>1. x \in Samples(<<low, high>>, last) /\ x <= x
        BY <1>3, <1>8
    <2> QED BY <1>1, <1>4, <2>1
<1>9. CASE x # low + 9 * tenth
    <2>1. x < low + 9 * tenth
        BY <1>2, <1>5, <1>9
    <2>2. \E k \in 0 .. 8 : low + k * tenth <= x /\ x < low + (k + 1) * tenth
        BY <1>2, <2>1, BetweenTwo
    <2> QED BY <2>2, <1>7
<1> QED BY <1>8, <1>9

(* A point of the world is in the bounds its geohash decodes to, and their *)
(* centre has the geohash again, at every precision.                       *)
THEOREM GeohashRoundTrip ==
    ASSUME NEW p \in WorldPoint, NEW precision \in Int
    PROVE  LET hash == Encode(p, precision)
               cell == DecodeBounds(hash)
           IN  /\ Within(cell.lat, p.lat) /\ Within(cell.lng, p.lng)
               /\ Encode(Decode(hash), precision) = hash
<1> DEFINE hash == Encode(p, precision)
           m == (5 * Length(precision)) \div 2
           n == (5 * Length(precision) + 1) \div 2
<1>1. m \in 0 .. 60 /\ n \in 0 .. 60
    BY LengthBounded
<1>2. p.lat \in 0 .. Side /\ p.lng \in 0 .. Side
    BY DEF WorldPoint
<1>3. DecodeBounds(hash) = Cell(p, precision)
    BY DecodesToCell
<1>4. /\ DecodeBounds(hash).lat = Around(p.lat)[m]
      /\ DecodeBounds(hash).lng = Around(p.lng)[n]
    BY <1>3 DEF Cell
<1>5. /\ Within(Around(p.lat)[m], p.lat)
      /\ Within(Around(p.lng)[n], p.lng)
    BY <1>1, <1>2, AroundHolds DEF Holds, Within
<1> DEFINE q == [lat |-> Mid(Around(p.lat)[m]), lng |-> Mid(Around(p.lng)[n])]
<1>6. Decode(hash) = q
    BY <1>4, Zenon DEF Decode
<1>7. /\ q \in Place
      /\ Joins(q.lat, p.lat, m) /\ Joins(q.lng, p.lng, n)
    BY <1>1, <1>2, MiddleJoins DEF Place
<1>8. Encode(q, precision) = hash
    <2> HIDE DEF q
    <2> QED BY <1>7, SameHash
<1> QED BY <1>4, <1>5, <1>6, <1>8

(* The sides of the box around an area have whole ends. *)
LEMMA BoxIsWhole ==
    ASSUME NEW a \in Place, NEW b \in Place, NEW c \in Place, NEW d \in Place
    PROVE  /\ BoundingBox(<<a, b, c, d>>).lat \in Int \X Int
           /\ BoundingBox(<<a, b, c, d>>).lng \in Int \X Int
<1> DEFINE polygon == <<a, b, c, d>>
           lats == {polygon[i].lat : i \in DOMAIN polygon}
           lngs == {polygon[i].lng : i \in DOMAIN polygon}
<1>1. /\ a.lat \in Int /\ b.lat \in Int /\ c.lat \in Int /\ d.lat \in Int
      /\ a.lng \in Int /\ b.lng \in Int /\ c.lng \in Int /\ d.lng \in Int
    BY DEF Place
<1>2. lats = {a.lat, b.lat, c.lat, d.lat} /\ lngs = {a.lng, b.lng, c.lng, d.lng}
    <2>1. DOMAIN polygon = {1, 2, 3, 4}
        OBVIOUS
    <2>2. polygon[1] = a /\ polygon[2] = b /\ polygon[3] = c /\ polygon[4] = d
        OBVIOUS
    <2> HIDE DEF polygon
    <2> QED BY <2>1, <2>2
<1>3. BoundingBox(polygon) =
          [lat |-> <<Min(lats), Max(lats)>>, lng |-> <<Min(lngs), Max(lngs)>>]
    BY DEF BoundingBox
<1> HIDE DEF lats, lngs
<1>4. Min(lats) \in Int /\ Max(lats) \in Int
    BY <1>1, <1>2, FourExtremes
<1>5. Min(lngs) \in Int /\ Max(lngs) \in Int
    BY <1>1, <1>2, FourExtremes
<1> QED BY <1>3, <1>4, <1>5

LEMMA SampledIsCover ==
    ASSUME NEW box, NEW n, NEW lastLat, NEW lastLng,
           NEW y \in Samples(box.lat, lastLat), NEW x \in Samples(box.lng, lastLng)
    PROVE  Encode([lat |-> y, lng |-> x], n) \in CoverBoundingBox(box, n, lastLat, lastLng)
BY DEF CoverBoundingBox

(* The covers stay as they were sampled.                                   *)
CoverInv ==
    \E lastLat, lastLng \in {9, 10} :
        covers = [n \in Precisions |-> CoverBoundingBox(AreaBox, n, lastLat, lastLng)]

LEMMA PointsCovered ==
    ASSUME AreaInv, CoverInv, NEW p \in WorldPoint, NEW n \in Precisions,
           Contains(fences.area.polygon, p),
           FineEnough(AreaBox, Encode(p, n)),
           p.lat <= AreaBox.lat[1] + 9 * Tenth(AreaBox.lat),
           p.lng <= AreaBox.lng[1] + 9 * Tenth(AreaBox.lng)
    PROVE  Encode(p, n) \in covers[n]
<1> DEFINE hash == Encode(p, n)
           i == (5 * Length(n)) \div 2
           j == (5 * Length(n) + 1) \div 2
<1>1. n \in Int /\ i \in 0 .. 60 /\ j \in 0 .. 60
    <2>1. n \in Int
        BY GeoAssumption DEF GeoAssumption
    <2> QED BY <2>1, LengthBounded
<1>2. p.lat \in 0 .. Side /\ p.lng \in 0 .. Side /\ p \in Place
    BY DEF WorldPoint, Place
<1>3. PICK a, b, c, d \in Place : fences = Zoned(a, b, c, d)
    BY DEF AreaInv
<1>4. fences.area.polygon = <<a, b, c, d>>
    BY <1>3 DEF Zoned
<1> DEFINE box == BoundingBox(<<a, b, c, d>>)
           south == box.lat[1]
           north == box.lat[2]
           west == box.lng[1]
           east == box.lng[2]
<1>5. box.lat \in Int \X Int /\ box.lng \in Int \X Int
    BY BoxIsWhole
<1>6. AreaBox = box
    BY <1>4 DEF AreaBox
<1>7. /\ box.lat = <<south, north>> /\ box.lng = <<west, east>>
      /\ south \in Int /\ north \in Int /\ west \in Int /\ east \in Int
    <2> HIDE DEF box
    <2> QED BY <1>5
<1>8. /\ south <= p.lat /\ p.lat <= north
      /\ west <= p.lng /\ p.lng <= east
    <2>1. <<a, b, c, d>> \in Seq(Place) /\ <<a, b, c, d>> # <<>>
        OBVIOUS
    <2>2. {<<a, b, c, d>>[k] : k \in DOMAIN <<a, b, c, d>>} = {a, b, c, d}
        OBVIOUS
    <2>3. Contains(<<a, b, c, d>>, p)
        BY <1>4
    <2>4. Within(box.lat, p.lat) /\ Within(box.lng, p.lng)
        BY <1>2, <2>1, <2>2, <2>3, InTheBox
    <2> HIDE DEF box
    <2> QED BY <2>4 DEF Within
<1> HIDE DEF box, south, north, west, east
<1>9. /\ DecodeBounds(hash).lat = Around(p.lat)[i]
      /\ DecodeBounds(hash).lng = Around(p.lng)[j]
    BY <1>1, DecodesToCell DEF Cell
<1>10. /\ (north - south) \div 10 <= Around(p.lat)[i][2] - Around(p.lat)[i][1]
       /\ (east - west) \div 10 <= Around(p.lng)[j][2] - Around(p.lng)[j][1]
    <2>1. FineEnough(box, hash)
        BY <1>6
    <2>2. /\ Tenth(box["lat"]) <= DecodeBounds(hash)["lat"][2] - DecodeBounds(hash)["lat"][1]
          /\ Tenth(box["lng"]) <= DecodeBounds(hash)["lng"][2] - DecodeBounds(hash)["lng"][1]
        BY <2>1 DEF FineEnough
    <2>3. /\ Tenth(box.lat) = (north - south) \div 10
          /\ Tenth(box.lng) = (east - west) \div 10
        BY <1>7 DEF Tenth
    <2> QED BY <1>9, <2>2, <2>3
<1>11. /\ p.lat <= south + 9 * ((north - south) \div 10)
       /\ p.lng <= west + 9 * ((east - west) \div 10)
    BY <1>6, <1>7 DEF Tenth
<1>12. PICK lastLat, lastLng \in {9, 10} :
          covers = [k \in Precisions |-> CoverBoundingBox(box, k, lastLat, lastLng)]
    BY <1>6 DEF CoverInv
<1> HIDE DEF hash, i, j
<1>13. PICK y \in Samples(<<south, north>>, lastLat) : y \in Int /\ Joins(y, p.lat, i)
    BY <1>1, <1>2, <1>7, <1>8, <1>10, <1>11, SampleJoins
<1>14. PICK x \in Samples(<<west, east>>, lastLng) : x \in Int /\ Joins(x, p.lng, j)
    BY <1>1, <1>2, <1>7, <1>8, <1>10, <1>11, SampleJoins
<1> DEFINE q == [lat |-> y, lng |-> x]
<1>15. q \in Place /\ q.lat = y /\ q.lng = x
    BY <1>13, <1>14 DEF Place
<1> HIDE DEF q
<1>16. Encode(q, n) = hash
    BY <1>1, <1>13, <1>14, <1>15, SameHash DEF hash, i, j
<1>17. Encode(q, n) \in CoverBoundingBox(box, n, lastLat, lastLng)
    <2>1. y \in Samples(box.lat, lastLat) /\ x \in Samples(box.lng, lastLng)
        BY <1>7, <1>13, <1>14, Zenon
    <2> QED BY <2>1, SampledIsCover DEF q
<1>18. covers[n] = CoverBoundingBox(box, n, lastLat, lastLng)
    BY <1>12, Zenon
<1> QED BY <1>16, <1>17, <1>18 DEF hash

(* A driver has a geohash that decodes to bounds he is in and back, and,   *)
(* in the area, one of those that cover it: where the samples are no       *)
(* farther apart than the cell is wide, up to the last sample.  For any    *)
(* area with four corners, any precision, and however the rounding of the  *)
(* last sample goes.                                                       *)
THEOREM CoversHold == GeoSpec => []AreaIsCovered
<1>1. GeoInit => AreaInv /\ CoverInv /\ IndexInv
    BY AreaBegins, IndexBegins DEF GeoInit, CoverInv
<1>2. AreaInv /\ CoverInv /\ IndexInv /\ [GeoNext]_geoVars
         => AreaInv' /\ CoverInv' /\ IndexInv'
    BY IndexStep DEF GeoNext, geoVars, AreaInv, CoverInv, AreaBox
<1>3. AreaInv /\ CoverInv /\ IndexInv => AreaIsCovered
    <2> SUFFICES ASSUME AreaInv, CoverInv, IndexInv, NEW p \in Positions, NEW n \in Precisions
                 PROVE  LET hash == Encode(p, n)
                            cell == DecodeBounds(hash)
                        IN  /\ Within(cell.lat, p.lat) /\ Within(cell.lng, p.lng)
                            /\ Encode(Decode(hash), n) = hash
                            /\ /\ Contains(fences.area.polygon, p)
                               /\ FineEnough(AreaBox, hash)
                               /\ p.lat <= AreaBox.lat[1] + 9 * Tenth(AreaBox.lat)
                               /\ p.lng <= AreaBox.lng[1] + 9 * Tenth(AreaBox.lng)
                               => hash \in covers[n]
        BY Zenon DEF AreaIsCovered
    <2>1. p \in WorldPoint
        <3>1. p \in Points
            BY DEF IndexInv, Positions
        <3> QED BY <3>1, GeoAssumption DEF GeoAssumption, WorldPoint
    <2>2. n \in Int
        BY GeoAssumption DEF GeoAssumption
    <2> QED BY <2>1, <2>2, GeohashRoundTrip, PointsCovered, Zenon
<1> QED BY <1>1, <1>2, <1>3, PTL DEF GeoSpec

===============================================================================
