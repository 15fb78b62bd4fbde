------------------------------- MODULE MapsClient -------------------------------
(***************************************************************************)
(* The client of maps/googlemaps.go on top of its limiter and its cache:   *)
(* what a call does from the look into the cache to its answer.            *)
(*                                                                         *)
(* Each operation has a limiter key of its own, so a behaviour is about    *)
(* calls of one operation and, where there is a cache, of one place.  Or   *)
(* there is no maps client, and the limiter has other users ("none").      *)
(***************************************************************************)
EXTENDS WindowLimiter

CONSTANTS
    Users,          \* the clients that make these calls
    Ops,            \* the operations they call, and "none"
    MaxRetries,     \* config.MaxRetries
    CacheTTL        \* config.CacheTTL, in ticks

ASSUME MapsAssumption ==
    /\ Users \subseteq Clients
    /\ Ops \subseteq STRING
    /\ MaxRetries \in Nat
    /\ CacheTTL \in Nat \ {0}

VARIABLES
    op,     \* the operation
    cache,  \* the entry of the place: what the service said that long ago,
            \* and how long ago it was stored
    call    \* the call of each user

(* The operations differ in how they build a request and take its answer   *)
(* apart, and in whether they keep what they answer.                       *)
Kept == op \in {"GetPlaceDetails", "ReverseGeocode"}

mapsVars == <<windowVars, op, cache, call>>

NoEntry == [said |-> 0, put |-> CacheTTL]
Cached == cache.put < CacheTTL

(* said: how old the answer is. *)
NoCall == [stage |-> "idle", tries |-> 0, said |-> 0]

MapsInit ==
    /\ WindowInit
    /\ op \in Ops
    /\ cache = NoEntry
    /\ call = [c \in Users |-> NoCall]

At(c, stage) == c \in Users /\ call[c].stage = stage
Go(c, stage) == call' = [call EXCEPT ![c].stage = stage]
Fails(c) == call' = [call EXCEPT ![c] = NoCall]
Over(c) == call[c].stage \in {"idle", "answered"}

Begin(c) ==
    /\ c \in Users
    /\ Over(c)
    /\ op # "none"
    /\ call' = [call EXCEPT ![c] = [NoCall EXCEPT
                    !.stage = IF Kept THEN "looking" ELSE "limited"]]
    /\ UNCHANGED <<windowVars, op, cache>>

(* Fault of a mutant run: a hit starts the time of the entry anew. *)
Sliding == [cache EXCEPT !.put = 0]

AfterHit == cache

(* The key is made of the place and not of the fields, so the entry may    *)
(* have fewer than are asked for.  An error of the cache is a miss.        *)
LookUp(c) ==
    /\ At(c, "looking")
    /\ \/ /\ Cached
          /\ call' = [call EXCEPT ![c].stage = "answered", ![c].said = cache.said]
          /\ cache' = AfterHit
       \/ /\ Go(c, "limited")
          /\ UNCHANGED cache
    /\ UNCHANGED <<windowVars, op>>

(* limiter.Wait, once for all the attempts; its error ends the call. *)
AskLimiter(c) ==
    /\ ReadClock(c)
    /\ IF op = "none" THEN TRUE ELSE At(c, "limited") /\ step'[c] = "waiting"
    /\ UNCHANGED <<op, cache, call>>

Through(c) ==
    call' = IF op # "none" /\ step'[c] = "idle"
            THEN [call EXCEPT ![c].stage = "sending"] ELSE call

Limited(c) ==
    /\ Script(c) /\ Through(c)
    /\ UNCHANGED <<op, cache>>

LimiterFails(c) ==
    /\ GiveUp(c)
    /\ IF op = "none" THEN UNCHANGED call ELSE Fails(c)
    /\ UNCHANGED <<op, cache>>

(* An attempt that ends with an error, 429 or 5xx is made again after a    *)
(* sleep that no context ends, as long as there are any left.              *)
AttemptFails(c) ==
    /\ At(c, "sending")
    /\ IF call[c].tries < MaxRetries
       THEN call' = [call EXCEPT ![c].tries = @ + 1]
       ELSE Fails(c)
    /\ UNCHANGED <<windowVars, op, cache>>

(* Any other status ends the call. *)
Rejected(c) ==
    /\ At(c, "sending")
    /\ Fails(c)
    /\ UNCHANGED <<windowVars, op, cache>>

Answers(c) ==
    /\ At(c, "sending")
    /\ call' = [call EXCEPT ![c] = [NoCall EXCEPT !.stage = "decoding"]]
    /\ UNCHANGED <<windowVars, op, cache>>

(* Not what was expected, or without a result: nothing is stored. *)
DecodeReply(c) ==
    /\ At(c, "decoding")
    /\ Fails(c) \/ Go(c, IF Kept THEN "storing" ELSE "answered")
    /\ UNCHANGED <<windowVars, op, cache>>

(* Whether the cache takes the answer is not looked at. *)
Store(c) ==
    /\ At(c, "storing")
    /\ Go(c, "answered")
    /\ cache' \in {cache, [said |-> call[c].said, put |-> 0]}
    /\ UNCHANGED <<windowVars, op>>

(* Time passes, but not so much between a reply and its way into the       *)
(* cache that it is late by more than MaxDelay.                            *)
Older(c) ==
    IF Over(c) THEN NoCall
    ELSE IF call[c].stage \in {"decoding", "storing"} THEN [call[c] EXCEPT !.said = @ + 1]
    ELSE call[c]

MapsTick ==
    /\ WindowTick
    /\ \A c \in Users : call[c].said < MaxDelay \/ Over(c)
    /\ cache' = IF cache.put + 1 < CacheTTL
                THEN [cache EXCEPT !.said = @ + 1, !.put = @ + 1] ELSE NoEntry
    /\ call' = [c \in Users |-> Older(c)]
    /\ UNCHANGED op

MapsNext ==
    \/ MapsTick
    \/ \E c \in Clients :
          \/ AskLimiter(c) \/ Limited(c) \/ LimiterFails(c)
          \/ Allow(c) /\ UNCHANGED <<op, cache, call>>
          \/ Begin(c)
          \/ LookUp(c) \/ AttemptFails(c) \/ Rejected(c) \/ Answers(c) \/ DecodeReply(c) \/ Store(c)

MapsSpec == MapsInit /\ [][MapsNext]_mapsVars

(* As for the limiter alone. *)
MapsFairness ==
    /\ WF_mapsVars(MapsTick)
    /\ \A c \in Clients :
          /\ SF_mapsVars(step[c] = "sleeping" /\ AskLimiter(c))
          /\ WF_mapsVars(Limited(c))
          /\ WF_mapsVars(Allow(c) /\ UNCHANGED <<op, cache, call>>)
          /\ WF_mapsVars(DecodeReply(c) \/ Store(c))

MapsFairSpec == MapsSpec /\ MapsFairness

--------------------------------------------------------------------------------
(* "CacheTTL for caching results (max 30 days per Google ToS)" (line 72):  *)
(* no answer is older than CacheTTL and the time it took to store it,      *)
(* however often it was read, and by whomever it was asked for.            *)
AnswersAreFresh ==
    \A c \in Users :
        call[c].stage = "answered" => call[c].said < CacheTTL + MaxDelay

================================================================================
