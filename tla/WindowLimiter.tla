----------------------------- MODULE WindowLimiter -----------------------------
(***************************************************************************)
(* The sliding-window limiter of maps/redis_cache.go: processes that share *)
(* one sorted set in Redis, for one key.                                   *)
(*                                                                         *)
(* A call reads its own clock, and the script it sends runs later with     *)
(* that reading, as the score and as the member of the entry it adds.      *)
(* Time is kept as ages in ticks: 0 is now, and a tick makes everything    *)
(* one older.  Clocks agree.                                               *)
(***************************************************************************)
EXTENDS Integers, FiniteSets, FiniteSetsExt

CONSTANTS
    Clients,
    Limit,
    Window,         \* in ticks
    MaxDelay        \* ticks between reading the clock and the script

ASSUME WindowAssumption ==
    /\ Limit \in Nat \ {0}
    /\ Window \in Nat \ {0}
    /\ MaxDelay \in Nat

Horizon == Window + MaxDelay

VARIABLES
    entries,    \* ages of the members of the sorted set
    ttl,        \* ticks until the key expires
    step,       \* of each client's Wait or Allow
    stamp,      \* age of the clock reading of its script
    sleep,      \* ticks until it tries again
    passed,     \* history: for each call admitted within the last window, how
                \* long ago its clock was read and its script ran, until two
                \* calls read the same microsecond
    taken,      \* the clock has been read in this tick, while that matters
    collapsed   \* history: two calls have read the same microsecond, in this
                \* behaviour or before

windowVars == <<entries, ttl, step, stamp, sleep, passed, taken, collapsed>>

WindowInit ==
    /\ entries = {}
    /\ ttl = 0
    /\ step = [c \in Clients |-> "idle"]
    /\ stamp = [c \in Clients |-> 0]
    /\ sleep = [c \in Clients |-> 0]
    /\ passed = {}
    /\ taken = FALSE
    /\ collapsed \in BOOLEAN

(* Wait or Allow is called, or Wait tries again. *)
ReadClock(c) ==
    /\ collapsed' = (collapsed \/ taken)
    /\ taken' = ~collapsed'
    /\ passed' = IF collapsed' THEN {} ELSE passed
    /\ stamp' = [stamp EXCEPT ![c] = 0]
    /\ \/ step[c] = "idle" /\ step' \in {[step EXCEPT ![c] = call] : call \in {"waiting", "asking"}}
       \/ step[c] = "sleeping" /\ sleep[c] = 0 /\ step' = [step EXCEPT ![c] = "waiting"]
    /\ UNCHANGED <<entries, ttl, sleep>>

(* Fault of a mutant run: the whole set is dropped with its first entry. *)
CountedAll(c) ==
    IF \E a \in entries : a >= stamp[c] + Window THEN {} ELSE entries

(* ZREMRANGEBYSCORE takes out what is not newer than the window's start. *)
Counted(c) == {a \in entries : a < stamp[c] + Window}

Admit(c) ==
    /\ entries' = Counted(c) \cup {stamp[c]}
    /\ ttl' = Window
    /\ passed' = IF collapsed THEN {} ELSE passed \cup {[read |-> stamp[c], ran |-> 0]}
    /\ step' = [step EXCEPT ![c] = "idle"]
    /\ UNCHANGED sleep

(* Fault of a mutant run: a call enters the set before it is counted, so   *)
(* one that is put off competes with its own next attempt.                 *)
PutOffEntered(c) ==
    /\ entries' = Counted(c) \cup {stamp[c]}
    /\ ttl' = Window
    /\ step' = [step EXCEPT ![c] = "sleeping"]
    /\ LET left == Window - Max(Counted(c))
       IN  sleep' = [sleep EXCEPT ![c] = IF left > 0 THEN left ELSE 0]
    /\ UNCHANGED passed

(* Wait sleeps until the oldest entry has left the window. *)
PutOff(c) ==
    /\ entries' = Counted(c)
    /\ step' = [step EXCEPT ![c] = "sleeping"]
    /\ LET left == Window - Max(Counted(c))
       IN  sleep' = [sleep EXCEPT ![c] = IF left > 0 THEN left ELSE 0]
    /\ UNCHANGED <<ttl, passed>>

HasRoom(c) == Cardinality(Counted(c)) < Limit

(* The script of Wait runs in Redis. *)
Script(c) ==
    /\ step[c] = "waiting"
    /\ \/ HasRoom(c) /\ Admit(c)
       \/ ~HasRoom(c) /\ PutOff(c)
    /\ stamp' = [stamp EXCEPT ![c] = 0]
    /\ UNCHANGED <<taken, collapsed>>

(* The pipeline of Allow: it counts, but enters nothing. *)
Allow(c) ==
    /\ step[c] = "asking"
    /\ entries' = Counted(c)
    /\ step' = [step EXCEPT ![c] = "idle"]
    /\ stamp' = [stamp EXCEPT ![c] = 0]
    /\ UNCHANGED <<ttl, sleep, passed, taken, collapsed>>

(* The context is done, or the script's error or reply is lost: the entry  *)
(* may have been made.                                                     *)
GiveUp(c) ==
    /\ \/ step[c] \in {"waiting", "sleeping"} /\ UNCHANGED <<entries, ttl>>
       \/ /\ step[c] = "waiting"
          /\ HasRoom(c)
          /\ entries' = Counted(c) \cup {stamp[c]}
          /\ ttl' = Window
    /\ step' = [step EXCEPT ![c] = "idle"]
    /\ stamp' = [stamp EXCEPT ![c] = 0]
    /\ sleep' = [sleep EXCEPT ![c] = 0]
    /\ UNCHANGED <<passed, taken, collapsed>>

Calling(c) == step[c] \in {"waiting", "asking"}

(* PEXPIRE deletes the key a window after the last entry was made. *)
Age == entries' = IF ttl <= 1 THEN {} ELSE {a + 1 : a \in entries \ {Horizon}}

WindowTick ==
    /\ \A c \in Clients : Calling(c) => stamp[c] < MaxDelay
    /\ Age
    /\ ttl' = IF ttl = 0 THEN 0 ELSE ttl - 1
    /\ stamp' = [c \in Clients |-> IF Calling(c) THEN stamp[c] + 1 ELSE 0]
    /\ sleep' = [c \in Clients |-> IF sleep[c] = 0 THEN 0 ELSE sleep[c] - 1]
    /\ passed' = {[read |-> p.read + 1, ran |-> p.ran + 1] : p \in {q \in passed : q.ran + 1 < Window}}
    /\ taken' = FALSE
    /\ UNCHANGED <<step, collapsed>>

WindowNext ==
    \/ WindowTick
    \/ \E c \in Clients : ReadClock(c) \/ Script(c) \/ Allow(c) \/ GiveUp(c)

WindowSpec == WindowInit /\ [][WindowNext]_windowVars

(* Time passes, sleeps end and Redis answers. *)
WindowFairness ==
    /\ WF_windowVars(WindowTick)
    /\ \A c \in Clients :
          /\ SF_windowVars(step[c] = "sleeping" /\ ReadClock(c))
          /\ WF_windowVars(Script(c))
          /\ WF_windowVars(Allow(c))

WindowFairSpec == WindowSpec /\ WindowFairness

------------------------------------------------------------------------------
(* "Limit int // requests per window" (line 62), for all processes         *)
(* together: when scripts arrive late, a newer one has purged what an      *)
(* older one should have counted, and a window is exceeded by the calls    *)
(* that can be late at once, and by no more.  Calls that read the same     *)
(* microsecond are one member of the set, and nothing bounds them.         *)
LateBound == Cardinality(passed) <= Limit + MaxDelay

(* A call of Wait that nobody competes with for ever gets through, or is   *)
(* given up: sleeping until the oldest entry leaves the window is enough.  *)
WaitEnds ==
    \A c \in Clients :
        (\A d \in Clients \ {c} : <>[](step[d] = "idle"))
            => step[c] = "sleeping" ~> step[c] = "idle"

===============================================================================
