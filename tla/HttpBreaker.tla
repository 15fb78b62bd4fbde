----------------------------- MODULE HttpBreaker -----------------------------
(***************************************************************************)
(* The circuit breaker of http/circuit_breaker.go and the goroutines that  *)
(* call Execute on it.                                                     *)
(*                                                                         *)
(* Unlike the breaker of the resilience package, Execute takes cb.mu anew  *)
(* for each of its parts: canExecute, then getState, then the increment of *)
(* halfOpenInProgress, then (after fn) recordResult, then the deferred     *)
(* decrement.  Each part is a step, and other callers run between them.    *)
(*                                                                         *)
(* Time is the number of ticks since lastFailure, counted up to one more   *)
(* than Timeout: the code asks only whether it is greater than Timeout.    *)
(***************************************************************************)
EXTENDS Integers, Sequences, FiniteSets

CONSTANTS
    Callers,                  \* goroutines that share the breaker
    Panicky,                  \* those whose fn may panic
    FailureThreshold,         \* config.FailureThreshold
    SuccessThreshold,         \* config.SuccessThreshold
    Timeout,                  \* config.Timeout, in ticks
    MaxConcurrentInHalfOpen,  \* config.MaxConcurrentInHalfOpen
    SuccessCap                \* successes is counted no further than this

(* NewCircuitBreaker takes the configuration as it is, zeroes included. *)
ASSUME HttpBreakerAssumption ==
    /\ IsFiniteSet(Callers)
    /\ Panicky \subseteq Callers
    /\ FailureThreshold \in Nat
    /\ SuccessThreshold \in Nat
    /\ Timeout \in Nat
    /\ MaxConcurrentInHalfOpen \in Nat
    /\ SuccessCap \in Nat
    /\ SuccessCap >= SuccessThreshold

VARIABLES
    state,                \* cb.state
    failures,             \* cb.failures
    successes,            \* cb.successes
    halfOpenInProgress,   \* cb.halfOpenInProgress
    elapsed,              \* time.Since(cb.lastFailure), at most Timeout + 1
    pc,                   \* where each caller is in Execute
    (* history, read by the properties only *)
    fresh,                \* calls without a result that were let through
                          \* since the last change of state
    recent,               \* the latest results recorded, oldest first
    openFor               \* time since the breaker opened, as elapsed

cbVars == <<state, failures, successes, halfOpenInProgress>>
vars == <<state, failures, successes, halfOpenInProgress, elapsed, pc,
          fresh, recent, openFor>>

States == {"closed", "open", "halfOpen"}

(* "checked": canExecute returned nil.  "tracking": getState returned      *)
(* half-open.  "probing": in fn, counted.  "running": in fn, not counted.  *)
(* "leaving": fn is over and the deferred decrement has not run.           *)
Stages == {"idle", "checked", "tracking", "probing", "running", "leaving"}

(* More results than either threshold needs are remembered. *)
Window == 1 + IF FailureThreshold > SuccessThreshold
              THEN FailureThreshold ELSE SuccessThreshold

Slide(results, r) ==
    IF Len(results) < Window THEN Append(results, r)
                             ELSE Append(Tail(results), r)

(* The last n results recorded were all r. *)
AllLast(results, n, r) ==
    /\ Len(results) >= n
    /\ \A i \in (Len(results) - n + 1)..Len(results) : results[i] = r

------------------------------------------------------------------------------
Expired == Timeout + 1

Init ==
    /\ state = "closed"
    /\ failures = 0
    /\ successes = 0
    /\ halfOpenInProgress = 0
    /\ elapsed = Expired
    /\ pc = [c \in Callers |-> "idle"]
    /\ fresh = {}
    /\ recent = <<>>
    /\ openFor = Expired

Move(c, from, to) ==
    /\ pc[c] = from
    /\ pc' = [pc EXCEPT ![c] = to]

(* transitionTo: halfOpenInProgress is left to the calls that hold it. *)
TransitionTo(new) ==
    /\ state' = new
    /\ failures' = 0
    /\ successes' = 0
    /\ openFor' = IF new = "open" THEN 0 ELSE openFor

TimeoutOver == elapsed > Timeout
RoomForProbe == halfOpenInProgress < MaxConcurrentInHalfOpen

(* Fault of a mutant run: only a half-open breaker limits its callers. *)
PassUnlessHalfOpen(c) ==
    /\ state # "halfOpen"
    /\ fresh' = fresh \cup {c}
    /\ UNCHANGED <<state, failures, successes, openFor>>

PassClosed(c) ==
    /\ state = "closed"
    /\ fresh' = fresh \cup {c}
    /\ UNCHANGED <<state, failures, successes, openFor>>

PassOpen(c) ==
    /\ state = "open"
    /\ TimeoutOver
    /\ TransitionTo("halfOpen")
    /\ fresh' = {c}

PassHalfOpen(c) ==
    /\ state = "halfOpen"
    /\ RoomForProbe
    /\ fresh' = fresh \cup {c}
    /\ UNCHANGED <<state, failures, successes, openFor>>

(* canExecute returns nil. *)
CanExecute(c) ==
    /\ Move(c, "idle", "checked")
    /\ \/ PassClosed(c)
       \/ PassOpen(c)
       \/ PassHalfOpen(c)
    /\ UNCHANGED <<halfOpenInProgress, elapsed, recent>>

(* canExecute returns ErrCircuitOpen or ErrTooManyRequests; under          *)
(* ExecuteWithFallback the caller then runs its fallback, off the breaker. *)
Refused ==
    \/ state = "open" /\ ~TimeoutOver
    \/ state = "halfOpen" /\ ~RoomForProbe

Refuse(c) ==
    /\ pc[c] = "idle"
    /\ Refused
    /\ UNCHANGED vars

(* The second look at the state (line 97) decides whether the call counts. *)
GetState(c) ==
    /\ \/ state = "halfOpen" /\ Move(c, "checked", "tracking")
       \/ state # "halfOpen" /\ Move(c, "checked", "running")
    /\ UNCHANGED <<cbVars, elapsed, fresh, recent, openFor>>

Track(c) ==
    /\ Move(c, "tracking", "probing")
    /\ halfOpenInProgress' = halfOpenInProgress + 1
    /\ UNCHANGED <<state, failures, successes, elapsed, fresh, recent, openFor>>

(* Leaving fn: a counted call still has its deferred decrement to run. *)
LeaveFn(c) ==
    /\ \/ Move(c, "probing", "leaving")
       \/ Move(c, "running", "idle")
    /\ UNCHANGED halfOpenInProgress

Untrack(c) ==
    /\ Move(c, "leaving", "idle")
    /\ halfOpenInProgress' = halfOpenInProgress - 1
    /\ UNCHANGED <<state, failures, successes, elapsed, fresh, recent, openFor>>

(* Fault of a mutant run: a panic skips the decrement too. *)
PanicWithoutDefer(c) ==
    /\ c \in Panicky
    /\ \/ Move(c, "probing", "idle")
       \/ Move(c, "running", "idle")
    /\ fresh' = fresh \ {c}
    /\ UNCHANGED <<cbVars, elapsed, recent, openFor>>

(* A panic out of fn, recovered by the Recovery middleware                 *)
(* (http/middleware.go:97): deferred calls run, recordResult does not.     *)
Panic(c) ==
    /\ c \in Panicky
    /\ LeaveFn(c)
    /\ fresh' = fresh \ {c}
    /\ UNCHANGED <<state, failures, successes, elapsed, recent, openFor>>

(* A result that changes no state but these counters. *)
Count(c) ==
    /\ fresh' = fresh \ {c}
    /\ UNCHANGED <<state, openFor>>

OneMoreSuccess == IF successes < SuccessCap THEN successes + 1 ELSE successes

ClosesOnSuccess == state = "halfOpen" /\ successes + 1 >= SuccessThreshold

OpensOnFailure ==
    \/ state = "closed" /\ failures + 1 >= FailureThreshold
    \/ state = "halfOpen"

(* Only a closed breaker forgets its failures on a success (line 190). *)
FailuresAfterSuccess == IF state = "closed" THEN 0 ELSE failures

(* onSuccess, in every state: the successes of a closed or open breaker    *)
(* are counted too, and thrown away by the next transition.                *)
OnSuccess(c) ==
    /\ \/ /\ ClosesOnSuccess
          /\ TransitionTo("closed")
          /\ fresh' = {}
       \/ /\ ~ClosesOnSuccess
          /\ successes' = OneMoreSuccess
          /\ failures' = FailuresAfterSuccess
          /\ Count(c)
    /\ UNCHANGED elapsed

(* lastFailure = time.Now() (line 169), whatever the state. *)
ElapsedAfterFailure == 0

(* onFailure: a failure recorded late, by a call let through before the    *)
(* breaker opened, restarts the clock of the open breaker as well.         *)
OnFailure(c) ==
    /\ elapsed' = ElapsedAfterFailure
    /\ \/ /\ OpensOnFailure
          /\ TransitionTo("open")
          /\ fresh' = {}
       \/ /\ ~OpensOnFailure
          /\ failures' = failures + 1
          /\ successes' = 0
          /\ Count(c)

(* fn returns and recordResult runs. *)
Succeed(c) ==
    /\ LeaveFn(c)
    /\ OnSuccess(c)
    /\ recent' = Slide(recent, TRUE)

Fail(c) ==
    /\ LeaveFn(c)
    /\ OnFailure(c)
    /\ recent' = Slide(recent, FALSE)

(* Time passes. *)
Later(t) == IF t < Expired THEN t + 1 ELSE t

Tick ==
    /\ elapsed' = Later(elapsed)
    /\ openFor' = Later(openFor)
    /\ UNCHANGED <<cbVars, pc, fresh, recent>>

Next ==
    \/ Tick
    \/ \E c \in Callers :
          \/ CanExecute(c) \/ Refuse(c) \/ GetState(c) \/ Track(c)
          \/ Succeed(c) \/ Fail(c) \/ Panic(c) \/ Untrack(c)

Spec == Init /\ [][Next]_vars

(* Time passes, callers keep calling, and a call that was let through runs *)
(* to its end: the goroutine is scheduled and fn, the whole retry loop of  *)
(* http/resilient_client.go, is bounded by its retries and timeouts.       *)
Fairness ==
    /\ WF_vars(Tick)
    /\ \A c \in Callers :
          /\ WF_vars(CanExecute(c))
          /\ WF_vars(GetState(c))
          /\ WF_vars(Track(c))
          /\ WF_vars(Succeed(c) \/ Fail(c))
          /\ WF_vars(Untrack(c))

FairSpec == Spec /\ Fairness

------------------------------------------------------------------------------
Holders == {c \in Callers : pc[c] \in {"probing", "leaving"}}

(* Types; that halfOpenInProgress is never negative is a claim about every *)
(* path out of Execute.                                                    *)
TypeOK ==
    /\ state \in States
    /\ failures \in Nat
    /\ successes \in 0..SuccessCap
    /\ halfOpenInProgress \in Nat
    /\ elapsed \in 0..Expired
    /\ pc \in [Callers -> Stages]
    /\ fresh \in SUBSET Callers
    /\ recent \in Seq(BOOLEAN)
    /\ openFor \in 0..Expired

(* halfOpenInProgress is the number of calls between their increment and   *)
(* their decrement, whatever became of the state in between: a panic, a    *)
(* trip or a close leaks no slot, so the count is zero when all is quiet.  *)
InProgressMatches == halfOpenInProgress = Cardinality(Holders)

(* A call let through by the current half-open period and now inside fn is *)
(* counted: between canExecute and getState no other caller can have made  *)
(* the state look closed without ending the period.                        *)
ProbesAreTracked ==
    state = "halfOpen" => \A c \in fresh : pc[c] \in {"checked", "tracking", "probing"}

(* A breaker found open lets nothing through: what is under way was let    *)
(* through before it opened, and the clock it consults is no older than    *)
(* the time it has been open.                                              *)
OpenInv ==
    state = "open" => fresh = {} /\ elapsed <= openFor

(* The breaker opens out of the closed state after FailureThreshold        *)
(* failures in a row, out of half-open after any failure, and closes after *)
(* SuccessThreshold successes in a row, late results included.             *)
TransitionsAreEarned ==
    [][ /\ state = "closed" /\ state' = "open"
            => AllLast(recent', FailureThreshold, FALSE)
        /\ state = "halfOpen" /\ state' = "closed"
            => AllLast(recent', SuccessThreshold, TRUE)
        /\ state = "halfOpen" /\ state' = "open"
            => AllLast(recent', 1, FALSE)
      ]_vars

(* "Timeout is how long to wait before transitioning from open to          *)
(* half-open" (line 45): the wait, measured from the moment the breaker    *)
(* opened, is never cut short.                                             *)
OpenLastsTimeout ==
    [][state = "open" /\ state' = "halfOpen" => openFor > Timeout]_vars

(* The breaker implements the contract its callers rely on. *)
Contract ==
    INSTANCE BreakerContract WITH
        phase <- state,
        rested <- (state = "open" /\ openFor > Timeout),
        live <- {c \in Callers : pc[c] \notin {"idle", "leaving"}}

ImplementsContract == Contract!ContractSpec

(* Once the protected service answers, the breaker closes, however many    *)
(* probes panicked before: their slots were given back.                    *)
ClosesOnceHealthy ==
    <>[][\A c \in Callers : ~Fail(c) /\ ~Panic(c)]_vars => []<>(state = "closed")

(* "MaxConcurrentInHalfOpen limits concurrent requests in half-open state" *)
(* (line 47).                                                              *)
HalfOpenConcurrencyLimited ==
    state = "halfOpen" =>
        Cardinality({c \in fresh : pc[c] = "probing"}) <= MaxConcurrentInHalfOpen

==============================================================================
