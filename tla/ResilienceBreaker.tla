-------------------------- MODULE ResilienceBreaker --------------------------
(***************************************************************************)
(* The circuit breaker of resilience/circuit_breaker.go and the goroutines *)
(* that call Execute or ExecuteWithContext on it.                          *)
(*                                                                         *)
(* allowRequest, recordResult and Reset each hold cb.mu for their whole    *)
(* body, so each is one step.  Between the two halves of a call the caller *)
(* runs unlocked, so any number of steps of other callers fall between.    *)
(*                                                                         *)
(* Time is the number of ticks since lastFailure, counted up to Timeout:   *)
(* the code only ever compares time.Since(lastFailure) with Timeout.       *)
(***************************************************************************)
EXTENDS Integers, Sequences, FiniteSets

CONSTANTS
    Callers,            \* goroutines that share the breaker
    Lossy,              \* those whose call may end without a result: the
                        \* context is done before fn runs, or fn panics
    FailureThreshold,   \* config.FailureThreshold
    SuccessThreshold,   \* config.SuccessThreshold
    Timeout,            \* config.Timeout, in ticks
    MaxRequests         \* config.MaxRequests

(* NewCircuitBreaker replaces every value that is not positive. *)
ASSUME BreakerAssumption ==
    /\ IsFiniteSet(Callers)
    /\ Lossy \subseteq Callers
    /\ FailureThreshold \in Nat \ {0}
    /\ SuccessThreshold \in Nat \ {0}
    /\ Timeout \in Nat \ {0}
    /\ MaxRequests \in Nat \ {0}

VARIABLES
    state,              \* cb.state
    failures,           \* cb.failures
    successes,          \* cb.successes
    halfOpenRequests,   \* cb.halfOpenRequests
    elapsed,            \* time.Since(cb.lastFailure), at most Timeout
    pc,                 \* where each caller is in Execute[WithContext]
    (* history, read by the properties only *)
    fresh,              \* calls under way that were let through since the
                        \* last change of state
    lost,               \* calls of this half-open period that left no result
    recent,             \* the latest results recorded, oldest first
    openFor             \* time since the breaker opened, at most Timeout

cbVars == <<state, failures, successes, halfOpenRequests>>
vars == <<state, failures, successes, halfOpenRequests, elapsed, pc,
          fresh, lost, recent, openFor>>

States == {"closed", "open", "halfOpen"}

(* "admitted": allowRequest returned true and fn has not started. *)
Stages == {"idle", "admitted", "running"}

(* As many results as the larger threshold are remembered. *)
Window == IF FailureThreshold > SuccessThreshold
          THEN FailureThreshold ELSE SuccessThreshold

Slide(results, r) ==
    IF Len(results) < Window THEN Append(results, r)
                             ELSE Append(Tail(results), r)

(* The last n results recorded were all r. *)
AllLast(results, n, r) ==
    /\ Len(results) >= n
    /\ \A i \in (Len(results) - n + 1)..Len(results) : results[i] = r

------------------------------------------------------------------------------
(* The zero lastFailure of a new breaker is longer ago than any Timeout. *)
Init ==
    /\ state = "closed"
    /\ failures = 0
    /\ successes = 0
    /\ halfOpenRequests = 0
    /\ elapsed = Timeout
    /\ pc = [c \in Callers |-> "idle"]
    /\ fresh = {}
    /\ lost = 0
    /\ recent = <<>>
    /\ openFor = Timeout

Move(c, from, to) ==
    /\ pc[c] = from
    /\ pc' = [pc EXCEPT ![c] = to]

(* Fault of a mutant run: a state inherits the slots of the one before. *)
TransitionKeepingSlots(new, slots) ==
    /\ state' = new
    /\ failures' = 0
    /\ successes' = 0
    /\ halfOpenRequests' = halfOpenRequests + slots
    /\ lost' = 0
    /\ openFor' = IF new = "open" THEN 0 ELSE openFor

(* transitionTo: every counter restarts, whatever the new state.  The call *)
(* that half-opens the breaker takes the first slot in the same critical   *)
(* section (line 153), hence the parameter.                                *)
TransitionTo(new, slots) ==
    /\ state' = new
    /\ failures' = 0
    /\ successes' = 0
    /\ halfOpenRequests' = slots
    /\ lost' = 0
    /\ openFor' = IF new = "open" THEN 0 ELSE openFor

TimeoutOver == elapsed >= Timeout

SlotFree == halfOpenRequests < MaxRequests

AdmitClosed(c) ==
    /\ state = "closed"
    /\ fresh' = fresh \cup {c}
    /\ UNCHANGED <<cbVars, lost, openFor>>

AdmitProbe(c) ==
    /\ state = "open"
    /\ TimeoutOver
    /\ TransitionTo("halfOpen", 1)
    /\ fresh' = {c}

(* Fault of a mutant run: a probe takes no slot. *)
AdmitUncounted(c) ==
    /\ state = "halfOpen"
    /\ SlotFree
    /\ fresh' = fresh \cup {c}
    /\ UNCHANGED <<cbVars, lost, openFor>>

AdmitHalfOpen(c) ==
    /\ state = "halfOpen"
    /\ SlotFree
    /\ halfOpenRequests' = halfOpenRequests + 1
    /\ fresh' = fresh \cup {c}
    /\ UNCHANGED <<state, failures, successes, lost, openFor>>

(* allowRequest returns true. *)
Allow(c) ==
    /\ Move(c, "idle", "admitted")
    /\ \/ AdmitClosed(c)
       \/ AdmitProbe(c)
       \/ AdmitHalfOpen(c)
    /\ UNCHANGED <<elapsed, recent>>

(* allowRequest returns false; the call fails with ErrCircuitOpen. *)
Refused ==
    \/ state = "open" /\ ~TimeoutOver
    \/ state = "halfOpen" /\ ~SlotFree

Refuse(c) ==
    /\ pc[c] = "idle"
    /\ Refused
    /\ UNCHANGED vars

(* fn is called, by Execute at once, by ExecuteWithContext when the        *)
(* context is still live.                                                  *)
Start(c) ==
    /\ Move(c, "admitted", "running")
    /\ UNCHANGED <<cbVars, elapsed, fresh, lost, recent, openFor>>

(* ctx.Done before fn (lines 127-131), or a panic out of fn that a caller  *)
(* up the stack recovers: the call ends and recordResult is never reached. *)
Abandon(c) ==
    /\ c \in Lossy
    /\ \/ Move(c, "admitted", "idle")
       \/ Move(c, "running", "idle")
    /\ fresh' = fresh \ {c}
    /\ lost' = IF state = "halfOpen" /\ c \in fresh THEN lost + 1 ELSE lost
    /\ UNCHANGED <<cbVars, elapsed, recent, openFor>>

(* A result that changes no state but this counter. *)
Count(c) ==
    /\ fresh' = fresh \ {c}
    /\ UNCHANGED <<state, halfOpenRequests, lost, openFor>>

(* Fault of a mutant run: the threshold is compared before the count. *)
LastSuccessOffByOne == successes >= SuccessThreshold

LastSuccessNeeded == successes + 1 >= SuccessThreshold
LastFailureAllowed == failures + 1 >= FailureThreshold

(* Fault of a mutant run: successes do not break a run of failures. *)
SucceedRemembering(c) ==
    /\ state = "closed"
    /\ Count(c)
    /\ UNCHANGED <<failures, successes>>

SucceedClosed(c) ==
    /\ state = "closed"
    /\ Count(c)
    /\ failures' = 0
    /\ UNCHANGED successes

SucceedHalfOpen(c) ==
    /\ state = "halfOpen"
    /\ ~LastSuccessNeeded
    /\ Count(c)
    /\ successes' = successes + 1
    /\ UNCHANGED failures

CloseCircuit ==
    /\ state = "halfOpen"
    /\ LastSuccessNeeded
    /\ TransitionTo("closed", 0)
    /\ fresh' = {}

(* A late result, recorded after the breaker opened, has no effect. *)
LateResult(c) ==
    /\ state = "open"
    /\ Count(c)
    /\ UNCHANGED <<failures, successes>>

OnSuccess(c) ==
    /\ \/ SucceedClosed(c)
       \/ SucceedHalfOpen(c)
       \/ CloseCircuit
       \/ LateResult(c)
    /\ UNCHANGED elapsed

FailClosed(c) ==
    /\ state = "closed"
    /\ ~LastFailureAllowed
    /\ Count(c)
    /\ failures' = failures + 1
    /\ elapsed' = 0
    /\ UNCHANGED successes

OpensOnFailure == (state = "closed" /\ LastFailureAllowed) \/ state = "halfOpen"

OpenCircuit ==
    /\ OpensOnFailure
    /\ TransitionTo("open", 0)
    /\ elapsed' = 0
    /\ fresh' = {}

OnFailure(c) ==
    \/ FailClosed(c)
    \/ OpenCircuit
    \/ LateResult(c) /\ UNCHANGED elapsed

(* fn returns and recordResult runs. *)
Succeed(c) ==
    /\ Move(c, "running", "idle")
    /\ OnSuccess(c)
    /\ recent' = Slide(recent, TRUE)

Fail(c) ==
    /\ Move(c, "running", "idle")
    /\ OnFailure(c)
    /\ recent' = Slide(recent, FALSE)

(* Reset: the operator closes the breaker; lastFailure stays. *)
Reset ==
    /\ state' = "closed"
    /\ failures' = 0
    /\ successes' = 0
    /\ halfOpenRequests' = 0
    /\ fresh' = {}
    /\ lost' = 0
    /\ UNCHANGED <<elapsed, pc, recent, openFor>>

(* Time passes. *)
Later(t) == IF t < Timeout THEN t + 1 ELSE t

Tick ==
    /\ elapsed' = Later(elapsed)
    /\ openFor' = Later(openFor)
    /\ UNCHANGED <<cbVars, pc, fresh, lost, recent>>

Next ==
    \/ Tick
    \/ Reset
    \/ \E c \in Callers :
          Allow(c) \/ Refuse(c) \/ Start(c) \/ Abandon(c) \/ Succeed(c) \/ Fail(c)

Spec == Init /\ [][Next]_vars

(* Time passes, callers keep calling, and a call that was let through runs *)
(* to its end: the goroutine is scheduled and fn is bounded by the HTTP    *)
(* client's timeout (resilience/http_client.go:62).                        *)
Fairness ==
    /\ WF_vars(Tick)
    /\ \A c \in Callers :
          /\ WF_vars(Allow(c))
          /\ WF_vars(Start(c))
          /\ WF_vars(Succeed(c) \/ Fail(c))

FairSpec == Spec /\ Fairness

------------------------------------------------------------------------------
(* Types, and what every counter may hold between two critical sections:   *)
(* neither counter ever rests at its threshold, because reaching it is     *)
(* what changes the state (lines 190-192, 199-203), and no more slots are  *)
(* given out than configured (line 160).                                   *)
TypeOK ==
    /\ state \in States
    /\ failures \in 0..(FailureThreshold - 1)
    /\ successes \in 0..(SuccessThreshold - 1)
    /\ halfOpenRequests \in 0..MaxRequests
    /\ elapsed \in 0..Timeout
    /\ pc \in [Callers -> Stages]
    /\ fresh \in SUBSET Callers
    /\ lost \in Nat
    /\ recent \in Seq(BOOLEAN)
    /\ openFor \in 0..Timeout

InFlight == {c \in Callers : pc[c] # "idle"}

(* Each counter is in use in one state only; elsewhere it is zero, so that *)
(* no state inherits counts from an earlier one (transitionTo and Reset).  *)
CountersByState ==
    /\ state # "closed" => failures = 0
    /\ state # "halfOpen" => successes = 0 /\ halfOpenRequests = 0 /\ lost = 0
    /\ state = "halfOpen" => halfOpenRequests > 0

(* Every slot of a half-open period is held by a call under way, was spent *)
(* on a success, or was lost by a call that ended without a result.        *)
SlotsAccountedFor ==
    state = "halfOpen" =>
        /\ Cardinality(fresh) <= halfOpenRequests
        /\ halfOpenRequests <= Cardinality(fresh) + successes + lost

(* A call that finds the breaker open was let through before it opened:    *)
(* allowRequest lets nothing through an open breaker without half-opening  *)
(* it in the same critical section (lines 149-156).                        *)
QuietWhileOpen == state = "open" => fresh = {}

SlotInv ==
    /\ fresh \subseteq InFlight
    /\ CountersByState
    /\ SlotsAccountedFor
    /\ QuietWhileOpen
    /\ state = "open" => openFor = elapsed

(* "MaxRequests is the max requests allowed in half-open state" (line 56): *)
(* of the calls under way at once, no more than MaxRequests were let       *)
(* through by this half-open period, however calls of earlier periods end. *)
ProbesBounded == state = "halfOpen" => Cardinality(fresh) <= MaxRequests

(* A half-open breaker that has no probe under way still has a slot for    *)
(* the next call, so it cannot refuse for ever, provided no probe ended    *)
(* without a result and MaxRequests successes are enough to close it.      *)
RoomUnlessLost ==
    /\ state = "halfOpen"
    /\ fresh = {}
    /\ lost = 0
    /\ SuccessThreshold <= MaxRequests
    => ~Refused

(* The breaker opens out of the closed state after FailureThreshold        *)
(* failures in a row, and closes after SuccessThreshold successes in a row *)
(* (Reset aside): results of other callers, late results of earlier        *)
(* periods included, never combine into a transition that the sequence of  *)
(* results does not justify.                                               *)
TransitionsAreEarned ==
    [][ /\ state = "closed" /\ state' = "open"
            => AllLast(recent', FailureThreshold, FALSE)
        /\ state = "halfOpen" /\ state' = "closed"
            => Reset \/ AllLast(recent', SuccessThreshold, TRUE)
        /\ state = "halfOpen" /\ state' = "open"
            => AllLast(recent', 1, FALSE)
      ]_vars

(* "Timeout is how long the circuit stays open before transitioning to     *)
(* half-open" (line 53), measured from the moment it opened and not from   *)
(* the lastFailure the code consults.                                      *)
OpenLastsTimeout ==
    [][state = "open" /\ state' = "halfOpen" => openFor = Timeout]_vars

(* The breaker implements the contract its callers rely on.                *)
Contract ==
    INSTANCE BreakerContract WITH
        phase <- state,
        rested <- (state = "open" /\ openFor = Timeout),
        live <- InFlight

ImplementsContract == Contract!ContractSpec

(* Once the protected service answers and no probe is lost, the breaker    *)
(* closes, and closes again after every trip.                              *)
ClosesOnceHealthy ==
    /\ SuccessThreshold <= MaxRequests
    /\ <>[](lost = 0)
    /\ <>[][\A c \in Callers : ~Fail(c)]_vars
    => []<>(state = "closed")

(* "StateHalfOpen allows a limited number of requests for testing" (line   *)
(* 18): a state for testing, left for closed or open when the test is      *)
(* over, whatever its results, unless a probe is lost on the way.          *)
HalfOpenIsLeft ==
    SuccessThreshold <= MaxRequests =>
        (state = "halfOpen" ~> state # "halfOpen" \/ lost > 0)

==============================================================================
