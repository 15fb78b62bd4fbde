------------------------ MODULE ResilientClient_proofs ------------------------
(***************************************************************************)
(* Theorems of HttpBreaker and of the client around it, for every set of   *)
(* callers, every configuration (NewCircuitBreaker rejects none), and any  *)
(* number of retries.                                                      *)
(***************************************************************************)
EXTENDS ResilientClient, FiniteSetTheorems, TLAPS

LEMMA SlideType ==
    ASSUME HttpBreakerAssumption, NEW w \in Seq(BOOLEAN), NEW r \in BOOLEAN
    PROVE  Slide(w, r) \in Seq(BOOLEAN)
<1>1. Window \in Nat /\ Window > 0
  BY DEF Window, HttpBreakerAssumption
<1>2. CASE Len(w) < Window
  BY <1>2 DEF Slide
<1>3. CASE ~(Len(w) < Window)
  <2>1. w # <<>>
    BY <1>1, <1>3
  <2>2. Tail(w) \in Seq(BOOLEAN)
    BY <2>1
  <2>3. QED
    BY <1>3, <2>2 DEF Slide
<1>4. QED
  BY <1>2, <1>3

(* A caller joins or leaves the holders of a slot one at a time. *)
LEMMA OneHolder ==
    ASSUME HttpBreakerAssumption, NEW S \in SUBSET Callers, NEW c \in Callers
    PROVE  /\ Cardinality(S) \in Nat
           /\ c \notin S => Cardinality(S \cup {c}) = Cardinality(S) + 1
           /\ c \in S => Cardinality(S \ {c}) = Cardinality(S) - 1
<1>1. IsFiniteSet(S)
  BY FS_Subset DEF HttpBreakerAssumption
<1>2. QED
  BY <1>1, FS_CardinalityType, FS_AddElement, FS_RemoveElement

(* The types cannot be proved alone: that halfOpenInProgress stays a       *)
(* natural number rests on its being the number of holders, of which the   *)
(* decrementing call is one.                                               *)
IInv == TypeOK /\ InProgressMatches /\ ProbesAreTracked /\ OpenInv

LEMMA CanExecuteKeeps ==
    ASSUME HttpBreakerAssumption, IInv, NEW c \in Callers, CanExecute(c)
    PROVE  IInv'
<1> USE HttpBreakerAssumption DEF HttpBreakerAssumption, IInv, TypeOK, States, Stages, Expired
<1>1. /\ pc[c] = "idle"
      /\ pc' = [pc EXCEPT ![c] = "checked"]
      /\ UNCHANGED <<halfOpenInProgress, elapsed, recent>>
  BY DEF CanExecute, Move
<1>2. Holders' = Holders
  BY <1>1 DEF Holders
<1>3. InProgressMatches'
  BY <1>1, <1>2 DEF InProgressMatches
<1>4. CASE PassClosed(c)
  BY <1>1, <1>3, <1>4 DEF PassClosed, ProbesAreTracked, OpenInv
<1>5. CASE PassOpen(c)
  BY <1>1, <1>3, <1>5 DEF PassOpen, TransitionTo, ProbesAreTracked, OpenInv
<1>6. CASE PassHalfOpen(c)
  BY <1>1, <1>3, <1>6 DEF PassHalfOpen, ProbesAreTracked, OpenInv
<1>7. QED
  BY <1>4, <1>5, <1>6 DEF CanExecute

LEMMA TrackingKeeps ==
    ASSUME HttpBreakerAssumption, IInv, NEW c \in Callers,
           GetState(c) \/ Track(c) \/ Untrack(c)
    PROVE  IInv'
<1> USE DEF IInv, TypeOK, States, Stages, Expired
<1>1. Holders \in SUBSET Callers
  BY DEF Holders
<1>2. CASE GetState(c)
  <2>1. Holders' = Holders
    BY <1>2 DEF GetState, Move, Holders
  <2>2. QED
    BY <1>2, <2>1 DEF GetState, Move, cbVars, InProgressMatches, ProbesAreTracked, OpenInv
<1>3. CASE Track(c)
  <2>1. c \notin Holders /\ Holders' = Holders \cup {c}
    BY <1>3 DEF Track, Move, Holders
  <2>2. Cardinality(Holders') = Cardinality(Holders) + 1
    BY <1>1, <2>1, OneHolder
  <2>3. InProgressMatches'
    BY <1>3, <2>2 DEF Track, InProgressMatches
  <2>4. QED
    BY <1>3, <2>3 DEF Track, Move, ProbesAreTracked, OpenInv
<1>4. CASE Untrack(c)
  <2>1. c \in Holders /\ Holders' = Holders \ {c}
    BY <1>4 DEF Untrack, Move, Holders
  <2>2. Cardinality(Holders') = Cardinality(Holders) - 1 /\ Cardinality(Holders') \in Nat
    BY <1>1, <2>1, OneHolder
  <2>3. halfOpenInProgress' = Cardinality(Holders')
    BY <1>4, <2>2 DEF Untrack, InProgressMatches
  <2>4. halfOpenInProgress' \in Nat
    BY <2>2, <2>3
  <2>5. QED
    BY <1>4, <2>3, <2>4 DEF Untrack, Move, InProgressMatches, ProbesAreTracked, OpenInv
<1>5. QED
  BY <1>2, <1>3, <1>4

(* However a call leaves fn, it keeps its slot until the deferred decrement. *)
LEMMA LeaveFnKeepsHolders ==
    ASSUME TypeOK, NEW c \in Callers, LeaveFn(c)
    PROVE  /\ Holders' = Holders
           /\ halfOpenInProgress' = halfOpenInProgress
           /\ pc' \in [Callers -> Stages]
           /\ \A d \in Callers \ {c} : pc'[d] = pc[d]
BY DEF TypeOK, LeaveFn, Move, Holders, Stages

LEMMA OutcomeKeeps ==
    ASSUME HttpBreakerAssumption, IInv, NEW c \in Callers,
           Succeed(c) \/ Fail(c) \/ Panic(c)
    PROVE  IInv'
<1> USE HttpBreakerAssumption DEF HttpBreakerAssumption, IInv, States, Expired
<1>1. /\ Holders' = Holders
      /\ halfOpenInProgress' = halfOpenInProgress
      /\ pc' \in [Callers -> Stages]
      /\ \A d \in Callers \ {c} : pc'[d] = pc[d]
  BY LeaveFnKeepsHolders DEF Succeed, Fail, Panic
<1>2. InProgressMatches'
  BY <1>1 DEF InProgressMatches
<1>3. recent' \in Seq(BOOLEAN)
  BY SlideType DEF TypeOK, Succeed, Fail, Panic
<1>4. fresh' \in SUBSET fresh /\ c \notin fresh'
  BY DEF TypeOK, Succeed, Fail, Panic, OnSuccess, OnFailure, TransitionTo, Count
<1>5. fresh' \in SUBSET Callers
  BY <1>4 DEF TypeOK
<1>6. ProbesAreTracked' /\ OpenInv' /\ TypeOK'
  <2>1. CASE Panic(c)
    BY <1>1, <1>3, <1>4, <1>5, <2>1 DEF Panic, TypeOK, ProbesAreTracked, OpenInv
  <2>2. CASE Succeed(c)
    <3>1. OnSuccess(c)
      BY <2>2 DEF Succeed
    <3>2. /\ state' \in {"closed", "open", "halfOpen"}
          /\ failures' \in Nat
          /\ successes' \in 0..SuccessCap
          /\ elapsed' = elapsed
          /\ openFor' = openFor
      BY <3>1 DEF OnSuccess, ClosesOnSuccess, TransitionTo, OneMoreSuccess,
                  FailuresAfterSuccess, Count, TypeOK
    <3>3. fresh' = {} \/ state' = state
      BY <3>1 DEF OnSuccess, TransitionTo, Count
    <3>4. TypeOK'
      BY <1>1, <1>3, <1>5, <3>2 DEF TypeOK
    <3>5. QED
      BY <1>1, <1>4, <3>1, <3>2, <3>3, <3>4
         DEF OnSuccess, ClosesOnSuccess, TransitionTo, Count, ProbesAreTracked, OpenInv, TypeOK
  <2>3. CASE Fail(c)
    <3>1. OnFailure(c)
      BY <2>3 DEF Fail
    <3>2. /\ state' \in {"closed", "open", "halfOpen"}
          /\ failures' \in Nat
          /\ successes' \in 0..SuccessCap
          /\ elapsed' = 0
          /\ openFor' \in 0..(Timeout + 1)
      BY <3>1 DEF OnFailure, ElapsedAfterFailure, TransitionTo, Count, TypeOK
    <3>3. fresh' = {} \/ state' = state
      BY <3>1 DEF OnFailure, TransitionTo, Count
    <3>4. TypeOK'
      BY <1>1, <1>3, <1>5, <3>2 DEF TypeOK
    <3>5. QED
      BY <1>1, <1>4, <3>2, <3>3, <3>4 DEF ProbesAreTracked, OpenInv, TypeOK
  <2>4. QED
    BY <2>1, <2>2, <2>3
<1>7. QED
  BY <1>2, <1>6

LEMMA Inductive == Spec => []IInv
<1>1. Init => IInv
  <2> SUFFICES ASSUME Init PROVE IInv
    OBVIOUS
  <2>1. Holders = {}
    BY DEF Init, Holders
  <2>2. InProgressMatches
    BY <2>1, FS_EmptySet DEF Init, InProgressMatches
  <2>3. QED
    BY <2>2, HttpBreakerAssumption
       DEF Init, IInv, TypeOK, States, Stages, Expired, ProbesAreTracked, OpenInv,
           HttpBreakerAssumption
<1>2. IInv /\ [Next]_vars => IInv'
  <2> SUFFICES ASSUME IInv, [Next]_vars
               PROVE  IInv'
    OBVIOUS
  <2>1. CASE Tick
    BY <2>1, HttpBreakerAssumption
       DEF Tick, Later, cbVars, IInv, TypeOK, States, Stages, Expired, Holders,
           InProgressMatches, ProbesAreTracked, OpenInv, HttpBreakerAssumption
  <2>2. CASE UNCHANGED vars
    BY <2>2 DEF vars, IInv, TypeOK, Holders, InProgressMatches, ProbesAreTracked, OpenInv
  <2>3. CASE \E c \in Callers : Refuse(c)
    BY <2>2, <2>3 DEF Refuse
  <2>4. CASE \E c \in Callers :
                \/ CanExecute(c) \/ GetState(c) \/ Track(c)
                \/ Succeed(c) \/ Fail(c) \/ Panic(c) \/ Untrack(c)
    BY <2>4, HttpBreakerAssumption, CanExecuteKeeps, TrackingKeeps, OutcomeKeeps
  <2>5. QED
    BY <2>1, <2>2, <2>3, <2>4 DEF Next
<1>3. QED
  BY <1>1, <1>2, PTL DEF Spec

(* Types; in particular the deferred decrement never makes the number of   *)
(* half-open calls in progress negative.                                   *)
THEOREM TypeCorrect == Spec => []TypeOK
BY Inductive, PTL DEF IInv

(* No path out of Execute leaks a half-open slot: the count is the number  *)
(* of calls between their increment and their decrement, for any number of *)
(* callers, panics included.                                               *)
THEOREM InProgressExact == Spec => []InProgressMatches
BY Inductive, PTL DEF IInv

(* A call let through by the current half-open period and now in fn is     *)
(* counted, in spite of the two separate looks at the state.               *)
THEOREM ProbesCounted == Spec => []ProbesAreTracked
BY Inductive, PTL DEF IInv

(* A breaker leaves open for half-open only after the whole timeout: the   *)
(* clock it consults never runs ahead of the time it has been open.        *)
THEOREM OpenHeld == Spec => OpenLastsTimeout
<1>1. IInv /\ [Next]_vars
        => [state = "open" /\ state' = "halfOpen" => openFor > Timeout]_vars
  <2> SUFFICES ASSUME IInv, Next, state = "open", state' = "halfOpen"
               PROVE  openFor > Timeout
    BY DEF vars
  <2>1. PICK c \in Callers : CanExecute(c)
    BY DEF Next, Tick, Refuse, GetState, Track, Untrack, Panic, Succeed, Fail,
           OnSuccess, OnFailure, TransitionTo, Count, cbVars, vars
  <2>2. elapsed > Timeout
    BY <2>1 DEF CanExecute, PassClosed, PassOpen, PassHalfOpen, TimeoutOver
  <2>3. QED
    BY <2>2, HttpBreakerAssumption
       DEF IInv, TypeOK, OpenInv, Expired, HttpBreakerAssumption
<1>2. QED
  BY <1>1, Inductive, PTL DEF Spec, OpenLastsTimeout

------------------------------------------------------------------------------
(* Calls that were let through and have no outcome yet, as the contract    *)
(* sees them: a call waiting for its decrement is over.                    *)
LiveCalls == {c \in Callers : pc[c] \notin {"idle", "leaving"}}

LEMMA StepImplementsContract ==
    ASSUME HttpBreakerAssumption, IInv, IInv', [Next]_vars
    PROVE  [Contract!ContractNext]_(Contract!contractVars)
<1> USE DEF Contract!ContractNext, Contract!contractVars
<1> USE HttpBreakerAssumption
    DEF HttpBreakerAssumption, IInv, TypeOK, States, Stages, Expired, LiveCalls
<1>1. CASE Tick
  BY <1>1 DEF Tick, Later, cbVars, Contract!Rest
<1>2. ASSUME NEW c \in Callers, CanExecute(c)
      PROVE  Contract!Admit(c) \/ Contract!Probe(c)
  <2>1. c \notin LiveCalls /\ LiveCalls' = LiveCalls \cup {c}
    BY <1>2 DEF CanExecute, Move
  <2>2. CASE PassClosed(c)
    BY <2>1, <2>2 DEF PassClosed, Contract!Admit
  <2>3. CASE PassOpen(c)
    BY <2>1, <2>3 DEF PassOpen, TimeoutOver, TransitionTo, OpenInv, Contract!Probe
  <2>4. CASE PassHalfOpen(c)
    BY <2>1, <2>4 DEF PassHalfOpen, Contract!Admit
  <2>5. QED
    BY <1>2, <2>2, <2>3, <2>4 DEF CanExecute
<1>3. ASSUME NEW c \in Callers, GetState(c) \/ Track(c) \/ Untrack(c)
      PROVE  UNCHANGED Contract!contractVars
  <2>1. LiveCalls' = LiveCalls
    BY <1>3 DEF GetState, Track, Untrack, Move
  <2>2. QED
    BY <1>3, <2>1 DEF GetState, Track, Untrack, cbVars
<1>4. ASSUME NEW c \in Callers, LeaveFn(c)
      PROVE  c \in LiveCalls /\ LiveCalls' = LiveCalls \ {c}
  BY <1>4 DEF LeaveFn, Move
<1>5. ASSUME NEW c \in Callers, Panic(c)
      PROVE  Contract!Settle(c)
  <2>1. c \in LiveCalls /\ LiveCalls' = LiveCalls \ {c}
    BY <1>4, <1>5 DEF Panic
  <2>2. QED
    BY <1>5, <2>1 DEF Panic, Contract!Settle
<1>6. ASSUME NEW c \in Callers, Succeed(c)
      PROVE  Contract!Settle(c) \/ Contract!Close(c)
  <2>1. c \in LiveCalls /\ LiveCalls' = LiveCalls \ {c}
    BY <1>4, <1>6 DEF Succeed
  <2>2. CASE ClosesOnSuccess
    BY <1>6, <2>1, <2>2 DEF Succeed, OnSuccess, ClosesOnSuccess, TransitionTo, Contract!Close
  <2>3. CASE ~ClosesOnSuccess
    BY <1>6, <2>1, <2>3 DEF Succeed, OnSuccess, Count, Contract!Settle
  <2>4. QED
    BY <2>2, <2>3
<1>7. ASSUME NEW c \in Callers, Fail(c)
      PROVE  Contract!Settle(c) \/ Contract!Trip(c)
  <2>1. c \in LiveCalls /\ LiveCalls' = LiveCalls \ {c}
    BY <1>4, <1>7 DEF Fail
  <2>2. CASE OpensOnFailure
    BY <1>7, <2>1, <2>2 DEF Fail, OnFailure, OpensOnFailure, TransitionTo, Contract!Trip
  <2>3. CASE ~OpensOnFailure
    BY <1>7, <2>1, <2>3 DEF Fail, OnFailure, Count, Contract!Settle
  <2>4. QED
    BY <2>2, <2>3
<1>8. CASE UNCHANGED vars
  BY <1>8 DEF vars
<1>9. QED
  BY <1>1, <1>2, <1>3, <1>5, <1>6, <1>7, <1>8 DEF Next, Refuse

(* Although Execute is split over five critical sections, every one of its *)
(* steps is a step of the contract, or invisible to it.                    *)
THEOREM BreakerImplementsContract == Spec => ImplementsContract
<1>1. Init => Contract!ContractInit
  BY HttpBreakerAssumption DEF Init, Contract!ContractInit, HttpBreakerAssumption
<1>2. IInv /\ IInv' /\ [Next]_vars => [Contract!ContractNext]_(Contract!contractVars)
  BY StepImplementsContract, HttpBreakerAssumption
<1>3. QED
  BY <1>1, <1>2, Inductive, PTL DEF Spec, ImplementsContract, Contract!ContractSpec

------------------------------------------------------------------------------
(* A run of n equal results grows by one when one more of them comes in,   *)
(* as long as the window has room for it.                                  *)
LEMMA RunGrows ==
    ASSUME HttpBreakerAssumption, NEW w \in Seq(BOOLEAN), NEW r \in BOOLEAN,
           NEW n \in 0 .. Window - 1, AllLast(w, n, r)
    PROVE  AllLast(Slide(w, r), n + 1, r)
<1>1. Window \in Nat /\ Window > 0
  BY DEF Window, HttpBreakerAssumption
<1>2. CASE Len(w) < Window
  BY <1>1, <1>2 DEF AllLast, Slide
<1>3. CASE ~(Len(w) < Window)
  <2>1. w # <<>>
    BY <1>1, <1>3
  <2>2. /\ Tail(w) \in Seq(BOOLEAN)
        /\ Len(Tail(w)) = Len(w) - 1
        /\ \A i \in 1 .. Len(w) - 1 : Tail(w)[i] = w[i + 1]
    BY <2>1
  <2>3. Slide(w, r) = Append(Tail(w), r)
    BY <1>3 DEF Slide
  <2>4. /\ Len(Slide(w, r)) = Len(w)
        /\ Slide(w, r)[Len(w)] = r
        /\ \A i \in 1 .. Len(w) - 1 : Slide(w, r)[i] = w[i + 1]
    BY <2>2, <2>3
  <2>5. ASSUME NEW i \in (Len(w) - n) .. Len(w)
        PROVE  Slide(w, r)[i] = r
    BY <1>1, <1>3, <2>4 DEF AllLast
  <2>6. QED
    BY <1>1, <1>3, <2>4, <2>5 DEF AllLast
<1>4. QED
  BY <1>2, <1>3

(* A longer run is a shorter one too; no results at all are a run of none. *)
LEMMA ShorterRun ==
    ASSUME NEW w \in Seq(BOOLEAN), NEW r, NEW n \in Nat, NEW m \in 0 .. n, AllLast(w, n, r)
    PROVE  AllLast(w, m, r)
BY DEF AllLast

LEMMA NoRun == ASSUME NEW w \in Seq(BOOLEAN), NEW r PROVE AllLast(w, 0, r)
BY DEF AllLast

(* What the counters mean in the state that consults them: the failures of *)
(* a closed breaker and the successes of a half-open one are its latest    *)
(* results, without a break.  In the other states they count whatever late *)
(* results come in, and the next transition throws them away.              *)
CountersAreRuns ==
    /\ state = "closed"
        => failures <= FailureThreshold /\ AllLast(recent, failures, FALSE)
    /\ state = "halfOpen"
        => successes <= SuccessThreshold /\ AllLast(recent, successes, TRUE)

Earned ==
    /\ state = "closed" /\ state' = "open" => AllLast(recent', FailureThreshold, FALSE)
    /\ state = "halfOpen" /\ state' = "closed" => AllLast(recent', SuccessThreshold, TRUE)
    /\ state = "halfOpen" /\ state' = "open" => AllLast(recent', 1, FALSE)

LEMMA RunsStep ==
    ASSUME HttpBreakerAssumption, TypeOK, TypeOK', CountersAreRuns, [Next]_vars
    PROVE  CountersAreRuns' /\ Earned
<1> USE HttpBreakerAssumption DEF HttpBreakerAssumption
<1>0. /\ Window \in Nat
      /\ FailureThreshold < Window
      /\ SuccessThreshold < Window
      /\ 0 \in 0 .. Window - 1
  BY DEF Window
<1>1. CASE UNCHANGED vars
  BY <1>1 DEF vars, CountersAreRuns, Earned
<1>2. CASE Tick
  BY <1>2 DEF Tick, cbVars, CountersAreRuns, Earned
<1>3. ASSUME NEW c \in Callers, CanExecute(c) PROVE CountersAreRuns' /\ Earned
  <2>1. AllLast(recent, 0, TRUE)
    BY NoRun DEF TypeOK
  <2>2. recent' = recent /\ state' # "open" /\ (state = "halfOpen" => state' # "closed")
    BY <1>3 DEF CanExecute, PassClosed, PassOpen, PassHalfOpen, TransitionTo
  <2>3. CASE PassOpen(c)
    <3>1. successes' = 0 /\ state' = "halfOpen"
      BY <2>3 DEF PassOpen, TransitionTo
    <3>2. AllLast(recent', successes', TRUE)
      BY <2>1, <2>2, <3>1, Zenon
    <3>3. successes' <= SuccessThreshold
      BY <3>1
    <3>4. QED
      BY <2>2, <3>1, <3>2, <3>3 DEF CountersAreRuns, Earned
  <2>4. CASE PassClosed(c) \/ PassHalfOpen(c)
    BY <2>2, <2>4 DEF PassClosed, PassHalfOpen, CountersAreRuns, Earned
  <2>5. QED
    BY <1>3, <2>3, <2>4 DEF CanExecute
<1>4. ASSUME NEW c \in Callers, GetState(c) \/ Track(c) \/ Panic(c) \/ Untrack(c)
      PROVE  CountersAreRuns' /\ Earned
  BY <1>4 DEF GetState, Track, Panic, Untrack, cbVars, CountersAreRuns, Earned
<1>5. ASSUME NEW c \in Callers, Succeed(c) PROVE CountersAreRuns' /\ Earned
  <2>1. recent' = Slide(recent, TRUE) /\ OnSuccess(c)
    BY <1>5 DEF Succeed
  <2>2. ASSUME state = "halfOpen" PROVE AllLast(recent', successes + 1, TRUE)
    <3>1. successes \in 0 .. Window - 1 /\ recent \in Seq(BOOLEAN)
      BY <1>0, <2>2 DEF TypeOK, CountersAreRuns
    <3>2. AllLast(recent, successes, TRUE)
      BY <2>2 DEF CountersAreRuns
    <3>3. QED
      BY <2>1, <3>1, <3>2, RunGrows
  <2>3. recent' \in Seq(BOOLEAN) /\ AllLast(recent', 0, FALSE)
    BY NoRun DEF TypeOK
  <2>4. CASE ClosesOnSuccess
    <3>1. state = "halfOpen" /\ state' = "closed" /\ failures' = 0
      BY <2>1, <2>4 DEF OnSuccess, ClosesOnSuccess, TransitionTo
    <3>2. SuccessThreshold \in 0 .. (successes + 1) /\ successes + 1 \in Nat
      BY <2>4 DEF ClosesOnSuccess, TypeOK
    <3>3. AllLast(recent', SuccessThreshold, TRUE)
      BY <2>2, <2>3, <3>1, <3>2, ShorterRun
    <3>4. AllLast(recent', failures', FALSE)
      BY <2>3, <3>1, Zenon
    <3>5. failures' <= FailureThreshold
      BY <3>1
    <3>6. QED
      BY <3>1, <3>3, <3>4, <3>5 DEF CountersAreRuns, Earned
  <2>5. CASE ~ClosesOnSuccess
    <3>1. /\ state' = state
          /\ failures' = IF state = "closed" THEN 0 ELSE failures
          /\ successes' = IF successes < SuccessCap THEN successes + 1 ELSE successes
      BY <2>1, <2>5 DEF OnSuccess, Count, OneMoreSuccess, FailuresAfterSuccess
    <3>2. state = "halfOpen" => successes + 1 < SuccessThreshold
      BY <2>5 DEF ClosesOnSuccess, TypeOK
    <3>3. state = "halfOpen" => successes' = successes + 1
      BY <3>1, <3>2 DEF TypeOK
    <3>4. ASSUME state' = "closed"
          PROVE  failures' <= FailureThreshold /\ AllLast(recent', failures', FALSE)
      <4>1. failures' = 0
        BY <3>1, <3>4
      <4>2. AllLast(recent', failures', FALSE)
        BY <2>3, <4>1, Zenon
      <4>3. failures' <= FailureThreshold
        BY <4>1
      <4>4. QED
        BY <4>2, <4>3, Zenon
    <3>5. ASSUME state' = "halfOpen"
          PROVE  successes' <= SuccessThreshold /\ AllLast(recent', successes', TRUE)
      <4>1. successes' = successes + 1 /\ successes + 1 <= SuccessThreshold
        BY <3>1, <3>2, <3>3, <3>5 DEF TypeOK
      <4>2. AllLast(recent', successes', TRUE)
        BY <2>2, <3>1, <3>5, <4>1, Zenon
      <4>3. QED
        BY <4>1, <4>2
    <3>6. QED
      BY <3>1, <3>4, <3>5 DEF CountersAreRuns, Earned
  <2>6. QED
    BY <2>4, <2>5
<1>6. ASSUME NEW c \in Callers, Fail(c) PROVE CountersAreRuns' /\ Earned
  <2>1. recent' = Slide(recent, FALSE) /\ OnFailure(c)
    BY <1>6 DEF Fail
  <2>2. ASSUME state = "closed" PROVE AllLast(recent', failures + 1, FALSE)
    <3>1. failures \in 0 .. Window - 1 /\ recent \in Seq(BOOLEAN)
      BY <1>0, <2>2 DEF TypeOK, CountersAreRuns
    <3>2. AllLast(recent, failures, FALSE)
      BY <2>2 DEF CountersAreRuns
    <3>3. QED
      BY <2>1, <3>1, <3>2, RunGrows
  <2>3. recent \in Seq(BOOLEAN) /\ recent' \in Seq(BOOLEAN)
    BY DEF TypeOK
  <2>4. AllLast(recent', 1, FALSE)
    <3>1. AllLast(recent, 0, FALSE)
      BY <2>3, NoRun
    <3>2. AllLast(Slide(recent, FALSE), 0 + 1, FALSE)
      BY <1>0, <2>3, <3>1, RunGrows
    <3>3. 0 + 1 = 1
      OBVIOUS
    <3>4. QED
      BY <2>1, <3>2, <3>3
  <2>5. CASE OpensOnFailure
    <3>1. state' = "open"
      BY <2>1, <2>5 DEF OnFailure, TransitionTo
    <3>2. ASSUME state = "closed" PROVE AllLast(recent', FailureThreshold, FALSE)
      <4>1. FailureThreshold \in 0 .. (failures + 1) /\ failures + 1 \in Nat
        BY <2>5, <3>2 DEF OpensOnFailure, TypeOK
      <4>2. QED
        BY <2>2, <2>3, <3>2, <4>1, ShorterRun
    <3>3. QED
      BY <2>4, <3>1, <3>2 DEF CountersAreRuns, Earned
  <2>6. CASE ~OpensOnFailure
    <3>1. state' = state /\ failures' = failures + 1 /\ state # "halfOpen"
      BY <2>1, <2>6 DEF OnFailure, OpensOnFailure, Count
    <3>2. state = "closed" => failures + 1 < FailureThreshold
      BY <2>6 DEF OpensOnFailure, TypeOK
    <3>3. ASSUME state' = "closed"
          PROVE  failures' <= FailureThreshold /\ AllLast(recent', failures', FALSE)
      <4>1. failures' = failures + 1 /\ failures + 1 <= FailureThreshold
        BY <3>1, <3>2, <3>3 DEF TypeOK
      <4>2. AllLast(recent', failures', FALSE)
        BY <2>2, <3>1, <3>3, <4>1, Zenon
      <4>3. QED
        BY <4>1, <4>2
    <3>4. QED
      BY <3>1, <3>3 DEF CountersAreRuns, Earned
  <2>7. QED
    BY <2>5, <2>6
<1>7. QED
  BY <1>1, <1>2, <1>3, <1>4, <1>5, <1>6 DEF Next, Refuse

(* Every transition is earned by the results before it, although this      *)
(* breaker counts successes and failures in every state: FailureThreshold  *)
(* failures in a row open it, SuccessThreshold successes in a row close    *)
(* it, results of calls of earlier periods included.                       *)
THEOREM TransitionsEarned == Spec => TransitionsAreEarned
<1>1. Init => CountersAreRuns
  <2>1. <<>> \in Seq(BOOLEAN)
    OBVIOUS
  <2>2. AllLast(<<>>, 0, FALSE)
    BY <2>1, NoRun
  <2>3. QED
    <3> SUFFICES ASSUME Init PROVE CountersAreRuns
      OBVIOUS
    <3>1. AllLast(recent, failures, FALSE) /\ state = "closed"
      BY <2>2, Zenon DEF Init
    <3>2. failures <= FailureThreshold
      BY HttpBreakerAssumption DEF Init, HttpBreakerAssumption
    <3>3. QED
      BY <3>1, <3>2 DEF CountersAreRuns
<1>2. TypeOK /\ TypeOK' /\ CountersAreRuns /\ [Next]_vars => CountersAreRuns' /\ [Earned]_vars
  BY RunsStep, HttpBreakerAssumption
<1>3. QED
  BY <1>1, <1>2, TypeCorrect, PTL DEF Spec, TransitionsAreEarned, Earned

------------------------------------------------------------------------------
(* The retry loop only decides when fn ends, and with what.                *)
LEMMA ClientStepIsBreakerStep == [ClientNext]_clientVars => [Next]_vars
BY DEF ClientNext, clientVars, Next, BreakerStep, Attempt, Answered, Refused4xx,
       RetryableFailure, LastFailure, CancelledInDelay

(* Every behaviour of the client is one of the breaker, so all that is     *)
(* proved of the breaker holds around the retry loop.                      *)
THEOREM ClientRefinesBreaker == ClientSpec => Spec
<1>1. ClientInit => Init
  BY DEF ClientInit
<1>2. QED
  BY <1>1, ClientStepIsBreakerStep, PTL DEF ClientSpec, Spec

(* What the run of the client checks of the breaker, and with it the       *)
(* transitions and the wait of the open breaker, for the client.           *)
THEOREM ClientKeepsPromises ==
    ClientSpec => /\ []InProgressMatches
                  /\ ImplementsContract
                  /\ TransitionsAreEarned
                  /\ OpenLastsTimeout
BY ClientRefinesBreaker, InProgressExact, BreakerImplementsContract, TransitionsEarned,
   OpenHeld

(* The attempts that calls let through have not made yet, each a caller    *)
(* and the number of the attempt.                                          *)
Unmade == {a \in Callers \X (0..MaxRetries) :
               pc[a[1]] \notin {"idle", "leaving"} /\ attempt[a[1]] <= a[2]}

(* What may still be sent behind the open breaker, with what was sent.     *)
UnmadeBounded ==
    /\ attempt \in [Callers -> 0..MaxRetries]
    /\ sent \in Nat
    /\ state = "open"
        => sent + Cardinality(Unmade) <= (Cardinality(Callers) - 1) * (MaxRetries + 1)

(* A bound that is a product of a number of calls and one of attempts.     *)
LEMMA UnmadeFinite ==
    ASSUME HttpBreakerAssumption, ClientAssumption
    PROVE  /\ IsFiniteSet(Unmade)
           /\ Cardinality(Unmade) \in Nat
           /\ (Cardinality(Callers) - 1) * (MaxRetries + 1) \in Int
<1>1. IsFiniteSet(Callers) /\ IsFiniteSet(0..MaxRetries)
  BY FS_Interval DEF HttpBreakerAssumption, ClientAssumption
<1>2. IsFiniteSet(Callers \X (0..MaxRetries))
  BY <1>1, FS_Product
<1>3. Unmade \in SUBSET (Callers \X (0..MaxRetries))
  BY DEF Unmade
<1>4. IsFiniteSet(Unmade)
  BY <1>2, <1>3, FS_Subset
<1>5. Cardinality(Callers) \in Nat
  BY <1>1, FS_CardinalityType
<1>6. \A n, m \in Int : n * m \in Int
  OBVIOUS
<1>7. QED
  BY <1>4, <1>5, <1>6, FS_CardinalityType DEF ClientAssumption

(* One attempt made is one fewer to make; attempts given up are fewer too. *)
LEMMA UnmadeShrinks ==
    ASSUME HttpBreakerAssumption, ClientAssumption, UnmadeBounded,
           state = "open" => \/ Sends(0) /\ Unmade' \subseteq Unmade
                             \/ /\ Sends(1)
                                /\ \E a \in Unmade : Unmade' \subseteq Unmade \ {a},
           state' = "open" => state = "open",
           \E n \in Nat : Sends(n),
           attempt' \in [Callers -> 0..MaxRetries]
    PROVE  UnmadeBounded'
<1>1. CASE state' # "open"
  BY <1>1 DEF Sends, UnmadeBounded
<1>2. CASE state' = "open"
  <2>1. state = "open"
    BY <1>2
  <2>2. /\ IsFiniteSet(Unmade)
        /\ Cardinality(Unmade) \in Nat
        /\ (Cardinality(Callers) - 1) * (MaxRetries + 1) \in Int
    BY UnmadeFinite
  <2>3. CASE Sends(0) /\ Unmade' \subseteq Unmade
    <3>1. Cardinality(Unmade') <= Cardinality(Unmade) /\ Cardinality(Unmade') \in Nat
      BY <2>2, <2>3, FS_Subset, FS_CardinalityType
    <3>2. sent' = sent + 0
      BY <1>2, <2>1, <2>3 DEF Sends
    <3>3. QED
      BY <2>1, <2>2, <3>1, <3>2 DEF UnmadeBounded
  <2>4. CASE Sends(1) /\ \E a \in Unmade : Unmade' \subseteq Unmade \ {a}
    <3>1. PICK a \in Unmade : Unmade' \subseteq Unmade \ {a}
      BY <2>4
    <3>2. /\ IsFiniteSet(Unmade \ {a})
          /\ Cardinality(Unmade \ {a}) = Cardinality(Unmade) - 1
      BY <2>2, FS_RemoveElement
    <3>3. Cardinality(Unmade') <= Cardinality(Unmade) - 1 /\ Cardinality(Unmade') \in Nat
      BY <3>1, <3>2, FS_Subset, FS_CardinalityType
    <3>4. sent' = sent + 1
      BY <1>2, <2>1, <2>4 DEF Sends
    <3>5. QED
      BY <2>1, <2>2, <3>3, <3>4 DEF UnmadeBounded
  <2>5. QED
    BY <2>1, <2>3, <2>4
<1>3. QED
  BY <1>1, <1>2

(* The call whose result opens the breaker is over; each of the others has *)
(* its MaxRetries + 1 attempts at the most.                                *)
LEMMA OpeningBounded ==
    ASSUME HttpBreakerAssumption, ClientAssumption, NEW c \in Callers,
           pc'[c] \in {"idle", "leaving"}, sent' = 0,
           attempt' \in [Callers -> 0..MaxRetries]
    PROVE  UnmadeBounded'
<1>1. /\ IsFiniteSet(Callers \ {c})
      /\ Cardinality(Callers \ {c}) = Cardinality(Callers) - 1
  BY FS_RemoveElement DEF HttpBreakerAssumption
<1>2. /\ IsFiniteSet(0..MaxRetries)
      /\ Cardinality(0..MaxRetries) = MaxRetries + 1
  BY FS_Interval DEF ClientAssumption
<1>3. /\ IsFiniteSet((Callers \ {c}) \X (0..MaxRetries))
      /\ Cardinality((Callers \ {c}) \X (0..MaxRetries))
           = (Cardinality(Callers) - 1) * (MaxRetries + 1)
  <2> DEFINE S == Callers \ {c}
             T == 0..MaxRetries
  <2>1. IsFiniteSet(S \X T) /\ Cardinality(S \X T) = Cardinality(S) * Cardinality(T)
    <3>1. IsFiniteSet(S) /\ IsFiniteSet(T)
      BY <1>1, <1>2
    <3> HIDE DEF S, T
    <3>2. QED
      BY <3>1, FS_Product
  <2>2. QED
    BY <1>1, <1>2, <2>1, Zenon
<1>4. Unmade' \in SUBSET ((Callers \ {c}) \X (0..MaxRetries))
  BY DEF Unmade
<1>5. /\ Cardinality(Unmade') <= (Cardinality(Callers) - 1) * (MaxRetries + 1)
      /\ Cardinality(Unmade') \in Nat
  BY <1>3, <1>4, FS_Subset, FS_CardinalityType
<1>6. QED
  BY <1>5 DEF UnmadeBounded

LEMMA UnmadeStep ==
    ASSUME HttpBreakerAssumption, ClientAssumption, TypeOK, TypeOK', UnmadeBounded,
           [ClientNext]_clientVars
    PROVE  UnmadeBounded'
<1> USE HttpBreakerAssumption, ClientAssumption DEF ClientAssumption
<1> DEFINE Goal == UnmadeBounded'
<1>0. 0 \in Nat /\ 1 \in Nat /\ attempt \in [Callers -> 0..MaxRetries]
  BY DEF UnmadeBounded
<1>1. CASE UNCHANGED clientVars
  BY <1>1 DEF clientVars, vars, UnmadeBounded, Unmade
<1>2. CASE Tick /\ UNCHANGED <<attempt, sent>>
  BY <1>2 DEF Tick, cbVars, UnmadeBounded, Unmade
<1>3. ASSUME NEW c \in Callers, BreakerStep(c) PROVE Goal
  <2>1. Sends(0) /\ attempt' \in [Callers -> 0..MaxRetries]
    BY <1>0, <1>3 DEF BreakerStep, Attempts
  <2>2. state' = "open" => state = "open"
    BY <1>3 DEF BreakerStep, CanExecute, PassClosed, PassOpen, PassHalfOpen, TransitionTo,
                Refuse, GetState, Track, Panic, Untrack, cbVars, vars
  <2>3. ASSUME state = "open", ~CanExecute(c) PROVE Unmade' \subseteq Unmade
    <3>1. /\ pc'[c] \in {"idle", "leaving"} \/ pc[c] \notin {"idle", "leaving"}
          /\ \A d \in Callers \ {c} : pc'[d] = pc[d]
      BY <1>3, <2>3 DEF BreakerStep, Refuse, GetState, Track, Panic, LeaveFn, Untrack, Move,
                        vars, TypeOK
    <3>2. /\ pc'[c] \notin {"idle", "leaving"} => attempt'[c] = attempt[c]
          /\ \A d \in Callers \ {c} : attempt'[d] = attempt[d]
      BY <1>0, <1>3, <2>3
         DEF BreakerStep, Refuse, GetState, Track, Panic, LeaveFn, Untrack, Move, vars,
             TypeOK, Attempts, InFn
    <3>3. QED
      BY <3>1, <3>2 DEF Unmade
  <2>4. CanExecute(c) => state' # "open"
    BY DEF CanExecute, PassClosed, PassOpen, PassHalfOpen, TransitionTo
  <2>5. CASE state' = "open"
    BY <1>0, <2>1, <2>2, <2>3, <2>4, <2>5, UnmadeShrinks
  <2>6. CASE state' # "open"
    BY <1>0, <2>1, <2>6 DEF Sends, UnmadeBounded
  <2>7. QED
    BY <2>5, <2>6
<1>4. ASSUME NEW c \in Callers, InFn(c), LeaveFn(c), Attempts(c, 0)
      PROVE  /\ pc'[c] \in {"idle", "leaving"}
             /\ attempt' \in [Callers -> 0..MaxRetries]
             /\ <<c, attempt[c]>> \in Unmade
             /\ Unmade' \subseteq Unmade \ {<<c, attempt[c]>>}
  <2>1. /\ pc[c] \notin {"idle", "leaving"}
        /\ pc'[c] \in {"idle", "leaving"}
        /\ \A d \in Callers \ {c} : pc'[d] = pc[d]
    BY <1>4 DEF InFn, LeaveFn, Move, TypeOK
  <2>2. /\ attempt' \in [Callers -> 0..MaxRetries]
        /\ \A d \in Callers \ {c} : attempt'[d] = attempt[d]
    BY <1>0, <1>4 DEF Attempts
  <2>3. QED
    BY <1>0, <2>1, <2>2 DEF Unmade
<1>5. ASSUME NEW c \in Callers, Answered(c) PROVE Goal
  <2>1. InFn(c) /\ LeaveFn(c) /\ Attempts(c, 0) /\ Sends(1)
    BY <1>5 DEF Answered, Succeed
  <2>2. state' = "open" => state = "open"
    BY <1>5 DEF Answered, Succeed, OnSuccess, TransitionTo, Count
  <2>3. QED
    BY <1>0, <1>4, <2>1, <2>2, UnmadeShrinks
<1>6. ASSUME NEW c \in Callers, NEW n \in {0, 1},
             InFn(c), Fail(c), Attempts(c, 0), Sends(n)
      PROVE  Goal
  <2>1. LeaveFn(c)
    BY <1>6 DEF Fail
  <2>2. CASE state = "open" \/ state' # "open"
    BY <1>0, <1>4, <1>6, <2>1, <2>2, UnmadeShrinks
  <2>3. CASE state # "open" /\ state' = "open"
    BY <1>4, <1>6, <2>1, <2>3, OpeningBounded DEF Sends
  <2>4. QED
    BY <2>2, <2>3
<1>7. ASSUME NEW c \in Callers, RetryableFailure(c) PROVE Goal
  <2>1. /\ InFn(c) /\ pc' = pc /\ state' = state /\ Sends(1)
        /\ attempt[c] \in 0 .. MaxRetries - 1
        /\ attempt' = [attempt EXCEPT ![c] = attempt[c] + 1]
    BY <1>0, <1>7 DEF RetryableFailure, MayRetry, Attempts, vars
  <2>2. attempt' \in [Callers -> 0..MaxRetries]
    BY <1>0, <2>1
  <2>3. <<c, attempt[c]>> \in Unmade
    BY <1>0, <2>1 DEF Unmade, InFn
  <2>4. Unmade' \subseteq Unmade \ {<<c, attempt[c]>>}
    <3> SUFFICES ASSUME NEW a \in Unmade' PROVE a \in Unmade \ {<<c, attempt[c]>>}
      OBVIOUS
    <3>1. /\ a \in Callers \X (0..MaxRetries)
          /\ pc[a[1]] \notin {"idle", "leaving"}
          /\ attempt'[a[1]] <= a[2]
      BY <2>1 DEF Unmade
    <3>2. attempt[a[1]] <= a[2] /\ (a[1] = c => attempt[c] < a[2])
      BY <1>0, <2>1, <3>1
    <3>3. QED
      BY <1>0, <3>1, <3>2 DEF Unmade
  <2>5. QED
    BY <1>0, <2>1, <2>2, <2>3, <2>4, UnmadeShrinks
<1>8. QED
  BY <1>1, <1>2, <1>3, <1>5, <1>6, <1>7
     DEF ClientNext, Attempt, Refused4xx, LastFailure, CancelledInDelay

(* A service behind the open breaker gets no more than the attempts that   *)
(* the other calls under way have left: the loop does not stop, but it is  *)
(* bounded, and no call joins it.                                          *)
THEOREM OpenServiceIsSpared == ClientSpec => []OpenIsQuiet
<1>1. ClientInit => UnmadeBounded
  BY ClientAssumption DEF ClientInit, Init, UnmadeBounded, ClientAssumption
<1>2. TypeOK /\ TypeOK' /\ UnmadeBounded /\ [ClientNext]_clientVars => UnmadeBounded'
  BY UnmadeStep, HttpBreakerAssumption, ClientAssumption
<1>3. UnmadeBounded => OpenIsQuiet
  BY UnmadeFinite, HttpBreakerAssumption, ClientAssumption DEF UnmadeBounded, OpenIsQuiet
<1>4. ClientSpec => []TypeOK
  BY ClientRefinesBreaker, TypeCorrect
<1>5. QED
  BY <1>1, <1>2, <1>3, <1>4, PTL DEF ClientSpec

===============================================================================
