---------------------- MODULE ResilientHTTPClient_proofs ----------------------
(***************************************************************************)
(* Theorems of ResilienceBreaker and of the client around it, for every    *)
(* set of callers, every configuration that NewCircuitBreaker lets         *)
(* through, and any number of retries.                                     *)
(***************************************************************************)
EXTENDS ResilientHTTPClient, FiniteSetTheorems, TLAPS

(* The window of remembered results stays a sequence of results. *)
LEMMA SlideType ==
    ASSUME BreakerAssumption, NEW w \in Seq(BOOLEAN), NEW r \in BOOLEAN
    PROVE  Slide(w, r) \in Seq(BOOLEAN)
<1>1. CASE Len(w) < Window
  BY <1>1 DEF Slide
<1>2. CASE ~(Len(w) < Window)
  <2>1. Window \in Nat /\ Window > 0
    BY DEF Window, BreakerAssumption
  <2>2. w # <<>>
    BY <1>2, <2>1
  <2>3. Tail(w) \in Seq(BOOLEAN)
    BY <2>2
  <2>4. QED
    BY <1>2, <2>3 DEF Slide
<1>3. QED
  BY <1>1, <1>2

(* Types and counter ranges: no counter ever rests at its threshold, and   *)
(* no more half-open slots are given out than configured (allowRequest,    *)
(* onSuccess, onFailure, transitionTo).                                    *)
THEOREM TypeCorrect == Spec => []TypeOK
<1> USE BreakerAssumption DEF BreakerAssumption
<1>1. Init => TypeOK
  BY DEF Init, TypeOK, States, Stages
<1>2. TypeOK /\ [Next]_vars => TypeOK'
  <2> SUFFICES ASSUME TypeOK, [Next]_vars
               PROVE  TypeOK'
    OBVIOUS
  <2> USE DEF TypeOK, States, Stages
  <2>1. CASE Tick
    BY <2>1 DEF Tick, Later, cbVars
  <2>2. CASE Reset
    BY <2>2 DEF Reset
  <2>3. ASSUME NEW c \in Callers, Allow(c)
        PROVE  TypeOK'
    BY <2>3 DEF Allow, Move, AdmitClosed, AdmitProbe, AdmitHalfOpen,
                TransitionTo, SlotFree, cbVars
  <2>4. ASSUME NEW c \in Callers, Refuse(c)
        PROVE  TypeOK'
    BY <2>4 DEF Refuse, vars
  <2>5. ASSUME NEW c \in Callers, Start(c)
        PROVE  TypeOK'
    BY <2>5 DEF Start, Move, cbVars
  <2>6. ASSUME NEW c \in Callers, Abandon(c)
        PROVE  TypeOK'
    BY <2>6 DEF Abandon, Move, cbVars
  <2>7. ASSUME NEW c \in Callers, Succeed(c)
        PROVE  TypeOK'
    <3>1. recent' \in Seq(BOOLEAN)
      BY <2>7, SlideType DEF Succeed
    <3>2. pc' \in [Callers -> {"idle", "admitted", "running"}]
      BY <2>7 DEF Succeed, Move
    <3>3. elapsed' = elapsed
      BY <2>7 DEF Succeed, OnSuccess
    <3>4. CASE SucceedClosed(c)
      BY <3>1, <3>2, <3>3, <3>4 DEF SucceedClosed, Count
    <3>5. CASE SucceedHalfOpen(c)
      BY <3>1, <3>2, <3>3, <3>5 DEF SucceedHalfOpen, Count, LastSuccessNeeded
    <3>6. CASE CloseCircuit
      BY <3>1, <3>2, <3>3, <3>6 DEF CloseCircuit, TransitionTo
    <3>7. CASE LateResult(c)
      BY <3>1, <3>2, <3>3, <3>7 DEF LateResult, Count
    <3>8. QED
      BY <2>7, <3>4, <3>5, <3>6, <3>7 DEF Succeed, OnSuccess
  <2>8. ASSUME NEW c \in Callers, Fail(c)
        PROVE  TypeOK'
    <3>1. recent' \in Seq(BOOLEAN)
      BY <2>8, SlideType DEF Fail
    <3>2. pc' \in [Callers -> {"idle", "admitted", "running"}]
      BY <2>8 DEF Fail, Move
    <3>3. CASE FailClosed(c)
      BY <3>1, <3>2, <3>3 DEF FailClosed, Count, LastFailureAllowed
    <3>4. CASE OpenCircuit
      BY <3>1, <3>2, <3>4 DEF OpenCircuit, TransitionTo
    <3>5. CASE LateResult(c) /\ UNCHANGED elapsed
      BY <3>1, <3>2, <3>5 DEF LateResult, Count
    <3>6. QED
      BY <2>8, <3>3, <3>4, <3>5 DEF Fail, OnFailure
  <2>9. CASE UNCHANGED vars
    BY <2>9 DEF vars
  <2>10. QED
    BY <2>1, <2>2, <2>3, <2>4, <2>5, <2>6, <2>7, <2>8, <2>9 DEF Next
<1>3. QED
  BY <1>1, <1>2, PTL DEF Spec

------------------------------------------------------------------------------
(* Adding and removing one caller moves the size of a set by at most one. *)
LEMMA OneCaller ==
    ASSUME BreakerAssumption, NEW S \in SUBSET Callers, NEW c \in Callers
    PROVE  /\ Cardinality(S) \in Nat
           /\ c \notin S => Cardinality(S \cup {c}) = Cardinality(S) + 1
           /\ c \in S => Cardinality(S \ {c}) = Cardinality(S) - 1
           /\ c \notin S => Cardinality(S \ {c}) = Cardinality(S)
           /\ Cardinality({c}) = 1
<1>1. IsFiniteSet(S)
  BY FS_Subset DEF BreakerAssumption
<1>2. QED
  BY <1>1, FS_CardinalityType, FS_AddElement, FS_RemoveElement, FS_Singleton

LEMMA NoCaller == Cardinality({}) = 0
BY FS_EmptySet

(* The inductive invariant, one lemma per operation.  TypeOK gives the     *)
(* ranges; SlotInv relates slots, calls under way and results.             *)
IInv == TypeOK /\ SlotInv

LEMMA AllowKeepsSlots ==
    ASSUME BreakerAssumption, IInv, NEW c \in Callers, Allow(c)
    PROVE  SlotInv'
<1> USE DEF IInv, TypeOK, States, Stages
<1>1. /\ pc[c] = "idle"
      /\ pc' = [pc EXCEPT ![c] = "admitted"]
      /\ elapsed' = elapsed
  BY DEF Allow, Move
<1>2. c \notin fresh
  BY <1>1 DEF SlotInv, InFlight
<1>3. fresh \cup {c} \subseteq InFlight' /\ {c} \subseteq InFlight'
  BY <1>1 DEF SlotInv, InFlight
<1>4. CASE AdmitClosed(c)
  BY <1>1, <1>3, <1>4
     DEF AdmitClosed, SlotInv, CountersByState, SlotsAccountedFor, QuietWhileOpen, cbVars
<1>5. CASE AdmitProbe(c)
  <2>1. Cardinality({c}) = 1
    BY OneCaller
  <2>2. QED
    BY <1>1, <1>3, <1>5, <2>1
       DEF AdmitProbe, TransitionTo, SlotInv, CountersByState, SlotsAccountedFor, QuietWhileOpen
<1>6. CASE AdmitHalfOpen(c)
  <2>1. /\ Cardinality(fresh) \in Nat
        /\ Cardinality(fresh \cup {c}) = Cardinality(fresh) + 1
    BY <1>2, OneCaller
  <2>2. QED
    BY <1>1, <1>3, <1>6, <2>1
       DEF AdmitHalfOpen, SlotInv, CountersByState, SlotsAccountedFor, QuietWhileOpen
<1>7. QED
  BY <1>4, <1>5, <1>6 DEF Allow

LEMMA AbandonKeepsSlots ==
    ASSUME BreakerAssumption, IInv, NEW c \in Callers, Abandon(c)
    PROVE  SlotInv'
<1> USE DEF IInv, TypeOK, States, Stages
<1>1. /\ pc' = [pc EXCEPT ![c] = "idle"]
      /\ fresh' = fresh \ {c}
      /\ lost' = IF state = "halfOpen" /\ c \in fresh THEN lost + 1 ELSE lost
      /\ UNCHANGED <<cbVars, elapsed, openFor>>
  BY DEF Abandon, Move
<1>2. fresh' \subseteq InFlight'
  BY <1>1 DEF SlotInv, InFlight
<1>3. /\ Cardinality(fresh) \in Nat
      /\ c \in fresh => Cardinality(fresh') = Cardinality(fresh) - 1
      /\ c \notin fresh => Cardinality(fresh') = Cardinality(fresh)
  BY <1>1, OneCaller
<1>4. CountersByState' /\ QuietWhileOpen'
  BY <1>1 DEF SlotInv, CountersByState, QuietWhileOpen, cbVars
<1>5. SlotsAccountedFor'
  BY <1>1, <1>3 DEF SlotInv, SlotsAccountedFor, cbVars
<1>6. QED
  BY <1>1, <1>2, <1>4, <1>5 DEF SlotInv, cbVars

(* A result takes one call out of flight; if it is a success it is counted *)
(* before it is forgotten.                                                 *)
LEMMA ResultKeepsSlots ==
    ASSUME BreakerAssumption, IInv, NEW c \in Callers, Succeed(c) \/ Fail(c)
    PROVE  SlotInv'
<1> USE DEF IInv, TypeOK, States, Stages
<1>1. pc' = [pc EXCEPT ![c] = "idle"]
  BY DEF Succeed, Fail, Move
<1>2. fresh' = fresh \ {c} => fresh' \subseteq InFlight'
  BY <1>1 DEF SlotInv, InFlight
<1>3. /\ Cardinality(fresh) \in Nat
      /\ c \in fresh => Cardinality(fresh \ {c}) = Cardinality(fresh) - 1
      /\ c \notin fresh => Cardinality(fresh \ {c}) = Cardinality(fresh)
  BY OneCaller
<1> USE DEF SlotInv, CountersByState, SlotsAccountedFor, QuietWhileOpen
<1>4. CASE SucceedClosed(c) /\ UNCHANGED elapsed
  BY <1>2, <1>4 DEF SucceedClosed, Count
<1>5. CASE SucceedHalfOpen(c) /\ UNCHANGED elapsed
  BY <1>2, <1>3, <1>5 DEF SucceedHalfOpen, Count
<1>6. CASE CloseCircuit
  BY <1>6 DEF CloseCircuit, TransitionTo
<1>7. CASE LateResult(c) /\ UNCHANGED elapsed
  BY <1>2, <1>7 DEF LateResult, Count
<1>8. CASE FailClosed(c)
  BY <1>2, <1>8 DEF FailClosed, Count
<1>9. CASE OpenCircuit
  BY <1>9 DEF OpenCircuit, TransitionTo
<1>10. QED
  BY <1>4, <1>5, <1>6, <1>7, <1>8, <1>9 DEF Succeed, Fail, OnSuccess, OnFailure

(* Slots, calls and counters agree in every reachable state: what is not   *)
(* held by a call under way was spent on a success or lost by a call that  *)
(* ended without a result, and no call was let through an open breaker.    *)
THEOREM SlotsCorrect == Spec => []SlotInv
<1>1. Init => IInv
  <2> SUFFICES ASSUME Init PROVE IInv
    OBVIOUS
  <2>1. TypeOK
    BY BreakerAssumption DEF Init, TypeOK, States, Stages, BreakerAssumption
  <2>2. SlotInv
    BY DEF Init, SlotInv, CountersByState, SlotsAccountedFor, QuietWhileOpen, InFlight
  <2>3. QED
    BY <2>1, <2>2 DEF IInv
<1>2. IInv /\ TypeOK' /\ [Next]_vars => IInv'
  <2> SUFFICES ASSUME IInv, TypeOK', [Next]_vars
               PROVE  SlotInv'
    BY DEF IInv
  <2> USE BreakerAssumption
  <2>1. CASE Tick
    BY <2>1 DEF Tick, Later, cbVars, IInv, TypeOK, SlotInv, CountersByState,
                SlotsAccountedFor, QuietWhileOpen, InFlight
  <2>2. CASE Reset
    BY <2>2 DEF Reset, SlotInv, CountersByState, SlotsAccountedFor, QuietWhileOpen
  <2>3. ASSUME NEW c \in Callers, Allow(c) \/ Abandon(c) \/ Succeed(c) \/ Fail(c)
        PROVE  SlotInv'
    BY <2>3, AllowKeepsSlots, AbandonKeepsSlots, ResultKeepsSlots
  <2>4. ASSUME NEW c \in Callers, Start(c)
        PROVE  SlotInv'
    <3>1. fresh' \subseteq InFlight'
      BY <2>4 DEF Start, Move, IInv, TypeOK, Stages, SlotInv, InFlight
    <3>2. QED
      BY <2>4, <3>1 DEF Start, cbVars, IInv, SlotInv, CountersByState,
                        SlotsAccountedFor, QuietWhileOpen
  <2>5. CASE UNCHANGED vars
    BY <2>5 DEF vars, IInv, SlotInv, CountersByState, SlotsAccountedFor,
                QuietWhileOpen, InFlight
  <2>6. QED
    BY <2>1, <2>2, <2>3, <2>4, <2>5 DEF Next, Refuse
<1>3. IInv => SlotInv
  BY DEF IInv
<1>4. QED
  BY <1>1, <1>2, <1>3, TypeCorrect, PTL DEF Spec

(* "MaxRequests is the max requests allowed in half-open state": no more   *)
(* calls of one half-open period than that are under way at once.          *)
THEOREM HalfOpenBounded == Spec => []ProbesBounded
<1>1. TypeOK /\ SlotInv => ProbesBounded
  <2> SUFFICES ASSUME TypeOK, SlotInv, state = "halfOpen"
               PROVE  Cardinality(fresh) <= MaxRequests
    BY DEF ProbesBounded
  <2>1. Cardinality(fresh) \in Nat
    BY FS_Subset, FS_CardinalityType, BreakerAssumption DEF BreakerAssumption, TypeOK
  <2>2. QED
    BY <2>1, BreakerAssumption
       DEF BreakerAssumption, TypeOK, SlotInv, SlotsAccountedFor
<1>2. QED
  BY <1>1, TypeCorrect, SlotsCorrect, PTL

(* With no call lost and MaxRequests >= SuccessThreshold, a half-open      *)
(* breaker whose probes have all reported lets the next call through: the  *)
(* only ways to be stuck half-open are the two that are excluded.          *)
THEOREM NeverStuckUnlessLost == Spec => []RoomUnlessLost
<1>1. TypeOK /\ SlotInv => RoomUnlessLost
  BY BreakerAssumption, NoCaller
     DEF BreakerAssumption, TypeOK, SlotInv, SlotsAccountedFor, RoomUnlessLost,
         Refused, SlotFree
<1>2. QED
  BY <1>1, TypeCorrect, SlotsCorrect, PTL

------------------------------------------------------------------------------
(* The only step out of the open state into half-open is a call let        *)
(* through after the timeout, and while the breaker is open lastFailure is *)
(* the moment it opened, because late results do not move it.              *)
THEOREM OpenHeld == Spec => OpenLastsTimeout
<1>1. TypeOK /\ SlotInv /\ [Next]_vars
        => [state = "open" /\ state' = "halfOpen" => openFor = Timeout]_vars
  <2> SUFFICES ASSUME TypeOK, SlotInv, Next, state = "open", state' = "halfOpen"
               PROVE  openFor = Timeout
    BY DEF vars
  <2> USE BreakerAssumption DEF BreakerAssumption
  <2>1. PICK c \in Callers : Allow(c)
    BY DEF Next, Tick, Reset, Refuse, Start, Abandon, Succeed, Fail, OnSuccess,
           OnFailure, SucceedClosed, SucceedHalfOpen, CloseCircuit, LateResult,
           FailClosed, OpenCircuit, OpensOnFailure, TransitionTo, Count, cbVars, vars
  <2>2. elapsed >= Timeout
    BY <2>1 DEF Allow, AdmitClosed, AdmitProbe, AdmitHalfOpen, TimeoutOver
  <2>3. QED
    BY <2>2 DEF TypeOK, SlotInv
<1>2. QED
  BY <1>1, TypeCorrect, SlotsCorrect, PTL DEF Spec, OpenLastsTimeout

(* The refinement: every operation of the breaker is a step of the         *)
(* contract, or changes nothing the contract speaks of.                    *)
LEMMA StepImplementsContract ==
    ASSUME BreakerAssumption, TypeOK, TypeOK', SlotInv, [Next]_vars
    PROVE  [Contract!ContractNext]_(Contract!contractVars)
<1> USE DEF Contract!ContractNext, Contract!contractVars
<1> USE BreakerAssumption DEF BreakerAssumption, TypeOK, States, Stages, InFlight
<1>1. CASE Tick
  BY <1>1 DEF Tick, Later, cbVars, Contract!Rest
<1>2. CASE Reset
  BY <1>2 DEF Reset, Contract!ForceClose
<1>3. ASSUME NEW c \in Callers, Allow(c)
      PROVE  Contract!Admit(c) \/ Contract!Probe(c)
  <2>1. c \notin InFlight /\ InFlight' = InFlight \cup {c}
    BY <1>3 DEF Allow, Move
  <2>2. CASE AdmitClosed(c)
    BY <2>1, <2>2 DEF AdmitClosed, cbVars, Contract!Admit
  <2>3. CASE AdmitProbe(c)
    BY <2>1, <2>3 DEF AdmitProbe, TimeoutOver, TransitionTo, SlotInv, Contract!Probe
  <2>4. CASE AdmitHalfOpen(c)
    BY <2>1, <2>4 DEF AdmitHalfOpen, Contract!Admit
  <2>5. QED
    BY <1>3, <2>2, <2>3, <2>4 DEF Allow
<1>4. ASSUME NEW c \in Callers, Start(c)
      PROVE  UNCHANGED Contract!contractVars
  <2>1. InFlight' = InFlight
    BY <1>4 DEF Start, Move
  <2>2. QED
    BY <1>4, <2>1 DEF Start, cbVars
<1>5. ASSUME NEW c \in Callers, Abandon(c)
      PROVE  Contract!Settle(c)
  <2>1. c \in InFlight /\ InFlight' = InFlight \ {c}
    BY <1>5 DEF Abandon, Move
  <2>2. QED
    BY <1>5, <2>1 DEF Abandon, cbVars, Contract!Settle
<1>6. ASSUME NEW c \in Callers, Succeed(c)
      PROVE  Contract!Settle(c) \/ Contract!Close(c)
  <2>1. c \in InFlight /\ InFlight' = InFlight \ {c}
    BY <1>6 DEF Succeed, Move
  <2>2. CASE SucceedClosed(c) \/ SucceedHalfOpen(c) \/ LateResult(c)
    BY <2>1, <2>2 DEF SucceedClosed, SucceedHalfOpen, LateResult, Count, Contract!Settle
  <2>3. CASE CloseCircuit
    BY <2>1, <2>3 DEF CloseCircuit, TransitionTo, Contract!Close
  <2>4. QED
    BY <1>6, <2>2, <2>3 DEF Succeed, OnSuccess
<1>7. ASSUME NEW c \in Callers, Fail(c)
      PROVE  Contract!Settle(c) \/ Contract!Trip(c)
  <2>1. c \in InFlight /\ InFlight' = InFlight \ {c}
    BY <1>7 DEF Fail, Move
  <2>2. CASE FailClosed(c) \/ LateResult(c)
    BY <2>1, <2>2 DEF FailClosed, LateResult, Count, Contract!Settle
  <2>3. CASE OpenCircuit
    BY <2>1, <2>3 DEF OpenCircuit, OpensOnFailure, TransitionTo, Contract!Trip
  <2>4. QED
    BY <1>7, <2>2, <2>3 DEF Fail, OnFailure
<1>8. CASE UNCHANGED vars
  BY <1>8 DEF vars
<1>9. QED
  BY <1>1, <1>2, <1>3, <1>4, <1>5, <1>6, <1>7, <1>8 DEF Next, Refuse

THEOREM BreakerImplementsContract == Spec => ImplementsContract
<1>1. Init => Contract!ContractInit
  BY BreakerAssumption DEF Init, Contract!ContractInit, InFlight, BreakerAssumption
<1>2. TypeOK /\ TypeOK' /\ SlotInv /\ [Next]_vars
        => [Contract!ContractNext]_(Contract!contractVars)
  BY StepImplementsContract, BreakerAssumption
<1>3. QED
  BY <1>1, <1>2, TypeCorrect, SlotsCorrect, PTL
     DEF Spec, ImplementsContract, Contract!ContractSpec

------------------------------------------------------------------------------
(* A run of n equal results grows by one when one more of them comes in,   *)
(* as long as the window has room for it.                                  *)
LEMMA RunGrows ==
    ASSUME BreakerAssumption, NEW w \in Seq(BOOLEAN), NEW r \in BOOLEAN,
           NEW n \in 0 .. Window - 1, AllLast(w, n, r)
    PROVE  AllLast(Slide(w, r), n + 1, r)
<1>1. Window \in Nat /\ Window > 0
  BY DEF Window, BreakerAssumption
<1>2. CASE Len(w) < Window
  BY <1>1, <1>2 DEF AllLast, Slide
<1>3. CASE ~(Len(w) < Window)
  <2>1. w # <<>>
    BY <1>1, <1>3
  <2>2. /\ Tail(w) \in Seq(BOOLEAN)
        /\ Len(Tail(w)) = Len(w) - 1
        /\ \A i \in 1 .. Len(w) - 1 : Tail(w)[i] = w[i + 1]
    BY <2>1
  <2>3. Slide(w, r) = Append(Tail(w), r)
    BY <1>3 DEF Slide
  <2>4. /\ Len(Slide(w, r)) = Len(w)
        /\ Slide(w, r)[Len(w)] = r
        /\ \A i \in 1 .. Len(w) - 1 : Slide(w, r)[i] = w[i + 1]
    BY <2>2, <2>3
  <2>5. ASSUME NEW i \in (Len(w) - n) .. Len(w)
        PROVE  Slide(w, r)[i] = r
    BY <1>1, <1>3, <2>4 DEF AllLast
  <2>6. QED
    BY <1>1, <1>3, <2>4, <2>5 DEF AllLast
<1>4. QED
  BY <1>2, <1>3

LEMMA NoRun == ASSUME NEW w \in Seq(BOOLEAN), NEW r PROVE AllLast(w, 0, r)
BY DEF AllLast

(* The counters are what the results say: the failures of a closed breaker *)
(* and the successes of a half-open one are its latest results, without a  *)
(* break.                                                                  *)
CountersAreRuns ==
    /\ state = "closed" => AllLast(recent, failures, FALSE)
    /\ state = "halfOpen" => AllLast(recent, successes, TRUE)

Earned ==
    /\ state = "closed" /\ state' = "open" => AllLast(recent', FailureThreshold, FALSE)
    /\ state = "halfOpen" /\ state' = "closed"
        => Reset \/ AllLast(recent', SuccessThreshold, TRUE)
    /\ state = "halfOpen" /\ state' = "open" => AllLast(recent', 1, FALSE)

LEMMA RunsStep ==
    ASSUME BreakerAssumption, TypeOK, TypeOK', CountersAreRuns, [Next]_vars
    PROVE  CountersAreRuns' /\ (UNCHANGED vars \/ Earned)
<1> USE BreakerAssumption DEF BreakerAssumption
<1>0. /\ Window \in Nat
      /\ FailureThreshold <= Window
      /\ SuccessThreshold <= Window
  BY DEF Window
<1>1. CASE UNCHANGED vars
  BY <1>1 DEF vars, CountersAreRuns
<1>2. CASE Tick
  BY <1>2 DEF Tick, cbVars, CountersAreRuns, Earned
<1>3. CASE Reset
  BY <1>3, NoRun DEF Reset, TypeOK, CountersAreRuns, Earned
<1>4. ASSUME NEW c \in Callers, Allow(c) PROVE CountersAreRuns' /\ Earned
  BY <1>4, NoRun DEF Allow, AdmitClosed, AdmitProbe, AdmitHalfOpen, TransitionTo,
                     cbVars, TypeOK, CountersAreRuns, Earned
<1>5. ASSUME NEW c \in Callers, Start(c) \/ Abandon(c) PROVE CountersAreRuns' /\ Earned
  BY <1>5 DEF Start, Abandon, cbVars, CountersAreRuns, Earned
<1>6. ASSUME NEW c \in Callers, Succeed(c) PROVE CountersAreRuns' /\ Earned
  <2>1. recent' = Slide(recent, TRUE) /\ OnSuccess(c)
    BY <1>6 DEF Succeed
  <2>2. ASSUME state = "halfOpen" PROVE AllLast(recent', successes + 1, TRUE)
    <3>1. successes \in 0 .. Window - 1 /\ recent \in Seq(BOOLEAN)
      BY <1>0 DEF TypeOK
    <3>2. AllLast(recent, successes, TRUE)
      BY <2>2 DEF CountersAreRuns
    <3>3. QED
      BY <2>1, <3>1, <3>2, RunGrows
  <2>3. AllLast(recent', 0, FALSE)
    BY NoRun DEF TypeOK
  <2>4. CASE SucceedClosed(c)
    BY <2>3, <2>4 DEF SucceedClosed, Count, CountersAreRuns, Earned
  <2>5. CASE SucceedHalfOpen(c)
    BY <2>2, <2>5 DEF SucceedHalfOpen, Count, CountersAreRuns, Earned
  <2>6. CASE CloseCircuit
    <3>1. successes + 1 = SuccessThreshold
      BY <2>6 DEF CloseCircuit, LastSuccessNeeded, TypeOK
    <3>2. QED
      BY <2>2, <2>3, <2>6, <3>1 DEF CloseCircuit, TransitionTo, CountersAreRuns, Earned
  <2>7. CASE LateResult(c)
    BY <2>7 DEF LateResult, Count, CountersAreRuns, Earned
  <2>8. QED
    BY <2>1, <2>4, <2>5, <2>6, <2>7 DEF OnSuccess
<1>7. ASSUME NEW c \in Callers, Fail(c) PROVE CountersAreRuns' /\ Earned
  <2>1. recent' = Slide(recent, FALSE) /\ OnFailure(c)
    BY <1>7 DEF Fail
  <2>2. ASSUME state = "closed" PROVE AllLast(recent', failures + 1, FALSE)
    <3>1. failures \in 0 .. Window - 1 /\ recent \in Seq(BOOLEAN)
      BY <1>0 DEF TypeOK
    <3>2. AllLast(recent, failures, FALSE)
      BY <2>2 DEF CountersAreRuns
    <3>3. QED
      BY <2>1, <3>1, <3>2, RunGrows
  <2>3. AllLast(recent', 1, FALSE)
    <3>1. 0 \in 0 .. Window - 1 /\ recent \in Seq(BOOLEAN)
      BY <1>0 DEF TypeOK
    <3>2. AllLast(Slide(recent, FALSE), 0 + 1, FALSE)
      <4>1. AllLast(recent, 0, FALSE)
        BY <3>1, NoRun
      <4>2. QED
        BY <3>1, <4>1, RunGrows
    <3>3. 0 + 1 = 1
      OBVIOUS
    <3>4. QED
      BY <2>1, <3>2, <3>3
  <2>4. CASE FailClosed(c)
    BY <2>2, <2>4 DEF FailClosed, Count, CountersAreRuns, Earned
  <2>5. CASE OpenCircuit
    <3>1. state = "closed" => failures + 1 = FailureThreshold
      BY <2>5 DEF OpenCircuit, OpensOnFailure, LastFailureAllowed, TypeOK
    <3>2. QED
      BY <2>2, <2>3, <2>5, <3>1 DEF OpenCircuit, TransitionTo, CountersAreRuns, Earned
  <2>6. CASE LateResult(c)
    BY <2>6 DEF LateResult, Count, CountersAreRuns, Earned
  <2>7. QED
    BY <2>1, <2>4, <2>5, <2>6 DEF OnFailure
<1>8. QED
  BY <1>1, <1>2, <1>3, <1>4, <1>5, <1>6, <1>7 DEF Next, Refuse

(* Every transition is earned by the results before it: FailureThreshold   *)
(* failures in a row open the breaker, SuccessThreshold successes in a row *)
(* close it, whatever results of other callers and of earlier periods are  *)
(* recorded between.                                                       *)
THEOREM TransitionsEarned == Spec => TransitionsAreEarned
<1>1. Init => CountersAreRuns
  <2>1. <<>> \in Seq(BOOLEAN)
    OBVIOUS
  <2>2. AllLast(<<>>, 0, FALSE)
    BY <2>1, NoRun
  <2>3. QED
    BY <2>2 DEF Init, CountersAreRuns
<1>2. TypeOK /\ TypeOK' /\ CountersAreRuns /\ [Next]_vars => CountersAreRuns'
  BY RunsStep, BreakerAssumption
<1>3. TypeOK /\ TypeOK' /\ CountersAreRuns /\ [Next]_vars => [Earned]_vars
  BY RunsStep, BreakerAssumption
<1>4. QED
  BY <1>1, <1>2, <1>3, TypeCorrect, PTL DEF Spec, TransitionsAreEarned, Earned

------------------------------------------------------------------------------
(* The client only decides when the operations of the breaker are called.  *)
LEMMA ClientStepIsBreakerStep == [ClientNext]_clientVars => [Next]_vars
BY DEF ClientNext, clientVars, Next, Enter, TurnAway, Send, Leave, Respond,
       FailAttempt, ContextDone

(* Every behaviour of the client is one of the breaker, so all that is     *)
(* proved of the breaker holds under the retry loop.                       *)
THEOREM ClientRefinesBreaker == ClientSpec => Spec
<1>1. ClientInit => Init
  BY DEF ClientInit
<1>2. QED
  BY <1>1, ClientStepIsBreakerStep, PTL DEF ClientSpec, Spec

(* What the run of the client checks of the breaker, for the client.       *)
THEOREM ClientKeepsPromises ==
    ClientSpec => /\ []ProbesBounded
                  /\ []RoomUnlessLost
                  /\ TransitionsAreEarned
                  /\ ImplementsContract
BY ClientRefinesBreaker, HalfOpenBounded, NeverStuckUnlessLost, TransitionsEarned,
   BreakerImplementsContract

(* Attempts let through that have not sent their request yet. *)
Unsent == {c \in Callers : pc[c] = "admitted"}

(* What may still be sent behind the open breaker, with what was sent.     *)
UnsentBounded ==
    /\ sent \in Nat
    /\ state = "open" => sent + Cardinality(Unsent) <= Cardinality(Callers) - 1

LEMMA UnsentStep ==
    ASSUME BreakerAssumption, TypeOK, UnsentBounded, [ClientNext]_clientVars
    PROVE  UnsentBounded'
<1> USE BreakerAssumption DEF UnsentBounded
<1>1. /\ Unsent \in SUBSET Callers
      /\ Cardinality(Unsent) \in Nat
      /\ \A c \in Unsent : Cardinality(Unsent \ {c}) = Cardinality(Unsent) - 1
  <2>1. Unsent \in SUBSET Callers
    BY DEF Unsent
  <2>2. IsFiniteSet(Unsent)
    BY <2>1, FS_Subset
  <2>3. QED
    BY <2>1, <2>2, FS_RemoveElement, FS_CardinalityType
<1>2. ASSUME Sends(0), state' = "open", state = "open", Unsent' \subseteq Unsent
      PROVE  UnsentBounded'
  <2>1. IsFiniteSet(Unsent)
    BY <1>1, FS_Subset DEF BreakerAssumption
  <2>2. Cardinality(Unsent') <= Cardinality(Unsent) /\ Cardinality(Unsent') \in Nat
    BY <1>2, <2>1, FS_Subset, FS_CardinalityType
  <2>3. sent' = sent
    BY <1>2 DEF Sends
  <2>4. Cardinality(Callers) \in Nat
    BY FS_CardinalityType
  <2>5. QED
    BY <1>1, <1>2, <2>2, <2>3, <2>4
<1>3. ASSUME state' # "open", NEW n \in Nat, Sends(n) PROVE UnsentBounded'
  BY <1>3 DEF Sends
<1>4. CASE UNCHANGED clientVars
  BY <1>4 DEF clientVars, vars, Unsent
<1>5. CASE Tick /\ Quiet
  BY <1>2, <1>3, <1>5 DEF Tick, Quiet, cbVars, Unsent, TypeOK, States
<1>6. CASE Reset /\ Quiet
  BY <1>3, <1>6 DEF Reset, Quiet
<1>7. ASSUME NEW c \in Callers, Enter(c) PROVE UnsentBounded'
  BY <1>3, <1>7 DEF Enter, Allow, AdmitClosed, AdmitProbe, AdmitHalfOpen, TransitionTo, cbVars
<1>8. ASSUME NEW c \in Callers, TurnAway(c) PROVE UnsentBounded'
  BY <1>2, <1>3, <1>8 DEF TurnAway, Refuse, vars, Unsent
<1>9. ASSUME NEW c \in Callers, Send(c) PROVE UnsentBounded'
  <2>1. c \in Unsent /\ Unsent' = Unsent \ {c} /\ state' = state /\ Sends(1)
    BY <1>9 DEF Send, Start, Move, Unsent, cbVars, TypeOK
  <2>2. QED
    BY <1>1, <1>3, <2>1 DEF Sends
<1>10. ASSUME NEW c \in Callers, Leave(c) PROVE UnsentBounded'
  <2>1. Unsent' \subseteq Unsent /\ state' = state /\ Sends(0)
    BY <1>10 DEF Leave, Abandon, Move, Unsent, cbVars, TypeOK
  <2>2. QED
    BY <1>2, <1>3, <2>1
<1>11. ASSUME NEW c \in Callers, Respond(c) PROVE UnsentBounded'
  <2>1. Unsent' \subseteq Unsent /\ Sends(0)
    BY <1>11 DEF Respond, Succeed, Move, Unsent, TypeOK
  <2>2. state' = "open" => state = "open"
    BY <1>11 DEF Respond, Succeed, OnSuccess, SucceedClosed, SucceedHalfOpen,
                 CloseCircuit, LateResult, TransitionTo, Count
  <2>3. QED
    BY <1>2, <1>3, <2>1, <2>2
<1>12. ASSUME NEW c \in Callers, FailAttempt(c) PROVE UnsentBounded'
  <2>1. Unsent' \subseteq Unsent /\ c \notin Unsent' /\ Sends(0)
    BY <1>12 DEF FailAttempt, Fail, Move, Unsent, TypeOK
  <2>2. CASE state = "open" \/ state' # "open"
    BY <1>2, <1>3, <2>1, <2>2
  <2>3. CASE state # "open" /\ state' = "open"
    <3>1. Unsent' \in SUBSET (Callers \ {c})
      BY <2>1 DEF Unsent
    <3>2. /\ IsFiniteSet(Callers \ {c})
          /\ Cardinality(Callers \ {c}) = Cardinality(Callers) - 1
      BY FS_RemoveElement DEF BreakerAssumption
    <3>3. Cardinality(Unsent') <= Cardinality(Callers) - 1
      BY <3>1, <3>2, FS_Subset
    <3>4. Cardinality(Unsent') \in Nat /\ Cardinality(Callers) \in Nat
      BY <3>1, <3>2, FS_Subset, FS_CardinalityType DEF BreakerAssumption
    <3>5. QED
      BY <2>1, <2>3, <3>3, <3>4 DEF Sends
  <2>4. QED
    BY <2>2, <2>3
<1>13. ASSUME NEW c \in Callers, ContextDone(c) PROVE UnsentBounded'
  BY <1>13 DEF ContextDone, vars, Unsent
<1>14. QED
  BY <1>4, <1>5, <1>6, <1>7, <1>8, <1>9, <1>10, <1>11, <1>12, <1>13 DEF ClientNext

(* Of each call at most one request reaches a service behind the open      *)
(* breaker, and none of the call that opened it: each attempt asks the     *)
(* breaker, and what it let through earlier is all there is left to send.  *)
THEOREM OpenServiceIsSpared == ClientSpec => []OpenIsQuiet
<1>1. ClientInit => UnsentBounded
  BY DEF ClientInit, Init, UnsentBounded
<1>2. TypeOK /\ UnsentBounded /\ [ClientNext]_clientVars => UnsentBounded'
  BY UnsentStep, BreakerAssumption
<1>3. UnsentBounded => OpenIsQuiet
  <2>1. Cardinality(Unsent) \in Nat /\ Cardinality(Callers) \in Nat
    BY OneCaller, FS_CardinalityType, BreakerAssumption DEF Unsent, BreakerAssumption
  <2>2. QED
    BY <2>1 DEF UnsentBounded, OpenIsQuiet
<1>4. ClientSpec => []TypeOK
  BY ClientRefinesBreaker, TypeCorrect
<1>5. QED
  BY <1>1, <1>2, <1>3, <1>4, PTL DEF ClientSpec

===============================================================================
