----------------------- MODULE ServiceBusConsumer_proofs -----------------------
(* Proofs about ServiceBusConsumer, for any consumers, messages and limits. *)
EXTENDS ServiceBusConsumer, FiniteSetTheorems, TLAPS

USE ConsumerAssumption DEF ConsumerAssumption

(* sem without its bounds: SlotsCounted gives them. *)
Ranges ==
    /\ status \in [Messages -> {"unsent", "scheduled", "queued", "locked"} \cup Settled]
    /\ attempts \in [Messages -> 0 .. MaxDeliveries]
    /\ pc \in [Consumers -> {"checking", "receiving", "dispatching", "returned", "down"}]
    /\ batch \in [Consumers -> SUBSET Deliveries]
    /\ handling \in [Consumers -> SUBSET Deliveries]
    /\ settling \in [Consumers -> SUBSET Deliveries]
    /\ sem \in [Consumers -> Int]
    /\ cancelled \in [Consumers -> BOOLEAN]
    /\ worked \in SUBSET Deliveries
    /\ expired \in BOOLEAN

(* A message is delivered only after it is queued, and queued only while   *)
(* the broker may deliver it again; a consumer holds only deliveries that  *)
(* were made.                                                              *)
Numbered ==
    /\ \A m \in Messages : status[m] \in {"unsent", "scheduled"} => attempts[m] = 0
    /\ \A m \in Messages : status[m] = "queued" => attempts[m] < MaxDeliveries
    /\ \A c \in Consumers : \A d \in InHand(c) : d[2] <= attempts[d[1]]

(* The loop and its goroutines hold different deliveries. *)
Apart ==
    \A c \in Consumers :
        /\ batch[c] \cap handling[c] = {}
        /\ batch[c] \cap settling[c] = {}
        /\ handling[c] \cap settling[c] = {}

IInv == Ranges /\ Numbered /\ Apart /\ SlotsCounted /\ NothingLost

(* What happens to a message before consumers can receive it. *)
Publishes(m) == Send(m) \/ ScheduleMessage(m) \/ CancelScheduledMessage(m) \/ BecomesDue(m)

LEMMA DeliveriesFinite == IsFiniteSet(Deliveries)
<1>1. IsFiniteSet(1 .. MaxDeliveries)
    BY FS_Interval
<1> QED BY <1>1, FS_Product DEF Deliveries

LEMMA RunningFinite ==
    ASSUME Ranges, NEW c \in Consumers
    PROVE  IsFiniteSet(Running(c)) /\ Running(c) \subseteq Deliveries
<1>1. Running(c) \subseteq Deliveries
    BY DEF Ranges, Running
<1> QED BY <1>1, DeliveriesFinite, FS_Subset

LEMMA InitInv == Init => IInv
<1> SUFFICES ASSUME Init PROVE IInv
    OBVIOUS
<1>1. Ranges
  <2>1. expired \in BOOLEAN
      BY Zenon DEF Init
  <2> QED BY <2>1 DEF Init, Ranges
<1>2. Numbered
    BY DEF Init, Numbered, InHand, Running
<1>3. Apart
    BY DEF Init, Apart
<1>4. SlotsCounted
    BY FS_EmptySet DEF Init, SlotsCounted, Running
<1>5. NothingLost
    BY DEF Init, NothingLost
<1> QED BY <1>1, <1>2, <1>3, <1>4, <1>5 DEF IInv

LEMMA RangesStep == IInv /\ [Next]_vars => Ranges'
<1> SUFFICES ASSUME IInv, [Next]_vars PROVE Ranges'
    OBVIOUS
<1> USE DEF IInv, Ranges, Settled
<1>1. ASSUME NEW c \in Consumers, CheckContext(c) PROVE Ranges'
    BY <1>1 DEF CheckContext, broker, goroutines
<1>2. ASSUME NEW M \in SUBSET Messages, Deliver(M)
      PROVE  /\ status' \in [Messages -> {"unsent", "scheduled", "queued", "locked"} \cup Settled]
             /\ attempts' \in [Messages -> 0 .. MaxDeliveries]
             /\ \A m \in M : attempts'[m] \in 1 .. MaxDeliveries
  <2>1. ASSUME NEW m \in Messages PROVE attempts[m] + (IF m \in M THEN 1 ELSE 0) \in 0 .. MaxDeliveries
      BY <1>2 DEF Deliver, Numbered
  <2> QED BY <1>2, <2>1 DEF Deliver
<1>3. ASSUME NEW c \in Consumers, Receive(c) PROVE Ranges'
  <2>1. PICK M \in SUBSET Messages : Deliver(M) /\ batch' = [batch EXCEPT ![c] = {<<m, attempts'[m]>> : m \in M}]
      BY <1>3 DEF Receive
  <2>2. {<<m, attempts'[m]>> : m \in M} \subseteq Deliveries
      BY <1>2, <2>1 DEF Deliveries
  <2>3. batch' \in [Consumers -> SUBSET Deliveries]
      BY <2>1, <2>2
  <2> QED BY <1>2, <1>3, <2>1, <2>3 DEF Receive, goroutines
<1>4. ASSUME NEW c \in Consumers, ReceiveFails(c) PROVE Ranges'
    BY <1>2, <1>4 DEF ReceiveFails, broker, goroutines
<1>5. ASSUME NEW c \in Consumers, NextBatch(c) PROVE Ranges'
    BY <1>5 DEF NextBatch, broker, goroutines
<1>6. ASSUME NEW c \in Consumers, Cancel(c) PROVE Ranges'
    BY <1>6 DEF Cancel, broker, goroutines
<1>7. ASSUME NEW c \in Consumers, Crash(c) PROVE Ranges'
    BY <1>7 DEF Crash, broker
<1>8. ASSUME NEW c \in Consumers, NEW d \in Deliveries, Start(c, d) PROVE Ranges'
    BY <1>8 DEF Start, broker
<1>9. ASSUME NEW c \in Consumers, NEW d \in Deliveries, HandlerReturns(c, d) PROVE Ranges'
    BY <1>9 DEF HandlerReturns, broker
<1>10. ASSUME NEW c \in Consumers, NEW d \in Deliveries, HandlerDone(c, d) PROVE Ranges'
  <2>1. status' \in [Messages -> {"unsent", "scheduled", "queued", "locked"} \cup Settled]
      BY <1>10 DEF HandlerDone, Settle, Complete, Abandon, Requeued, Deliveries
  <2> QED BY <1>10, <2>1 DEF HandlerDone, Release
<1>11. ASSUME NEW m \in Messages, LockExpires(m) PROVE Ranges'
    BY <1>11 DEF LockExpires, Requeued, goroutines
<1>12. CASE UNCHANGED vars
    BY <1>12 DEF vars
<1>13. ASSUME NEW c \in Consumers, Restart(c) PROVE Ranges'
    BY <1>13 DEF Restart, broker, goroutines
<1>14. ASSUME NEW c \in Consumers, NEW d \in Deliveries, HandlerPutsAside(c, d) PROVE Ranges'
    BY <1>14 DEF HandlerPutsAside, DeadLetter, Defer, Settled, Deliveries, consuming, goroutines
<1>15. ASSUME NEW m \in Messages, Publishes(m) PROVE Ranges'
    BY <1>15 DEF Publishes, Send, ScheduleMessage, CancelScheduledMessage, BecomesDue, Settled,
                 consuming, goroutines
<1> QED BY <1>1, <1>3, <1>4, <1>5, <1>6, <1>7, <1>8, <1>9, <1>10, <1>11, <1>12, <1>13, <1>14, <1>15
        DEF Next, Publishes

(* The steps that take deliveries into hand number them, and the others    *)
(* add none.                                                               *)
LEMMA NumberedStep == IInv /\ [Next]_vars => Numbered'
<1> SUFFICES ASSUME IInv, [Next]_vars PROVE Numbered'
    OBVIOUS
<1> USE DEF IInv, Ranges, Numbered, InHand, Running
<1>1. ASSUME NEW c \in Consumers, CheckContext(c) PROVE Numbered'
    BY <1>1 DEF CheckContext, broker, goroutines
<1>2. ASSUME NEW M \in SUBSET Messages, Deliver(M)
      PROVE  \A m \in Messages : /\ attempts[m] <= attempts'[m]
                                 /\ status'[m] = "queued" => attempts'[m] < MaxDeliveries
                                 /\ status'[m] \in {"unsent", "scheduled"} => attempts'[m] = 0
    BY <1>2 DEF Deliver
<1>3. ASSUME NEW c \in Consumers, Receive(c) PROVE Numbered'
  <2>1. PICK M \in SUBSET Messages : Deliver(M) /\ batch' = [batch EXCEPT ![c] = {<<m, attempts'[m]>> : m \in M}]
      BY <1>3 DEF Receive
  <2>2. handling' = handling /\ settling' = settling
      BY <1>3 DEF Receive, goroutines
  <2>3. ASSUME NEW e \in Consumers, NEW d \in InHand(e)' PROVE d[2] <= attempts'[d[1]]
    <3>1. CASE d \in InHand(e)
      <4>1. d \in Deliveries
          BY <3>1
      <4>2. d[1] \in Messages /\ d[2] \in Int
          BY <4>1 DEF Deliveries
      <4>3. d[2] <= attempts[d[1]]
          BY <3>1
      <4>4. attempts[d[1]] <= attempts'[d[1]]
          BY <1>2, <2>1, <4>2
      <4>5. attempts[d[1]] \in Int /\ attempts'[d[1]] \in Int
          BY <4>2, RangesStep
      <4> QED BY <4>2, <4>3, <4>4, <4>5
    <3>2. CASE d \notin InHand(e)
      <4>1. d \in {<<m, attempts'[m]>> : m \in M}
          BY <2>1, <2>2, <2>3, <3>2
      <4>2. PICK m \in M : d = <<m, attempts'[m]>>
          BY <4>1
      <4>3. attempts'[m] \in Int
          BY RangesStep
      <4> QED BY <4>2, <4>3
    <3> QED BY <3>1, <3>2
  <2> QED BY <1>2, <2>1, <2>3
<1>4. ASSUME NEW c \in Consumers, ReceiveFails(c) PROVE Numbered'
  <2>1. \A m \in Messages : /\ attempts[m] <= attempts'[m]
                            /\ status'[m] = "queued" => attempts'[m] < MaxDeliveries
                            /\ status'[m] \in {"unsent", "scheduled"} => attempts'[m] = 0
    <3>1. CASE \E k \in Messages : Deliver({k})
      <4>1. PICK k \in Messages : Deliver({k})
          BY <3>1
      <4>2. {k} \in SUBSET Messages
          OBVIOUS
      <4> QED BY <1>2, <4>1, <4>2
    <3>2. CASE UNCHANGED broker
        BY <3>2 DEF broker
    <3> QED BY <1>4, <3>1, <3>2 DEF ReceiveFails
  <2>2. \A e \in Consumers : InHand(e)' = InHand(e)
      BY <1>4 DEF ReceiveFails, goroutines
  <2>3. attempts' \in [Messages -> 0 .. MaxDeliveries]
      BY RangesStep
  <2>4. ASSUME NEW e \in Consumers, NEW d \in InHand(e)' PROVE d[2] <= attempts'[d[1]]
    <3>1. d \in InHand(e)
        BY <2>2
    <3>2. d \in Deliveries
        BY <3>1
    <3>3. d[1] \in Messages /\ d[2] \in Int
        BY <3>2 DEF Deliveries
    <3>4. d[2] <= attempts[d[1]]
        BY <3>1
    <3> QED BY <2>1, <2>3, <3>3, <3>4
  <2> QED BY <2>1, <2>4
<1>5. ASSUME NEW c \in Consumers, NextBatch(c) PROVE Numbered'
    BY <1>5 DEF NextBatch, broker, goroutines
<1>6. ASSUME NEW c \in Consumers, Cancel(c) PROVE Numbered'
    BY <1>6 DEF Cancel, broker, goroutines
<1>7. ASSUME NEW c \in Consumers, Crash(c) PROVE Numbered'
    BY <1>7 DEF Crash, broker
<1>8. ASSUME NEW c \in Consumers, NEW d \in Deliveries, Start(c, d) PROVE Numbered'
    BY <1>8 DEF Start, broker
<1>9. ASSUME NEW c \in Consumers, NEW d \in Deliveries, HandlerReturns(c, d) PROVE Numbered'
    BY <1>9 DEF HandlerReturns, broker
<1>10. ASSUME NEW c \in Consumers, NEW d \in Deliveries, HandlerDone(c, d) PROVE Numbered'
  <2>1. \A m \in Messages :
            /\ status'[m] = "queued" => attempts[m] < MaxDeliveries
            /\ status'[m] \in {"unsent", "scheduled"} => attempts[m] = 0
      BY <1>10 DEF HandlerDone, Settle, Complete, Abandon, Requeued, Deliveries
  <2>2. \A e \in Consumers : InHand(e)' \subseteq InHand(e)
      BY <1>10 DEF HandlerDone
  <2>3. attempts' = attempts
      BY <1>10 DEF HandlerDone
  <2> QED BY <2>1, <2>2, <2>3
<1>11. ASSUME NEW m \in Messages, LockExpires(m) PROVE Numbered'
    BY <1>11 DEF LockExpires, Requeued, goroutines
<1>12. CASE UNCHANGED vars
    BY <1>12 DEF vars
<1>13. ASSUME NEW c \in Consumers, Restart(c) PROVE Numbered'
    BY <1>13 DEF Restart, broker, goroutines
<1>14. ASSUME NEW c \in Consumers, NEW d \in Deliveries, HandlerPutsAside(c, d) PROVE Numbered'
    BY <1>14 DEF HandlerPutsAside, DeadLetter, Defer, consuming, goroutines
<1>15. ASSUME NEW m \in Messages, Publishes(m) PROVE Numbered'
    BY <1>15 DEF Publishes, Send, ScheduleMessage, CancelScheduledMessage, BecomesDue,
                 consuming, goroutines
<1> QED BY <1>1, <1>3, <1>4, <1>5, <1>6, <1>7, <1>8, <1>9, <1>10, <1>11, <1>12, <1>13, <1>14, <1>15
        DEF Next, Publishes

(* A delivery is new to the loop when it is received, and moves on from    *)
(* the loop to the handler and to its settlement.                          *)
LEMMA ApartStep == IInv /\ [Next]_vars => Apart'
<1> SUFFICES ASSUME IInv, [Next]_vars PROVE Apart'
    OBVIOUS
<1> USE DEF IInv, Ranges, Apart
<1>1. ASSUME NEW c \in Consumers, Receive(c) PROVE Apart'
  <2>1. PICK M \in SUBSET Messages : Deliver(M) /\ batch' = [batch EXCEPT ![c] = {<<m, attempts'[m]>> : m \in M}]
      BY <1>1 DEF Receive
  <2>2. handling' = handling /\ settling' = settling
      BY <1>1 DEF Receive, goroutines
  <2>3. ASSUME NEW m \in M PROVE <<m, attempts'[m]>> \notin Running(c)
    <3>1. attempts'[m] = attempts[m] + 1
        BY <2>1 DEF Deliver
    <3>2. <<m, attempts'[m]>> \in Running(c) => attempts'[m] <= attempts[m]
        BY DEF Numbered, InHand
    <3> QED BY <3>1, <3>2
  <2>4. batch'[c] \cap Running(c) = {}
      BY <2>1, <2>3
  <2> QED BY <2>1, <2>2, <2>4 DEF Running
<1>2. ASSUME NEW c \in Consumers, Crash(c) PROVE Apart'
    BY <1>2 DEF Crash
<1>3. ASSUME NEW c \in Consumers, NEW d \in Deliveries, Start(c, d) PROVE Apart'
    BY <1>3 DEF Start
<1>4. ASSUME NEW c \in Consumers, NEW d \in Deliveries, HandlerReturns(c, d) PROVE Apart'
    BY <1>4 DEF HandlerReturns
<1>5. ASSUME NEW c \in Consumers, NEW d \in Deliveries, HandlerDone(c, d) PROVE Apart'
    BY <1>5 DEF HandlerDone
<1>6. CASE UNCHANGED <<batch, handling, settling>>
    BY <1>6
<1> QED BY <1>1, <1>2, <1>3, <1>4, <1>5, <1>6
        DEF Next, vars, CheckContext, ReceiveFails, NextBatch, Cancel, Restart, LockExpires, goroutines,
            HandlerPutsAside, Send, ScheduleMessage, CancelScheduledMessage, BecomesDue, consuming

(* A slot is taken with the goroutine that Start begins and given back     *)
(* with its end.                                                           *)
LEMMA SlotsStep == IInv /\ [Next]_vars => SlotsCounted'
<1> SUFFICES ASSUME IInv, [Next]_vars PROVE SlotsCounted'
    OBVIOUS
<1> USE DEF IInv, SlotsCounted
<1>1. ASSUME NEW c \in Consumers, NEW d \in Deliveries, Start(c, d) PROVE SlotsCounted'
  <2>1. \A e \in Consumers \ {c} : Running(e)' = Running(e) /\ sem'[e] = sem[e]
      BY <1>1 DEF Start, Ranges, Running
  <2>2. Running(c)' = Running(c) \cup {d} /\ d \notin Running(c)
      BY <1>1 DEF Start, Ranges, Running, Apart
  <2>3. Cardinality(Running(c)') = Cardinality(Running(c)) + 1
      BY <2>2, RunningFinite, FS_AddElement
  <2>4. sem'[c] = sem[c] + 1 /\ sem[c] < MaxConcurrent
      BY <1>1 DEF Start, HasSlot, Ranges
  <2>5. Cardinality(Running(c)) \in Nat
      BY RunningFinite, FS_CardinalityType
  <2> QED BY <2>1, <2>3, <2>4, <2>5
<1>2. ASSUME NEW c \in Consumers, NEW d \in Deliveries, HandlerDone(c, d) PROVE SlotsCounted'
  <2>1. \A e \in Consumers \ {c} : Running(e)' = Running(e) /\ sem'[e] = sem[e]
      BY <1>2 DEF HandlerDone, Release, Ranges, Running
  <2>2. Running(c)' = Running(c) \ {d} /\ d \in Running(c)
    <3>1. settling'[c] = settling[c] \ {d} /\ handling' = handling /\ d \in settling[c]
        BY <1>2 DEF HandlerDone, Ranges
    <3>2. d \notin handling[c]
        BY <3>1 DEF Apart
    <3> QED BY <3>1, <3>2 DEF Running
  <2>3. Cardinality(Running(c)') = Cardinality(Running(c)) - 1
    <3>1. IsFiniteSet(Running(c))
        BY RunningFinite
    <3>2. Cardinality(Running(c) \ {d}) = Cardinality(Running(c)) - 1
        BY <2>2, <3>1, FS_RemoveElement
    <3> QED BY <2>2, <3>2
  <2>4. sem'[c] = sem[c] - 1
      BY <1>2 DEF HandlerDone, Release, Ranges
  <2>5. Cardinality(Running(c)) \in Nat
      BY RunningFinite, FS_CardinalityType
  <2> QED BY <2>1, <2>3, <2>4, <2>5
<1>3. ASSUME NEW c \in Consumers, Crash(c) PROVE SlotsCounted'
  <2>1. \A e \in Consumers \ {c} : Running(e)' = Running(e) /\ sem'[e] = sem[e]
      BY <1>3 DEF Crash, Ranges, Running
  <2>2. Running(c)' = {} /\ sem'[c] = 0
      BY <1>3 DEF Crash, Ranges, Running
  <2> QED BY <2>1, <2>2, FS_EmptySet
<1>4. ASSUME NEW c \in Consumers, NEW d \in Deliveries, HandlerReturns(c, d) PROVE SlotsCounted'
  <2>1. \A e \in Consumers : Running(e)' = Running(e) /\ sem'[e] = sem[e]
      BY <1>4 DEF HandlerReturns, Ranges, Running
  <2> QED BY <2>1
<1>5. CASE UNCHANGED <<handling, settling, sem>>
    BY <1>5 DEF Running
<1> QED BY <1>1, <1>2, <1>3, <1>4, <1>5
        DEF Next, vars, CheckContext, Receive, ReceiveFails, NextBatch, Cancel, Restart, LockExpires, goroutines,
            HandlerPutsAside, Send, ScheduleMessage, CancelScheduledMessage, BecomesDue, consuming

(* Only a delivery that worked is completed, and it stays on record. *)
LEMMA LossStep == IInv /\ [Next]_vars => NothingLost'
<1> SUFFICES ASSUME IInv, [Next]_vars, NEW m \in Messages, status'[m] = "completed"
             PROVE  \E n \in 1 .. MaxDeliveries : <<m, n>> \in worked'
    BY DEF NothingLost
<1> USE DEF IInv, Ranges, NothingLost
<1>1. worked \subseteq worked'
    BY DEF Next, vars, goroutines, CheckContext, Receive, ReceiveFails, NextBatch, Cancel, Crash, Restart,
           Start, HandlerReturns, HandlerDone, LockExpires,
           HandlerPutsAside, Send, ScheduleMessage, CancelScheduledMessage, BecomesDue, consuming
<1>2. CASE status[m] = "completed"
    BY <1>1, <1>2
<1>3. CASE status[m] # "completed"
  <2>1. PICK c \in Consumers, d \in Deliveries : HandlerDone(c, d) /\ d[1] = m /\ d \in worked
    <3>1. ASSUME NEW M \in SUBSET Messages, Deliver(M) PROVE FALSE
        BY <1>3, <3>1 DEF Deliver
    <3>2. ASSUME NEW c \in Consumers, NEW d \in Deliveries, HandlerDone(c, d)
          PROVE  d[1] = m /\ d \in worked
        BY <1>3, <3>2 DEF HandlerDone, Settle, Complete, Abandon, Requeued
    <3>3. ASSUME NEW k \in Messages, LockExpires(k) PROVE FALSE
        BY <1>3, <3>3 DEF LockExpires, Requeued
    <3>4. status' # status
        BY <1>3
    <3>5. ASSUME NEW c \in Consumers, NEW d \in Deliveries, HandlerPutsAside(c, d) PROVE FALSE
        BY <1>3, <3>5 DEF HandlerPutsAside, DeadLetter, Defer
    <3>6. ASSUME NEW k \in Messages, Publishes(k) PROVE FALSE
        BY <1>3, <3>6 DEF Publishes, Send, ScheduleMessage, CancelScheduledMessage, BecomesDue
    <3> QED BY <3>1, <3>2, <3>3, <3>4, <3>5, <3>6
            DEF Next, Publishes, vars, broker, CheckContext, Receive, ReceiveFails, NextBatch, Cancel, Crash, Restart,
                Start, HandlerReturns
  <2>2. d = <<m, d[2]>> /\ d[2] \in 1 .. MaxDeliveries
      BY <2>1 DEF Deliveries
  <2> QED BY <1>1, <2>1, <2>2
<1> QED BY <1>2, <1>3

(* The inductive invariant holds in every state the consumers reach. *)
THEOREM Inductive == Spec => []IInv
<1>1. IInv /\ [Next]_vars => IInv'
    BY RangesStep, NumberedStep, ApartStep, SlotsStep, LossStep DEF IInv
<1> QED BY <1>1, InitInv, PTL DEF Spec

(* The variables keep their ranges. *)
THEOREM TypeCorrect == Spec => []TypeOK
<1>1. IInv => TypeOK
  <2> SUFFICES ASSUME IInv PROVE sem \in [Consumers -> 0 .. MaxConcurrent]
      BY DEF IInv, Ranges, TypeOK
  <2>1. \A c \in Consumers : Cardinality(Running(c)) \in Nat
      BY RunningFinite, FS_CardinalityType DEF IInv
  <2> QED BY <2>1 DEF IInv, Ranges, SlotsCounted
<1> QED BY <1>1, Inductive, PTL

(* The semaphore bounds the goroutines of every consumer, for any limit. *)
THEOREM SlotsBoundWork == Spec => []SlotsCounted
<1>1. IInv => SlotsCounted
    BY DEF IInv
<1> QED BY <1>1, Inductive, PTL

(* No message is completed for which no handler returned nil, however      *)
(* often locks expire and consumers die.                                   *)
THEOREM NoMessageLost == Spec => []NothingLost
<1>1. IInv => NothingLost
    BY DEF IInv
<1> QED BY <1>1, Inductive, PTL

(* The broker delivers the message no more unless the lock of the delivery *)
(* expires or its settlement gives the message back.                       *)
LastDelivery(d) ==
    attempts[d[1]] = d[2] /\ status[d[1]] \in {"locked", "completed", "deadLettered", "deferred"}

(* Until a lock expires in a consumer's hands, a delivery in hand is the   *)
(* last one of its message, and in one hand only.                          *)
HeldUnderLock ==
    /\ \A c \in Consumers : \A d \in InHand(c) : LastDelivery(d)
    /\ \A c, e \in Consumers : c # e => InHand(c) \cap InHand(e) = {}

LEMMA HeldStep ==
    ASSUME IInv, HeldUnderLock, [Next]_vars, ~expired'
    PROVE  HeldUnderLock'
<1> USE DEF IInv, Ranges, HeldUnderLock, LastDelivery
<1>1. ASSUME NEW c \in Consumers, Receive(c) PROVE HeldUnderLock'
  <2>1. PICK M \in SUBSET Messages : Deliver(M) /\ batch' = [batch EXCEPT ![c] = {<<m, attempts'[m]>> : m \in M}]
      BY <1>1 DEF Receive
  <2>2. handling' = handling /\ settling' = settling
      BY <1>1 DEF Receive, goroutines
  <2>3. \A e \in Consumers : e # c => InHand(e)' = InHand(e)
      BY <2>1, <2>2 DEF InHand, Running
  <2>4. ASSUME NEW d \in InHand(c)', d \notin InHand(c)
        PROVE  d[1] \in M /\ d[2] = attempts'[d[1]]
      BY <2>1, <2>2, <2>4 DEF InHand, Running
  <2>5. ASSUME NEW e \in Consumers, NEW d \in InHand(e) PROVE LastDelivery(d)' /\ d[1] \notin M
    <3>1. d \in Deliveries
        BY <2>5 DEF InHand, Running
    <3>2. d[1] \in Messages /\ LastDelivery(d) /\ d[2] = attempts[d[1]] /\ attempts[d[1]] \in Int
        BY <2>5, <3>1 DEF Deliveries
    <3>3. d[1] \notin M
        BY <2>1, <3>2 DEF Deliver
    <3> QED BY <2>1, <3>2, <3>3 DEF Deliver
  <2>6. ASSUME NEW e \in Consumers, NEW d \in InHand(e)' PROVE LastDelivery(d)'
    <3>1. CASE d \in InHand(e)
        BY <2>5, <3>1
    <3>2. CASE d \notin InHand(e)
      <4>1. d[1] \in M /\ d[2] = attempts'[d[1]]
          BY <2>3, <2>4, <2>6, <3>2
      <4> QED BY <2>1, <4>1 DEF Deliver
    <3> QED BY <3>1, <3>2
  <2>7. ASSUME NEW e \in Consumers, e # c PROVE InHand(c)' \cap InHand(e)' = {}
    <3>1. ASSUME NEW d \in InHand(c)', d \in InHand(e)' PROVE FALSE
      <4>1. d \in InHand(e)
          BY <2>3, <2>7, <3>1
      <4>2. d \notin InHand(c)
          BY <2>7, <4>1
      <4> QED BY <2>4, <2>5, <3>1, <4>1, <4>2
    <3> QED BY <3>1
  <2> QED BY <2>3, <2>6, <2>7
<1>2. ASSUME NEW c \in Consumers, ReceiveFails(c) PROVE HeldUnderLock'
  <2>1. \A e \in Consumers : InHand(e)' = InHand(e)
      BY <1>2 DEF ReceiveFails, goroutines, InHand, Running
  <2>2. ASSUME NEW e \in Consumers, NEW d \in InHand(e) PROVE LastDelivery(d)'
    <3>1. d \in Deliveries
        BY <2>2 DEF InHand, Running
    <3>2. d[1] \in Messages /\ LastDelivery(d) /\ d[2] = attempts[d[1]] /\ attempts[d[1]] \in Int
        BY <2>2, <3>1 DEF Deliveries
    <3>3. CASE UNCHANGED broker
        BY <3>2, <3>3 DEF broker
    <3>4. ASSUME NEW k \in Messages, Deliver({k}) PROVE LastDelivery(d)'
      <4>1. k # d[1]
          BY <3>2, <3>4 DEF Deliver
      <4> QED BY <3>2, <3>4, <4>1 DEF Deliver
    <3> QED BY <1>2, <3>3, <3>4 DEF ReceiveFails
  <2> QED BY <2>1, <2>2
<1>3. ASSUME NEW c \in Consumers, Crash(c) PROVE HeldUnderLock'
    BY <1>3 DEF Crash, broker, InHand, Running
<1>4. ASSUME NEW c \in Consumers, NEW d \in Deliveries, Start(c, d) PROVE HeldUnderLock'
    BY <1>4 DEF Start, broker, InHand, Running
<1>5. ASSUME NEW c \in Consumers, NEW d \in Deliveries, HandlerReturns(c, d) PROVE HeldUnderLock'
    BY <1>5 DEF HandlerReturns, broker, InHand, Running
<1>6. ASSUME NEW c \in Consumers, NEW d \in Deliveries, HandlerDone(c, d) PROVE HeldUnderLock'
  <2>1. \A e \in Consumers : InHand(e)' \subseteq InHand(e)
      BY <1>6 DEF HandlerDone, InHand, Running
  <2>2. d \in InHand(c) /\ d \notin InHand(c)'
      BY <1>6 DEF HandlerDone, InHand, Running, Apart
  <2>3. attempts' = attempts
      BY <1>6 DEF HandlerDone
  <2>4. \A m \in Messages : m # d[1] => status'[m] = status[m]
      BY <1>6 DEF HandlerDone, Settle, Complete, Abandon
  <2>5. ASSUME NEW e \in Consumers, NEW f \in InHand(e)' PROVE LastDelivery(f)'
    <3>1. f \in InHand(e)
        BY <2>1, <2>5
    <3>2. f \in Deliveries
        BY <3>1 DEF InHand, Running
    <3>3. f # d
        BY <2>2, <2>5, <3>1
    <3>4. f[1] # d[1]
        BY <2>2, <3>1, <3>2, <3>3 DEF Deliveries
    <3> QED BY <2>3, <2>4, <3>1, <3>2, <3>4 DEF Deliveries
  <2> QED BY <2>1, <2>5
<1>7. ASSUME NEW m \in Messages, LockExpires(m) PROVE HeldUnderLock'
  <2>1. \A e \in Consumers : InHand(e)' = InHand(e)
      BY <1>7 DEF LockExpires, goroutines, InHand, Running
  <2>2. ASSUME NEW e \in Consumers, NEW d \in InHand(e) PROVE LastDelivery(d)'
    <3>1. d \in Deliveries
        BY <2>2 DEF InHand, Running
    <3>2. d[1] # m
      <4>1. d = <<d[1], attempts[d[1]]>>
          BY <2>2, <3>1 DEF Deliveries
      <4>2. <<m, attempts[m]>> \notin InHand(e)
          BY Zenon, <1>7 DEF LockExpires
      <4> QED BY <2>2, <4>1, <4>2
    <3> QED BY <1>7, <2>2, <3>1, <3>2 DEF LockExpires, Deliveries
  <2> QED BY <2>1, <2>2
<1>8. CASE UNCHANGED <<broker, batch, handling, settling>>
    BY <1>8 DEF broker, InHand, Running
<1>9. ASSUME NEW c \in Consumers, NEW d \in Deliveries, HandlerPutsAside(c, d) PROVE HeldUnderLock'
  <2>1. \A e \in Consumers : InHand(e)' = InHand(e)
      BY <1>9 DEF HandlerPutsAside, consuming, goroutines, InHand, Running
  <2>2. \A f \in Deliveries : LastDelivery(f) => LastDelivery(f)'
      BY <1>9 DEF HandlerPutsAside, DeadLetter, Defer, Deliveries
  <2> QED BY <2>1, <2>2 DEF InHand, Running
<1>10. ASSUME NEW m \in Messages, Publishes(m) PROVE HeldUnderLock'
  <2>1. \A e \in Consumers : InHand(e)' = InHand(e)
      BY <1>10 DEF Publishes, Send, ScheduleMessage, CancelScheduledMessage, BecomesDue,
                   consuming, goroutines, InHand, Running
  <2>2. \A f \in Deliveries : LastDelivery(f) => LastDelivery(f)'
      BY <1>10 DEF Publishes, Send, ScheduleMessage, CancelScheduledMessage, BecomesDue, Deliveries
  <2> QED BY <2>1, <2>2 DEF InHand, Running
<1> QED BY <1>1, <1>2, <1>3, <1>4, <1>5, <1>6, <1>7, <1>8, <1>9, <1>10
        DEF Next, Publishes, vars, CheckContext, NextBatch, Cancel, Restart, goroutines, broker

(* Until a lock expires in a consumer's hands, a message is never with two *)
(* consumers, nor twice with one.                                          *)
THEOREM OneHandPerMessage == Spec => []OneAtATime
<1>1. Init => HeldUnderLock
    BY DEF Init, HeldUnderLock, InHand, Running
<1>2. [Next]_vars /\ expired => expired'
    BY DEF Next, vars, CheckContext, Receive, ReceiveFails, Start, NextBatch,
           HandlerReturns, HandlerDone, Cancel, Crash, Restart, LockExpires,
           HandlerPutsAside, Send, ScheduleMessage, CancelScheduledMessage, BecomesDue, consuming
<1>3. IInv /\ (~expired => HeldUnderLock) /\ [Next]_vars => (~expired' => HeldUnderLock')
  <2> SUFFICES ASSUME IInv, ~expired => HeldUnderLock, [Next]_vars, ~expired'
               PROVE  HeldUnderLock'
      OBVIOUS
  <2>1. ~expired
      BY Zenon, <1>2
  <2>2. HeldUnderLock
      BY <2>1
  <2> QED BY <2>2, HeldStep
<1>4. IInv /\ (~expired => HeldUnderLock) => OneAtATime
  <2> SUFFICES ASSUME IInv, HeldUnderLock,
                      NEW c1 \in Consumers, NEW c2 \in Consumers,
                      NEW d1 \in InHand(c1), NEW d2 \in InHand(c2), d1[1] = d2[1]
               PROVE  c1 = c2 /\ d1 = d2
      BY DEF OneAtATime
  <2>1. d1 \in Deliveries /\ d2 \in Deliveries
      BY DEF IInv, Ranges, InHand, Running
  <2>2. d1[2] = d2[2]
      BY DEF HeldUnderLock, LastDelivery
  <2>3. d1 = d2
      BY <2>1, <2>2 DEF Deliveries
  <2> QED BY <2>3 DEF HeldUnderLock
<1> QED BY <1>1, <1>3, <1>4, Inductive, PTL DEF Spec

===============================================================================
