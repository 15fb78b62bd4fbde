-------------------------- MODULE ServiceBusConsumer --------------------------
(***************************************************************************)
(* messaging/servicebus.go: publishers that send messages to one queue or  *)
(* topic, at once or scheduled, and the consumer loop: consumers of the    *)
(* queue or of a subscription, each handing the messages it receives to    *)
(* goroutines, at most maxConcurrent of them at a time.                    *)
(*                                                                         *)
(* The broker is the external part: receiving a message locks it for a     *)
(* while, and the lock may expire while the message waits for a goroutine  *)
(* or is being handled; then, as after Abandon, it is delivered again.  A  *)
(* delivery is a message with the number of the attempt.                   *)
(***************************************************************************)
EXTENDS Integers, FiniteSets

CONSTANTS
    Consumers,          \* running StartConsumer
    Messages,
    MaxDeliveries,      \* of the broker: then a message is dead-lettered
    MaxConcurrent       \* capacity of sem

ASSUME ConsumerAssumption ==
    /\ IsFiniteSet(Messages)
    /\ MaxDeliveries \in Nat \ {0}
    /\ MaxConcurrent \in Nat \ {0}

Deliveries == Messages \X (1 .. MaxDeliveries)

VARIABLES
    status,     \* of each message, at the broker once it is sent
    attempts,   \* how often the broker has delivered it
    pc,         \* of each consumer's loop
    batch,      \* deliveries the loop has still to start
    handling,   \* deliveries a handler is working on
    settling,   \* deliveries whose handler has returned
    sem,        \* length of the channel sem
    cancelled,  \* the consumer's context
    worked,     \* deliveries whose handler returned nil
    expired     \* history: a lock has expired in a consumer's hands

vars == <<status, attempts, pc, batch, handling, settling, sem, cancelled, worked, expired>>
broker == <<status, attempts>>
goroutines == <<handling, settling, sem, worked>>

Running(c) == handling[c] \cup settling[c]
InHand(c) == batch[c] \cup Running(c)

Init ==
    /\ status = [m \in Messages |-> "unsent"]
    /\ attempts = [m \in Messages |-> 0]
    /\ pc = [c \in Consumers |-> "checking"]
    /\ batch = [c \in Consumers |-> {}]
    /\ handling = [c \in Consumers |-> {}]
    /\ settling = [c \in Consumers |-> {}]
    /\ sem = [c \in Consumers |-> 0]
    /\ cancelled = [c \in Consumers |-> FALSE]
    /\ worked = {}
    /\ expired = FALSE

consuming == <<pc, batch, goroutines, cancelled, expired>>

(* A message comes to the broker, and one with a ScheduledEnqueueTime is   *)
(* held back there.  One that is sent again is another message.            *)
Send(m) ==
    /\ status[m] = "unsent"
    /\ \E s \in {"queued", "scheduled"} : status' = [status EXCEPT ![m] = s]
    /\ UNCHANGED <<attempts, consuming>>

ScheduleMessage(m) ==
    /\ status[m] = "unsent"
    /\ status' = [status EXCEPT ![m] = "scheduled"]
    /\ UNCHANGED <<attempts, consuming>>

CancelScheduledMessage(m) ==
    /\ status[m] = "scheduled"
    /\ status' = [status EXCEPT ![m] = "withdrawn"]
    /\ UNCHANGED <<attempts, consuming>>

BecomesDue(m) ==
    /\ status[m] = "scheduled"
    /\ status' = [status EXCEPT ![m] = "queued"]
    /\ UNCHANGED <<attempts, consuming>>

------------------------------------------------------------------------------
(* The select at the head of the loop. *)
CheckContext(c) ==
    /\ pc[c] = "checking"
    /\ pc' = [pc EXCEPT ![c] = IF cancelled[c] THEN "returned" ELSE "receiving"]
    /\ UNCHANGED <<broker, batch, goroutines, cancelled, expired>>

Deliver(M) ==
    /\ \A m \in M : status[m] = "queued"
    /\ status' = [m \in Messages |-> IF m \in M THEN "locked" ELSE status[m]]
    /\ attempts' = [m \in Messages |-> attempts[m] + IF m \in M THEN 1 ELSE 0]

(* Receive asks for at most maxConcurrent messages. *)
Receive(c) ==
    /\ pc[c] = "receiving"
    /\ \E M \in SUBSET Messages :
          /\ M # {}
          /\ Cardinality(M) <= MaxConcurrent
          /\ Deliver(M)
          /\ batch' = [batch EXCEPT ![c] = {<<m, attempts'[m]>> : m \in M}]
    /\ pc' = [pc EXCEPT ![c] = "dispatching"]
    /\ UNCHANGED <<goroutines, cancelled, expired>>

(* Fault of a mutant run: an error of Receive ends the loop. *)
ReturnOnError(c) ==
    /\ pc[c] = "receiving"
    /\ pc' = [pc EXCEPT ![c] = "returned"]
    /\ UNCHANGED <<broker, batch, goroutines, cancelled, expired>>

(* Receive fails, and a message may have been locked all the same. *)
ReceiveFails(c) ==
    /\ pc[c] = "receiving"
    /\ pc' = [pc EXCEPT ![c] = "checking"]
    /\ (\E m \in Messages : Deliver({m})) \/ UNCHANGED broker
    /\ UNCHANGED <<batch, goroutines, cancelled, expired>>

HasSlot(c) == sem[c] < MaxConcurrent

(* The loop waits for a slot, whatever becomes of its context, and starts  *)
(* a goroutine with the handler.                                           *)
Start(c, d) ==
    /\ pc[c] = "dispatching"
    /\ d \in batch[c]
    /\ HasSlot(c)
    /\ sem' = [sem EXCEPT ![c] = @ + 1]
    /\ batch' = [batch EXCEPT ![c] = @ \ {d}]
    /\ handling' = [handling EXCEPT ![c] = @ \cup {d}]
    /\ UNCHANGED <<broker, pc, settling, cancelled, worked, expired>>

(* Fault of a mutant run: a cancelled loop waits for more messages. *)
NextBatchUnlessCancelled(c) ==
    /\ pc[c] = "dispatching"
    /\ batch[c] = {}
    /\ ~cancelled[c]
    /\ pc' = [pc EXCEPT ![c] = "checking"]
    /\ UNCHANGED <<broker, batch, goroutines, cancelled, expired>>

NextBatch(c) ==
    /\ pc[c] = "dispatching"
    /\ batch[c] = {}
    /\ pc' = [pc EXCEPT ![c] = "checking"]
    /\ UNCHANGED <<broker, batch, goroutines, cancelled, expired>>

(* The broker gives a message back, or gives it up. *)
Requeued(m) == IF attempts[m] < MaxDeliveries THEN "queued" ELSE "deadLettered"

(* The broker accepts a settlement only under the lock of that delivery. *)
LockHeld(d) == status[d[1]] = "locked" /\ attempts[d[1]] = d[2]

Complete(d) ==
    /\ LockHeld(d)
    /\ status' = [status EXCEPT ![d[1]] = "completed"]

Abandon(d) ==
    /\ LockHeld(d)
    /\ status' = [status EXCEPT ![d[1]] = Requeued(d[1])]

DeadLetter(d) ==
    /\ LockHeld(d)
    /\ status' = [status EXCEPT ![d[1]] = "deadLettered"]

Defer(d) ==
    /\ LockHeld(d)
    /\ status' = [status EXCEPT ![d[1]] = "deferred"]

(* A handler may put its message aside itself; what the loop then settles  *)
(* fails.                                                                  *)
HandlerPutsAside(c, d) ==
    /\ d \in handling[c]
    /\ DeadLetter(d) \/ Defer(d)
    /\ UNCHANGED <<attempts, consuming>>

(* Fault of a mutant run: a handler that is late has its message abandoned *)
(* and goes on working on it.                                              *)
HandlerIsLate(c, d) ==
    /\ d \in handling[c]
    /\ Abandon(d)
    /\ UNCHANGED <<attempts, consuming>>

HandlerReturns(c, d) ==
    /\ d \in handling[c]
    /\ handling' = [handling EXCEPT ![c] = @ \ {d}]
    /\ settling' = [settling EXCEPT ![c] = @ \cup {d}]
    /\ worked' = worked \cup {d} \/ UNCHANGED worked
    /\ UNCHANGED <<broker, pc, batch, sem, cancelled, expired>>

(* Fault of a mutant run: the verdicts are swapped.                        *)
SettleSwapped(d) ==
    \/ d \in worked /\ Abandon(d)
    \/ d \notin worked /\ Complete(d)
    \/ UNCHANGED status

(* Complete or Abandon, whose error is ignored: the lock has expired, the  *)
(* context is cancelled, the connection fails.                             *)
Settle(d) ==
    \/ d \in worked /\ Complete(d)
    \/ d \notin worked /\ Abandon(d)
    \/ UNCHANGED status

Release(c, d) == sem' = [sem EXCEPT ![c] = @ - 1]

HandlerDone(c, d) ==
    /\ d \in settling[c]
    /\ Settle(d)
    /\ settling' = [settling EXCEPT ![c] = @ \ {d}]
    /\ Release(c, d)
    /\ UNCHANGED <<attempts, pc, batch, handling, cancelled, worked, expired>>

Cancel(c) ==
    /\ pc[c] # "down"
    /\ ~cancelled[c]
    /\ cancelled' = [cancelled EXCEPT ![c] = TRUE]
    /\ UNCHANGED <<broker, pc, batch, goroutines, expired>>

(* The process dies, by a panic in a handler for one. *)
Crash(c) ==
    /\ pc[c] # "down"
    /\ pc' = [pc EXCEPT ![c] = "down"]
    /\ batch' = [batch EXCEPT ![c] = {}]
    /\ handling' = [handling EXCEPT ![c] = {}]
    /\ settling' = [settling EXCEPT ![c] = {}]
    /\ sem' = [sem EXCEPT ![c] = 0]
    /\ cancelled' = [cancelled EXCEPT ![c] = FALSE]
    /\ UNCHANGED <<broker, worked, expired>>

Restart(c) ==
    /\ pc[c] = "down"
    /\ pc' = [pc EXCEPT ![c] = "checking"]
    /\ UNCHANGED <<broker, batch, goroutines, cancelled, expired>>

(* The lock of a delivery expires in the end, in a consumer's hands too. *)
LockExpires(m) ==
    /\ status[m] = "locked"
    /\ status' = [status EXCEPT ![m] = Requeued(m)]
    /\ expired' = (expired \/ \E c \in Consumers : <<m, attempts[m]>> \in InHand(c))
    /\ UNCHANGED <<attempts, pc, batch, goroutines, cancelled>>

Next ==
    \/ \E c \in Consumers :
          \/ CheckContext(c) \/ Receive(c) \/ ReceiveFails(c)
          \/ NextBatch(c) \/ Cancel(c) \/ Crash(c) \/ Restart(c)
          \/ \E d \in Deliveries :
                \/ Start(c, d) \/ HandlerReturns(c, d) \/ HandlerDone(c, d)
                \/ HandlerPutsAside(c, d)
    \/ \E m \in Messages :
          \/ Send(m) \/ ScheduleMessage(m) \/ CancelScheduledMessage(m)
          \/ BecomesDue(m) \/ LockExpires(m)

Spec == Init /\ [][Next]_vars

(* Goroutines run, handlers return, and the broker does not fail every     *)
(* Receive for ever while it has messages.                                 *)
Fairness ==
    /\ \A c \in Consumers :
          /\ WF_vars(CheckContext(c))
          /\ SF_vars(Receive(c))
          /\ WF_vars(ReceiveFails(c))
          /\ WF_vars(NextBatch(c))
          /\ \A d \in Deliveries :
                /\ WF_vars(Start(c, d))
                /\ WF_vars(HandlerReturns(c, d))
                /\ WF_vars(HandlerDone(c, d))
    /\ \A m \in Messages : WF_vars(LockExpires(m)) /\ WF_vars(BecomesDue(m))

FairSpec == Spec /\ Fairness

------------------------------------------------------------------------------
Settled == {"completed", "deadLettered", "deferred", "withdrawn"}

TypeOK ==
    /\ status \in [Messages -> {"unsent", "scheduled", "queued", "locked"} \cup Settled]
    /\ attempts \in [Messages -> 0 .. MaxDeliveries]
    /\ pc \in [Consumers -> {"checking", "receiving", "dispatching", "returned", "down"}]
    /\ batch \in [Consumers -> SUBSET Deliveries]
    /\ handling \in [Consumers -> SUBSET Deliveries]
    /\ settling \in [Consumers -> SUBSET Deliveries]
    /\ sem \in [Consumers -> 0 .. MaxConcurrent]
    /\ cancelled \in [Consumers -> BOOLEAN]
    /\ worked \in SUBSET Deliveries
    /\ expired \in BOOLEAN

(* The channel counts the goroutines: a consumer never works on more than  *)
(* maxConcurrent messages, through cancellation and handlers that fail.    *)
SlotsCounted ==
    \A c \in Consumers :
        sem[c] = Cardinality(Running(c)) /\ Cardinality(Running(c)) <= MaxConcurrent

(* A message is completed only when a handler has returned nil for it:     *)
(* whatever expires, crashes, is put aside or is delivered twice, no       *)
(* message is lost.                                                        *)
NothingLost ==
    \A m \in Messages :
        status[m] = "completed" => \E n \in 1 .. MaxDeliveries : <<m, n>> \in worked

(* Until a lock expires in a consumer's hands, no message is with two      *)
(* consumers or two goroutines at once.                                    *)
OneAtATime ==
    ~expired => \A c1, c2 \in Consumers : \A d1 \in InHand(c1), d2 \in InHand(c2) :
                    d1[1] = d2[1] => c1 = c2 /\ d1 = d2

(* With a consumer that in the end stays up and is not cancelled, every    *)
(* message that was sent or scheduled is handled in the end, or dead-      *)
(* lettered, deferred or withdrawn: those that were in the hands of a      *)
(* consumer that died or returned too.                                     *)
AllSettled ==
    (\E c \in Consumers : <>[](pc[c] # "down" /\ ~cancelled[c]))
        => \A m \in Messages : status[m] # "unsent" ~> status[m] \in Settled

(* Cancelling its context makes StartConsumer return, from a full          *)
(* semaphore too, once handlers return.                                    *)
CancelReturns ==
    \A c \in Consumers : cancelled[c] ~> (pc[c] = "returned" \/ ~cancelled[c])

===============================================================================
