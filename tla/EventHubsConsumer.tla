--------------------------- MODULE EventHubsConsumer ---------------------------
(***************************************************************************)
(* The processor of messaging/eventhubs.go on one partition of an event    *)
(* hub: instances of a service compete for the partition, read it in       *)
(* batches, hand each event to the handler and store a checkpoint.         *)
(*                                                                         *)
(* The SDK is the external part: it gives the partition to one instance    *)
(* at a time, an instance that has lost it notices only at its next        *)
(* ReceiveEvents, and its checkpoint is stored even so.  Without a stored  *)
(* checkpoint an instance starts at the end of the partition.              *)
(***************************************************************************)
EXTENDS Integers, FiniteSets

CONSTANTS
    Instances,      \* processes that call Start
    LastEvent,      \* events are numbered 1 .. LastEvent
    MaxBatch,       \* 100 in the code
    FirstCheckpoint \* stored before Start, or None

None == -1

ASSUME ConsumerAssumption ==
    /\ LastEvent \in Nat
    /\ MaxBatch \in Nat \ {0}
    /\ FirstCheckpoint \in (0 .. LastEvent) \cup {None}

Events == 1 .. LastEvent
Positions == 0 .. LastEvent

VARIABLES
    published,  \* number of events in the partition
    checkpoint, \* the stored checkpoint
    owner,      \* the instances the SDK lets receive, one or none
    pc,         \* of each instance's processPartition
    position,   \* the last event received
    done,       \* the last event of the batch that was handled
    tried       \* events some handler was called with

vars == <<published, checkpoint, owner, pc, position, done, tried>>

Init ==
    /\ published \in Positions
    /\ FirstCheckpoint <= published
    /\ checkpoint = FirstCheckpoint
    /\ owner = {}
    /\ pc = [i \in Instances |-> "idle"]
    /\ position = [i \in Instances |-> 0]
    /\ done = [i \in Instances |-> 0]
    /\ tried = {}

Publish ==
    /\ published < LastEvent
    /\ published' = published + 1
    /\ UNCHANGED <<checkpoint, owner, pc, position, done, tried>>

StartAt == IF checkpoint = None THEN published ELSE checkpoint

(* The processor claims the partition, from a living owner as well, and    *)
(* Start begins a goroutine for the partition client.                      *)
Claim(i) ==
    /\ pc[i] = "idle"
    /\ owner' = {i}
    /\ pc' = [pc EXCEPT ![i] = "receiving"]
    /\ position' = [position EXCEPT ![i] = StartAt]
    /\ done' = [done EXCEPT ![i] = StartAt]
    /\ UNCHANGED <<published, checkpoint, tried>>

(* ReceiveEvents returns a batch, without events when it has waited long   *)
(* enough: then nothing changes.                                           *)
Receive(i) ==
    /\ pc[i] = "receiving"
    /\ i \in owner
    /\ \E last \in position[i] + 1 .. published :
          /\ last <= position[i] + MaxBatch
          /\ position' = [position EXCEPT ![i] = last]
    /\ pc' = [pc EXCEPT ![i] = "handling"]
    /\ UNCHANGED <<published, checkpoint, owner, done, tried>>

(* ReceiveEvents fails, the partition is lost or the context cancelled:    *)
(* processPartition returns and closes the client.                         *)
ReceiveFails(i) ==
    /\ pc[i] = "receiving"
    /\ pc' = [pc EXCEPT ![i] = "idle"]
    /\ owner' = owner \ {i}
    /\ UNCHANGED <<published, checkpoint, position, done, tried>>

(* Fault of a mutant run: the events after a failed one are left. *)
HandleOrLeaveRest(i) ==
    /\ pc[i] = "handling"
    /\ \E last \in done[i] + 1 .. position[i] : done' = [done EXCEPT ![i] = last]
    /\ tried' = tried \cup {done[i] + 1}
    /\ pc' = [pc EXCEPT ![i] = IF done'[i] = position[i] THEN "storing" ELSE "handling"]
    /\ UNCHANGED <<published, checkpoint, owner, position>>

(* The handler is called with the next event of the batch.  An error only  *)
(* makes the loop go on with the event after it.                           *)
Handle(i) ==
    /\ pc[i] = "handling"
    /\ tried' = tried \cup {done[i] + 1}
    /\ done' = [done EXCEPT ![i] = @ + 1]
    /\ pc' = [pc EXCEPT ![i] = IF done[i] + 1 = position[i] THEN "storing" ELSE "handling"]
    /\ UNCHANGED <<published, checkpoint, owner, position>>

(* Fault of a mutant run: an instance that has stored keeps storing. *)
StoreForEver(i) ==
    /\ pc[i] = "storing"
    /\ checkpoint' = position[i]
    /\ UNCHANGED <<published, owner, pc, position, done, tried>>

(* UpdateCheckpoint with the last event of the batch.  It is stored        *)
(* whoever owns the partition by now; an error is not looked at.           *)
Store(i) ==
    /\ pc[i] = "storing"
    /\ checkpoint' = position[i] \/ UNCHANGED checkpoint
    /\ pc' = [pc EXCEPT ![i] = "receiving"]
    /\ UNCHANGED <<published, owner, position, done, tried>>

(* The process dies and starts again. *)
Crash(i) ==
    /\ pc[i] # "idle"
    /\ pc' = [pc EXCEPT ![i] = "idle"]
    /\ owner' = owner \ {i}
    /\ UNCHANGED <<published, checkpoint, position, done, tried>>

Consume ==
    \E i \in Instances :
        \/ Claim(i) \/ Receive(i) \/ ReceiveFails(i)
        \/ Handle(i) \/ Store(i) \/ Crash(i)

Next == Publish \/ Consume

Spec == Init /\ [][Next]_vars

(* Handlers return, calls of the SDK return, and a partition that nobody   *)
(* owns is claimed.                                                        *)
Fairness ==
    /\ \A i \in Instances :
          /\ WF_vars(owner = {} /\ Claim(i))
          /\ WF_vars(Receive(i))
          /\ WF_vars(i \notin owner /\ ReceiveFails(i))
          /\ WF_vars(Handle(i))
          /\ WF_vars(Store(i))

FairSpec == Spec /\ Fairness

------------------------------------------------------------------------------
TypeOK ==
    /\ published \in Positions
    /\ checkpoint \in Positions \cup {None}
    /\ owner \in SUBSET Instances
    /\ pc \in [Instances -> {"idle", "receiving", "handling", "storing"}]
    /\ position \in [Instances -> Positions]
    /\ done \in [Instances -> Positions]
    /\ tried \in SUBSET Events

(* No event at or below the checkpoint has been passed over: a handler was *)
(* called with it, however often the partition changed hands, checkpoints  *)
(* failed and instances died.  A checkpoint must have been stored before.  *)
NonePassedOver ==
    FirstCheckpoint # None => (FirstCheckpoint + 1) .. checkpoint \subseteq tried

(* An instance that reads the partition calls its handler with each event  *)
(* only after the one before it was tried.                                 *)
InOrder ==
    [][\A e \in tried' \ tried :
          FirstCheckpoint # None /\ e > FirstCheckpoint + 1 => e - 1 \in tried]_vars

===============================================================================
