----------------------------- MODULE BatchSender -----------------------------
(***************************************************************************)
(* SendBatch of messaging/servicebus.go and of messaging/eventhubs.go,     *)
(* which work alike: messages are packed into batches in their order, and  *)
(* a batch is sent when the next message does not fit.  SendToPartition of *)
(* the latter sends one batch or none, and with Send a caller sends its    *)
(* messages one by one.  A caller that gets an error begins again with the *)
(* same messages.                                                          *)
(*                                                                         *)
(* A batch is atomic at the broker, and the acknowledgement of one that    *)
(* was accepted may be lost.                                               *)
(***************************************************************************)
EXTENDS Integers, Functions

CONSTANTS
    NumMessages,    \* in the list the caller sends
    Sizes,          \* sizes a message may have
    Capacity,       \* of a batch
    MaxCalls        \* bound on the calls of SendBatch

Messages == 1 .. NumMessages

VARIABLES
    size,       \* of each message
    pc,         \* where SendBatch is
    from,       \* the batch holds the messages from .. next - 1
    next,       \* the message to add
    used,       \* size of the batch
    total,      \* how often each message was accepted, over all calls
    outcome,    \* what the last call returned
    calls

vars == <<size, pc, from, next, used, total, outcome, calls>>
packing == <<from, next, used>>

Init ==
    /\ size \in [Messages -> Sizes]
    /\ pc = "idle"
    /\ from = 1
    /\ next = 1
    /\ used = 0
    /\ total = [m \in Messages |-> 0]
    /\ outcome = "none"
    /\ calls = 0

(* SendBatch is called, again when it has failed, and makes a batch; or    *)
(* the caller begins to send each message.                                 *)
Call ==
    /\ pc = "idle"
    /\ outcome # "ok"
    /\ calls < MaxCalls
    /\ calls' = calls + 1
    /\ from' = 1
    /\ next' = 1
    /\ used' = 0
    /\ \/ pc' \in {"adding", "sending"} /\ outcome' = "none"
       \/ pc' = "idle" /\ outcome' = "failed"
    /\ UNCHANGED <<size, total>>

Fits == used + size[next] <= Capacity

(* The message is added, to the batch at hand or to the new one. *)
Add ==
    /\ pc \in {"adding", "retrying"}
    /\ next <= NumMessages
    /\ Fits
    /\ next' = next + 1
    /\ used' = used + size[next]
    /\ pc' = "adding"
    /\ UNCHANGED <<size, from, total, outcome, calls>>

InBatch(m) == from <= m /\ m < next

Accept ==
    total' = [m \in Messages |-> total[m] + IF InBatch(m) THEN 1 ELSE 0]

NewBatch == next' = next /\ from' = next /\ used' = 0

(* The message does not fit: the batch is sent, an empty one too, and a    *)
(* new batch is made for the message.                                      *)
SendFull ==
    /\ pc = "adding"
    /\ next <= NumMessages
    /\ ~Fits
    /\ Accept
    /\ NewBatch
    /\ pc' = "retrying"
    /\ UNCHANGED <<size, outcome, calls>>

Return(result) ==
    /\ pc' = "idle"
    /\ outcome' = result
    /\ UNCHANGED <<size, packing, calls>>

(* Fault of a mutant run: the error of the send is not looked at. *)
SendFullFailsUnseen ==
    /\ pc = "adding"
    /\ next <= NumMessages
    /\ ~Fits
    /\ Accept \/ UNCHANGED total
    /\ NewBatch
    /\ pc' = "retrying"
    /\ UNCHANGED <<size, outcome, calls>>

(* The send fails, before the broker has accepted the batch or after, or   *)
(* it succeeds and the new batch cannot be made.                           *)
SendFullFails ==
    /\ pc = "adding"
    /\ next <= NumMessages
    /\ ~Fits
    /\ Accept \/ UNCHANGED total
    /\ Return("failed")

(* The message does not fit into an empty batch either. *)
TooLarge ==
    /\ pc = "retrying"
    /\ ~Fits
    /\ Return("failed")
    /\ UNCHANGED total

(* The messages that are left are sent, if there are any. *)
SendLast ==
    /\ pc = "adding"
    /\ next = NumMessages + 1
    /\ IF from < next THEN Accept ELSE UNCHANGED total
    /\ Return("ok")

SendLastFails ==
    /\ pc = "adding"
    /\ next = NumMessages + 1
    /\ from < next
    /\ Accept \/ UNCHANGED total
    /\ Return("failed")

(* One batch has to hold all the messages: else nothing is sent. *)
SendToPartition ==
    /\ pc = "idle"
    /\ outcome # "ok"
    /\ calls < MaxCalls
    /\ calls' = calls + 1
    /\ \E arrived, ok \in BOOLEAN :
          /\ ok => arrived
          /\ arrived => FoldFunction(+, 0, size) <= Capacity
          /\ total' = [m \in Messages |-> total[m] + IF arrived THEN 1 ELSE 0]
          /\ outcome' = IF ok THEN "ok" ELSE "failed"
    /\ UNCHANGED <<size, pc, packing>>

(* A message that no batch would hold is an error, and nothing is sent. *)
AcceptOne ==
    /\ size[next] <= Capacity
    /\ total' = [total EXCEPT ![next] = @ + 1]

Send ==
    /\ pc = "sending"
    /\ next <= NumMessages
    /\ AcceptOne
    /\ next' = next + 1
    /\ from' = next + 1
    /\ UNCHANGED <<size, pc, used, outcome, calls>>

SendFails ==
    /\ pc = "sending"
    /\ next <= NumMessages
    /\ AcceptOne \/ UNCHANGED total
    /\ Return("failed")

SentEach ==
    /\ pc = "sending"
    /\ next = NumMessages + 1
    /\ Return("ok")
    /\ UNCHANGED total

Next ==
    \/ SendToPartition
    \/ Send \/ SendFails \/ SentEach
    \/ Call \/ Add \/ SendFull \/ SendFullFails \/ TooLarge
    \/ SendLast \/ SendLastFails

Spec == Init /\ [][Next]_vars

------------------------------------------------------------------------------
TypeOK ==
    /\ size \in [Messages -> Sizes]
    /\ pc \in {"idle", "adding", "retrying", "sending"}
    /\ from \in 1 .. NumMessages + 1
    /\ next \in from .. NumMessages + 1
    /\ used \in 0 .. Capacity
    /\ total \in [Messages -> Nat]
    /\ outcome \in {"none", "ok", "failed"}
    /\ calls \in 0 .. MaxCalls

===============================================================================
