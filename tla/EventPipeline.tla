----------------------------- MODULE EventPipeline -----------------------------
(***************************************************************************)
(* The two ends of messaging/eventhubs.go: a service that sends a list of  *)
(* events with its producer, again when that has failed, and instances of  *)
(* another that consume them.  The hub has one partition; with more, the   *)
(* batches of one call may land on different ones.                         *)
(***************************************************************************)
EXTENDS EventHubsConsumer, Sequences

CONSTANTS NumMessages, Sizes, Capacity, MaxCalls    \* of BatchSender

VARIABLES
    size, stage, from, next, used, total, outcome, calls,   \* the sender's
    log         \* the messages in the partition, after FirstCheckpoint

Sender == INSTANCE BatchSender WITH pc <- stage

senderVars == <<size, stage, from, next, used, total, outcome, calls>>
pipeVars == <<vars, senderVars, log>>

ASSUME PipelineAssumption ==
    /\ NumMessages \in Nat
    /\ Sizes \subseteq Nat
    /\ Capacity \in Nat
    /\ MaxCalls \in Nat
    /\ FirstCheckpoint # None
    /\ LastEvent >= FirstCheckpoint + MaxCalls * NumMessages

PipeInit ==
    /\ Init
    /\ published = FirstCheckpoint
    /\ Sender!Init
    /\ log = <<>>

(* The messages first .. last of the list, in its order. *)
Batch(first, last) == [i \in 1 .. last - first + 1 |-> first + i - 1]

Accepted == {m \in 1 .. NumMessages : total'[m] > total[m]}

(* What the hub accepts, a batch and so a stretch of the list or nothing,  *)
(* is what consumers find in the partition.                                *)
Send ==
    /\ Sender!Next
    /\ \E first \in 1 .. NumMessages + 1, last \in 0 .. NumMessages :
          /\ Accepted = first .. last
          /\ log' = log \o Batch(first, last)
    /\ published' = FirstCheckpoint + Len(log')
    /\ UNCHANGED <<checkpoint, owner, pc, position, done, tried>>

Receipt == Consume /\ UNCHANGED <<senderVars, log>>

PipeNext == Send \/ Receipt

PipeSpec == PipeInit /\ [][PipeNext]_pipeVars
PipeFairSpec == PipeSpec /\ Fairness

------------------------------------------------------------------------------
Handled(m) ==
    \E i \in DOMAIN log : log[i] = m /\ FirstCheckpoint + i \in tried

(* The consumer's handler is called with a message only after it was       *)
(* called with every message before it in the sender's list: whatever the  *)
(* sender sent twice or gave up in between, whatever acknowledgement was   *)
(* lost, and whoever owned the partition.                                  *)
PrefixHandled ==
    \A m, n \in 1 .. NumMessages : m < n /\ Handled(n) => Handled(m)

(* When the sender's call returns nil, every message gets to a handler,    *)
(* once the instance that owns the partition neither dies nor loses it.    *)
AllHandled ==
    <>[][\A i \in Instances :
            /\ ~(i \in owner /\ (Crash(i) \/ ReceiveFails(i)))
            /\ ~(owner # {} /\ Claim(i))]_vars
        => [](outcome = "ok" => <>(\A m \in 1 .. NumMessages : Handled(m)))

===============================================================================
