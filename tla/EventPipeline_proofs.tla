------------------------ MODULE EventPipeline_proofs ------------------------
(***************************************************************************)
(* Theorems of EventHubsConsumer, for any number of instances and events,  *)
(* and of the pipeline that feeds it, for any list of messages, any        *)
(* capacity of a batch and any number of calls.                            *)
(***************************************************************************)
EXTENDS EventPipeline, SequenceTheorems, TLAPS

USE ConsumerAssumption DEF ConsumerAssumption

(* What an instance has in hand reaches no further than the partition, and *)
(* a batch is not empty while it is handled.                               *)
InBounds ==
    /\ checkpoint # None => checkpoint <= published
    /\ FirstCheckpoint # None => checkpoint # None
    /\ \A i \in Instances :
          /\ done[i] <= position[i]
          /\ position[i] <= published
          /\ pc[i] = "handling" => done[i] < position[i]

(* Every instance that works has been told only of events tried before,    *)
(* down to the first checkpoint: this is what makes it safe to store its   *)
(* position after it has lost the partition.                               *)
DoneIsTried ==
    FirstCheckpoint # None =>
        \A i \in Instances :
            /\ pc[i] # "idle" => (FirstCheckpoint + 1) .. done[i] \subseteq tried
            /\ pc[i] = "storing" => done[i] = position[i]
            /\ pc[i] = "receiving" => done[i] = position[i]

IInv == TypeOK /\ InBounds /\ DoneIsTried /\ NonePassedOver

LEMMA InitInv == Init => IInv
<1> SUFFICES ASSUME Init PROVE IInv
    OBVIOUS
<1>1. TypeOK
    BY DEF Init, TypeOK, Positions, None
<1>2. InBounds
    BY DEF Init, InBounds, Positions, None
<1>3. DoneIsTried
    BY DEF Init, DoneIsTried
<1>4. NonePassedOver
    BY DEF Init, NonePassedOver, None
<1> QED BY <1>1, <1>2, <1>3, <1>4 DEF IInv

LEMMA NextInv == IInv /\ [Next]_vars => IInv'
<1> SUFFICES ASSUME IInv, [Next]_vars PROVE IInv'
    OBVIOUS
<1> USE DEF IInv, TypeOK, InBounds, DoneIsTried, NonePassedOver, Positions, Events, None
<1>1. CASE Publish
    BY <1>1 DEF Publish
<1>2. ASSUME NEW i \in Instances, Claim(i) PROVE IInv'
  <2>1. StartAt \in Positions /\ StartAt <= published
      BY DEF StartAt
  <2>2. FirstCheckpoint # None => StartAt = checkpoint
      BY DEF StartAt
  <2>3. TypeOK'
      BY <1>2, <2>1 DEF Claim
  <2>4. InBounds'
      BY <1>2, <2>1 DEF Claim
  <2>5. DoneIsTried'
      BY <1>2, <2>2 DEF Claim
  <2>6. NonePassedOver'
      BY <1>2 DEF Claim
  <2> QED BY <2>3, <2>4, <2>5, <2>6
<1>3. ASSUME NEW i \in Instances, Receive(i) PROVE IInv'
    BY <1>3 DEF Receive
<1>4. ASSUME NEW i \in Instances, ReceiveFails(i) PROVE IInv'
    BY <1>4 DEF ReceiveFails
<1>5. ASSUME NEW i \in Instances, Handle(i) PROVE IInv'
  <2>1. done[i] + 1 \in Events /\ done[i] + 1 <= position[i]
      BY <1>5 DEF Handle
  <2>2. TypeOK'
    <3>1. done[i] + 1 \in Positions
        BY <2>1
    <3>2. done' \in [Instances -> Positions]
        BY <1>5, <3>1 DEF Handle
    <3>3. tried' \in SUBSET Events
        BY <1>5, <2>1 DEF Handle
    <3>4. pc' \in [Instances -> {"idle", "receiving", "handling", "storing"}]
        BY <1>5 DEF Handle
    <3> QED BY <1>5, <3>2, <3>3, <3>4 DEF Handle
  <2>3. InBounds'
      BY <1>5, <2>1 DEF Handle
  <2>4. DoneIsTried'
    <3> SUFFICES ASSUME FirstCheckpoint # None, NEW j \in Instances
                 PROVE  /\ pc'[j] # "idle" => (FirstCheckpoint + 1) .. done'[j] \subseteq tried'
                        /\ pc'[j] = "storing" => done'[j] = position'[j]
                        /\ pc'[j] = "receiving" => done'[j] = position'[j]
        BY <1>5 DEF Handle
    <3>1. CASE j # i
        BY <1>5, <3>1 DEF Handle
    <3>2. CASE j = i
      <4>1. (FirstCheckpoint + 1) .. done[i] \subseteq tried
          BY <1>5 DEF Handle
      <4>2. done'[i] = done[i] + 1 /\ tried' = tried \cup {done[i] + 1}
          BY <1>5 DEF Handle
      <4>3. (FirstCheckpoint + 1) .. done'[i] \subseteq tried'
          BY <4>1, <4>2
      <4>4. pc'[i] = "storing" => done'[i] = position'[i]
          BY <1>5, <4>2 DEF Handle
      <4>5. pc'[i] # "receiving"
          BY <1>5 DEF Handle
      <4> QED BY <3>2, <4>3, <4>4, <4>5
    <3> QED BY <3>1, <3>2
  <2>5. NonePassedOver'
      BY <1>5 DEF Handle
  <2> QED BY <2>2, <2>3, <2>4, <2>5
<1>6. ASSUME NEW i \in Instances, Store(i) PROVE IInv'
  <2>1. FirstCheckpoint # None => (FirstCheckpoint + 1) .. position[i] \subseteq tried
      BY <1>6 DEF Store
  <2>2. CASE checkpoint' = position[i]
      BY <1>6, <2>1, <2>2 DEF Store
  <2>3. CASE UNCHANGED checkpoint
      BY <1>6, <2>3 DEF Store
  <2> QED BY <1>6, <2>2, <2>3 DEF Store
<1>7. ASSUME NEW i \in Instances, Crash(i) PROVE IInv'
    BY <1>7 DEF Crash
<1>8. CASE UNCHANGED vars
    BY <1>8 DEF vars
<1> QED BY <1>1, <1>2, <1>3, <1>4, <1>5, <1>6, <1>7, <1>8 DEF Next, Consume

(* The inductive invariant holds in every state the consumers reach. *)
THEOREM Inductive == Spec => []IInv
<1> QED BY InitInv, NextInv, PTL DEF Spec

(* The variables keep their ranges. *)
THEOREM TypeCorrect == Spec => []TypeOK
<1>1. IInv => TypeOK
    BY DEF IInv
<1> QED BY <1>1, Inductive, PTL

(* With a checkpoint to begin from, an event below the checkpoint was      *)
(* handed to a handler: instances that lose the partition and store late   *)
(* checkpoints, or die, never make the group skip an event.                *)
THEOREM NoEventSkipped == Spec => []NonePassedOver
<1>1. IInv => NonePassedOver
    BY DEF IInv
<1> QED BY <1>1, Inductive, PTL

(* Events are tried in the order of the partition. *)
THEOREM TriedInOrder == Spec => InOrder
<1> DEFINE Ordered == \A e \in tried' \ tried :
          FirstCheckpoint # None /\ e > FirstCheckpoint + 1 => e - 1 \in tried
<1>1. IInv /\ [Next]_vars => [Ordered]_vars
  <2> SUFFICES ASSUME IInv, Next PROVE Ordered
      OBVIOUS
  <2>1. ASSUME NEW i \in Instances, Handle(i) PROVE Ordered
      BY <2>1 DEF Handle, IInv, TypeOK, InBounds, DoneIsTried, Positions, Events, None
  <2>2. ASSUME tried' = tried PROVE Ordered
      BY <2>2
  <2> QED BY <2>1, <2>2 DEF Next, Consume, Publish, Claim, Receive, ReceiveFails, Store, Crash
<1> QED BY <1>1, Inductive, PTL DEF Spec, InOrder

------------------------------------------------------------------------------
(* The sender's own state, as far as the order of the messages rests on it. *)
SenderOK ==
    /\ stage \in {"idle", "adding", "retrying", "sending"}
    /\ stage = "sending" => from = next
    /\ from \in 1 .. NumMessages + 1
    /\ next \in from .. NumMessages + 1
    /\ total \in [1 .. NumMessages -> Nat]
    /\ calls \in 0 .. MaxCalls

InLog(m) == \E j \in DOMAIN log : log[j] = m

(* The messages before the batch at hand have been accepted in this call,  *)
(* and all of them have when it has returned nil.                          *)
SentInLog ==
    /\ stage # "idle" => \A m \in 1 .. from - 1 : InLog(m)
    /\ outcome = "ok" => stage = "idle" /\ \A m \in 1 .. NumMessages : InLog(m)

(* No message is in the partition before the ones before it in the list    *)
(* have been there at least once.                                          *)
LogPrefixed ==
    \A i \in DOMAIN log : \A m \in 1 .. NumMessages :
        m < log[i] => \E j \in DOMAIN log : j < i /\ log[j] = m

(* How many messages calls can have sent: each of those over the whole     *)
(* list, the one under way what is before its batch.                       *)
MostSent ==
    IF stage = "idle" THEN calls * NumMessages ELSE (calls - 1) * NumMessages + from - 1

LogOK ==
    /\ log \in Seq(1 .. NumMessages)
    /\ published = FirstCheckpoint + Len(log)
    /\ Len(log) <= MostSent

SenderInv == SenderOK /\ LogOK /\ SentInLog /\ LogPrefixed

(* The events that handlers were called with leave no gap.                 *)
TriedClosed == \A e \in tried : (FirstCheckpoint + 1) .. e \subseteq tried

PipeInv == IInv /\ SenderInv /\ TriedClosed

LEMMA BatchType ==
    ASSUME NEW first \in 1 .. NumMessages + 1, NEW last \in 0 .. NumMessages,
           NEW n \in Nat, n = (IF first <= last THEN last - first + 1 ELSE 0)
    PROVE  /\ Batch(first, last) \in Seq(1 .. NumMessages)
           /\ Len(Batch(first, last)) = n
           /\ \A k \in 1 .. n : Batch(first, last)[k] = first + k - 1
<1> USE PipelineAssumption DEF PipelineAssumption
<1>1. 1 .. last - first + 1 = 1 .. n
    OBVIOUS
<1>2. Batch(first, last) = [k \in 1 .. n |-> first + k - 1]
    BY <1>1 DEF Batch
<1>3. \A k \in 1 .. n : first + k - 1 \in 1 .. NumMessages
    OBVIOUS
<1>4. [k \in 1 .. n |-> first + k - 1] \in [1 .. n -> 1 .. NumMessages]
    BY <1>3
<1> QED BY <1>2, <1>4

(* What one batch does to the partition, when what is before it in the     *)
(* list is there already: first .. last is appended, in order.             *)
LEMMA Appended ==
    ASSUME SenderOK, LogOK, LogPrefixed,
           NEW a \in 1 .. NumMessages + 1, NEW b \in a - 1 .. NumMessages,
           \A m \in 1 .. a - 1 : InLog(m),
           Accepted = a .. b,
           NEW first \in 1 .. NumMessages + 1, NEW last \in 0 .. NumMessages,
           Accepted = first .. last,
           log' = log \o Batch(first, last)
    PROVE  /\ log' \in Seq(1 .. NumMessages)
           /\ Len(log') = Len(log) + b - a + 1
           /\ LogPrefixed'
           /\ \A m \in 1 .. b : InLog(m)'
<1> USE PipelineAssumption DEF PipelineAssumption
<1> DEFINE n == b - a + 1
           new == Batch(first, last)
<1>1. n \in Nat /\ n = (IF first <= last THEN last - first + 1 ELSE 0) /\ (n > 0 => first = a)
  <2>1. a .. b = first .. last
      OBVIOUS
  <2>2. CASE a <= b
    <3>1. a \in first .. last /\ b \in first .. last
        BY <2>1, <2>2
    <3>2. first \in a .. b /\ last \in a .. b
        BY <2>1, <3>1
    <3> QED BY <2>2, <3>1, <3>2
  <2>3. CASE ~(a <= b)
    <3>1. ~(first <= last)
      <4>1. first <= last => first \in first .. last
          OBVIOUS
      <4> QED BY <2>1, <2>3, <4>1
    <3> QED BY <2>3, <3>1
  <2> QED BY <2>2, <2>3
<1>2. /\ new \in Seq(1 .. NumMessages)
      /\ Len(new) = n
      /\ \A k \in 1 .. n : new[k] = a + k - 1
  <2>1. /\ Batch(first, last) \in Seq(1 .. NumMessages)
        /\ Len(Batch(first, last)) = n
        /\ \A k \in 1 .. n : Batch(first, last)[k] = first + k - 1
    <3> HIDE DEF n
    <3> QED BY <1>1, BatchType
  <2>2. \A k \in 1 .. n : first + k - 1 = a + k - 1
      BY <1>1
  <2> QED BY <2>1, <2>2
<1>3. log \in Seq(1 .. NumMessages)
    BY DEF LogOK
<1> HIDE DEF n, new
<1>4. /\ log \o new \in Seq(1 .. NumMessages)
      /\ Len(log \o new) = Len(log) + Len(new)
      /\ \A i \in 1 .. Len(log) + Len(new) :
            (log \o new)[i] = IF i <= Len(log) THEN log[i] ELSE new[i - Len(log)]
    BY <1>2, <1>3, ConcatProperties
<1>5. /\ log' \in Seq(1 .. NumMessages)
      /\ Len(log') = Len(log) + n
      /\ \A i \in 1 .. Len(log) : log'[i] = log[i]
      /\ \A k \in 1 .. n : log'[Len(log) + k] = a + k - 1
      /\ n \in Nat /\ Len(log) \in Nat
  <2>1. log' = log \o new
      BY DEF new
  <2>2. n \in Nat /\ Len(log) \in Nat
      BY <1>1, <1>3
  <2>3. \A k \in 1 .. n : log'[Len(log) + k] = new[k]
    <3> SUFFICES ASSUME NEW k \in 1 .. n PROVE log'[Len(log) + k] = new[k]
        OBVIOUS
    <3>1. /\ Len(log) + k \in 1 .. Len(log) + Len(new)
          /\ ~(Len(log) + k <= Len(log))
          /\ Len(log) + k - Len(log) = k
        BY <1>2, <2>2
    <3> QED BY <1>4, <2>1, <3>1
  <2> QED BY <1>2, <1>4, <2>1, <2>2, <2>3
<1>6. DOMAIN log = 1 .. Len(log) /\ DOMAIN log' = 1 .. Len(log) + n
    BY <1>3, <1>5
<1>7. \A m \in 1 .. NumMessages : InLog(m) => \E j \in 1 .. Len(log) : log'[j] = m
    BY <1>5, <1>6 DEF InLog
<1>a. \A m \in 1 .. NumMessages : m < a => \E j \in 1 .. Len(log) : log'[j] = m
  <2> SUFFICES ASSUME NEW m \in 1 .. NumMessages, m < a
               PROVE  \E j \in 1 .. Len(log) : log'[j] = m
      OBVIOUS
  <2>1. m \in 1 .. a - 1
      OBVIOUS
  <2>2. InLog(m)
      BY <2>1
  <2> QED BY <1>7, <2>2
<1>b. 1 .. Len(log) \subseteq DOMAIN log' /\ \A m \in 1 .. b : m \in 1 .. NumMessages
    BY <1>5, <1>6
<1>8. ASSUME NEW m \in 1 .. b PROVE InLog(m)'
  <2>1. CASE m < a
      BY <1>a, <1>b, <2>1 DEF InLog
  <2>2. CASE m >= a
    <3>1. m - a + 1 \in 1 .. n /\ a + (m - a + 1) - 1 = m
        BY <2>2 DEF n
    <3>2. log'[Len(log) + (m - a + 1)] = m
        BY <1>5, <3>1
    <3>3. Len(log) + (m - a + 1) \in DOMAIN log'
        BY <1>5, <1>6, <3>1
    <3> QED BY <3>2, <3>3 DEF InLog
  <2> QED BY <2>1, <2>2
<1>c. \A i \in DOMAIN log' : i \in Nat /\ i <= Len(log) + n
  <2>1. \A i \in 1 .. Len(log) + n : i \in Nat /\ i <= Len(log) + n
      BY <1>5
  <2> QED BY <1>6, <2>1
<1>9. ASSUME NEW i \in DOMAIN log', NEW m \in 1 .. NumMessages, m < log'[i]
      PROVE  \E j \in DOMAIN log' : j < i /\ log'[j] = m
  <2>1. CASE i <= Len(log)
    <3>1. PICK j \in DOMAIN log : j < i /\ log[j] = m
        BY <1>5, <1>6, <1>9, <2>1 DEF LogPrefixed
    <3> QED BY <1>5, <1>6, <3>1
  <2>2. CASE i > Len(log)
    <3>1. i - Len(log) \in 1 .. n /\ Len(log) + (i - Len(log)) = i
        BY <1>5, <1>6, <2>2
    <3>2. log'[i] = a + (i - Len(log)) - 1
        BY <1>5, <3>1
    <3>3. CASE m < a
      <4>1. PICK j \in 1 .. Len(log) : log'[j] = m
          BY <1>a, <3>3
      <4>2. j \in DOMAIN log' /\ j <= Len(log) /\ i \in Nat /\ Len(log) \in Nat
          BY <1>5, <1>b, <1>c
      <4>3. j < i
          BY <2>2, <4>2
      <4> QED BY <4>1, <4>2, <4>3
    <3>4. CASE m >= a
      <4>0. /\ i \in Nat /\ Len(log) \in Nat /\ n \in Nat /\ i - Len(log) \in 1 .. n
            /\ m < a + (i - Len(log)) - 1
          BY <1>5, <1>9, <1>c, <3>1, <3>2
      <4>1. /\ m - a + 1 \in 1 .. n
            /\ m - a + 1 < i - Len(log)
            /\ a + (m - a + 1) - 1 = m
          BY <3>4, <4>0
      <4>2. log'[Len(log) + (m - a + 1)] = m
          BY <1>5, <4>1
      <4>3. Len(log) + (m - a + 1) \in DOMAIN log' /\ Len(log) + (m - a + 1) < i
          BY <1>5, <1>6, <4>1
      <4> QED BY <4>2, <4>3
    <3> QED BY <3>3, <3>4
  <2>3. i <= Len(log) \/ i > Len(log)
    <3>1. i \in Nat /\ Len(log) \in Nat
        BY <1>5, <1>c
    <3> QED BY <3>1
  <2> QED BY <2>1, <2>2, <2>3, Zenon
<1>10. Len(log') = Len(log) + b - a + 1
    BY <1>5 DEF n
<1>11. LogPrefixed'
    BY <1>9 DEF LogPrefixed
<1> QED BY <1>5, <1>8, <1>10, <1>11

(* Every step of the sender adds a stretch of the list that begins where   *)
(* what it has sent in this call ends, or at the beginning of the list.    *)
LEMMA SenderStep ==
    ASSUME SenderInv, Send
    PROVE  SenderInv' /\ Len(log) <= Len(log')
<1> USE PipelineAssumption DEF PipelineAssumption, SenderInv, SenderOK
<1>1. PICK first \in 1 .. NumMessages + 1, last \in 0 .. NumMessages :
          Accepted = first .. last /\ log' = log \o Batch(first, last)
    BY DEF Send
<1>2. published' = FirstCheckpoint + Len(log')
    BY DEF Send
<1>3. Len(log) \in Nat /\ log \in Seq(1 .. NumMessages) /\ Len(log) <= MostSent
    BY DEF LogOK
<1>4. ASSUME NEW a \in 1 .. NumMessages + 1, NEW b \in a - 1 .. NumMessages,
             \A m \in 1 .. a - 1 : InLog(m), Accepted = a .. b
      PROVE  /\ log' \in Seq(1 .. NumMessages)
             /\ Len(log') = Len(log) + b - a + 1
             /\ LogPrefixed'
             /\ \A m \in 1 .. b : InLog(m)'
    BY <1>1, <1>4, Appended DEF SenderInv
<1>5. ASSUME total' = total
      PROVE  log' = log /\ \A m : InLog(m)' <=> InLog(m)
  <2>1. Accepted = {}
      BY <1>5 DEF Accepted
  <2>2. ~(first <= last)
    <3>1. first <= last => first \in first .. last
        OBVIOUS
    <3> QED BY <1>1, <2>1, <3>1
  <2>3. Batch(first, last) = << >>
      BY <2>2, BatchType
  <2>4. log' = log
      BY <1>1, <1>3, <2>3
  <2> QED BY <2>4 DEF InLog
<1>6. ASSUME NEW a \in 1 .. NumMessages + 1, NEW b \in a - 1 .. NumMessages,
             total' = [m \in 1 .. NumMessages |-> total[m] + IF a <= m /\ m <= b THEN 1 ELSE 0]
      PROVE  Accepted = a .. b
    BY <1>6 DEF Accepted
<1>7. ASSUME Sender!Accept, stage = "adding"
      PROVE  Accepted = from .. next - 1 /\ from \in 1 .. NumMessages + 1
             /\ next - 1 \in from - 1 .. NumMessages /\ \A m \in 1 .. from - 1 : InLog(m)
  <2>1. total' = [m \in 1 .. NumMessages |->
                    total[m] + IF from <= m /\ m <= next - 1 THEN 1 ELSE 0]
      BY <1>7 DEF Sender!Accept, Sender!Messages, Sender!InBatch
  <2>2. next - 1 \in from - 1 .. NumMessages
      OBVIOUS
  <2> QED BY <1>6, <1>7, <2>1, <2>2 DEF SentInLog
<1>8. /\ calls \in Int
      /\ (calls + 1) * NumMessages = calls * NumMessages + NumMessages
      /\ (calls - 1) * NumMessages = calls * NumMessages - NumMessages
      /\ calls * NumMessages \in Int
    OBVIOUS
<1>9. CASE Sender!SendToPartition
  <2>1. PICK arrived \in BOOLEAN, ok \in BOOLEAN :
            /\ ok => arrived
            /\ total' = [m \in 1 .. NumMessages |-> total[m] + IF arrived THEN 1 ELSE 0]
            /\ outcome' = IF ok THEN "ok" ELSE "failed"
      BY <1>9 DEF Sender!SendToPartition, Sender!Messages
  <2>2. /\ stage = "idle" /\ stage' = "idle" /\ calls' = calls + 1 /\ calls < MaxCalls
        /\ from' = from /\ next' = next
      BY <1>9 DEF Sender!SendToPartition, Sender!packing
  <2>3. SenderOK'
      BY <2>1, <2>2
  <2>4. CASE arrived
    <3>1. total' = [m \in 1 .. NumMessages |->
                      total[m] + IF 1 <= m /\ m <= NumMessages THEN 1 ELSE 0]
        BY <2>1, <2>4
    <3>2. 1 \in 1 .. NumMessages + 1 /\ NumMessages \in 1 - 1 .. NumMessages
        OBVIOUS
    <3>3. Accepted = 1 .. NumMessages
        BY <1>6, <3>1, <3>2
    <3>4. /\ log' \in Seq(1 .. NumMessages)
          /\ Len(log') = Len(log) + NumMessages - 1 + 1
          /\ LogPrefixed'
          /\ \A m \in 1 .. NumMessages : InLog(m)'
        BY <1>4, <3>2, <3>3
    <3>5. Len(log') <= MostSent'
        BY <1>3, <1>8, <2>2, <3>4 DEF MostSent
    <3>6. SentInLog'
        BY <2>2, <3>4 DEF SentInLog
    <3>7. Len(log) <= Len(log')
        BY <1>3, <3>4
    <3> QED BY <1>2, <2>3, <3>4, <3>5, <3>6, <3>7 DEF LogOK
  <2>5. CASE ~arrived
    <3>1. total' = total
        BY <2>1, <2>5
    <3>2. log' = log
        BY <1>5, <3>1
    <3>3. Len(log') <= MostSent'
        BY <1>3, <1>8, <2>2, <3>2 DEF MostSent
    <3>4. outcome' # "ok"
        BY <2>1, <2>5
    <3> QED BY <1>2, <1>3, <2>2, <2>3, <3>2, <3>3, <3>4 DEF LogOK, SentInLog, LogPrefixed
  <2> QED BY <2>4, <2>5
<1>10. CASE Sender!Call
  <2>1. /\ stage = "idle" /\ total' = total /\ from' = 1 /\ next' = 1
        /\ calls' = calls + 1 /\ calls < MaxCalls
        /\ \/ stage' \in {"adding", "sending"} /\ outcome' = "none"
           \/ stage' = "idle" /\ outcome' = "failed"
      BY <1>10 DEF Sender!Call
  <2>2. log' = log
      BY <1>5, <2>1
  <2>3. SenderOK'
      BY <2>1
  <2>4. Len(log') <= MostSent'
      BY <1>3, <1>8, <2>1, <2>2 DEF MostSent
  <2> QED BY <1>2, <1>3, <2>1, <2>2, <2>3, <2>4 DEF LogOK, SentInLog, LogPrefixed
<1>11. CASE Sender!Add
  <2>1. /\ stage \in {"adding", "retrying"} /\ total' = total /\ from' = from /\ next <= NumMessages
        /\ next' = next + 1 /\ calls' = calls /\ stage' = "adding" /\ outcome' = outcome
      BY <1>11 DEF Sender!Add
  <2>2. log' = log
      BY <1>5, <2>1
  <2>3. SenderOK'
      BY <2>1
  <2>4. Len(log') <= MostSent'
      BY <1>3, <2>1, <2>2 DEF MostSent
  <2> QED BY <1>2, <1>3, <2>1, <2>2, <2>3, <2>4 DEF LogOK, SentInLog, LogPrefixed, InLog
<1>12. CASE Sender!SendFull
  <2>1. /\ stage = "adding" /\ stage' = "retrying" /\ Sender!Accept
        /\ from' = next /\ next' = next /\ calls' = calls /\ outcome' = outcome
      BY <1>12 DEF Sender!SendFull, Sender!NewBatch
  <2>2. total' \in [1 .. NumMessages -> Nat]
      BY <2>1 DEF Sender!Accept, Sender!Messages
  <2>3. SenderOK'
      BY <2>1, <2>2
  <2>4. /\ log' \in Seq(1 .. NumMessages)
        /\ Len(log') = Len(log) + (next - 1) - from + 1
        /\ LogPrefixed'
        /\ \A m \in 1 .. next - 1 : InLog(m)'
      BY <1>4, <1>7, <2>1
  <2>5. Len(log') <= MostSent'
      BY <1>3, <1>8, <2>1, <2>4 DEF MostSent
  <2>6. SentInLog'
      BY <2>1, <2>4 DEF SentInLog
  <2> QED BY <1>2, <1>3, <2>3, <2>4, <2>5, <2>6 DEF LogOK
<1>13. ASSUME stage = "adding", Sender!Accept \/ UNCHANGED total, UNCHANGED <<from, next, calls>>,
              stage' = "idle",
              outcome' = "failed" \/ (outcome' = "ok" /\ next = NumMessages + 1
                                        /\ (from < next => Sender!Accept))
       PROVE  SenderInv' /\ Len(log) <= Len(log')
  <2>1. SenderOK'
      BY <1>13 DEF Sender!Accept, Sender!Messages
  <2>2. CASE Sender!Accept
    <3>1. /\ log' \in Seq(1 .. NumMessages)
          /\ Len(log') = Len(log) + (next - 1) - from + 1
          /\ LogPrefixed'
          /\ \A m \in 1 .. next - 1 : InLog(m)'
        BY <1>4, <1>7, <1>13, <2>2
    <3>2. Len(log') <= MostSent'
        BY <1>3, <1>8, <1>13, <3>1 DEF MostSent
    <3>3. SentInLog'
        BY <1>13, <3>1 DEF SentInLog
    <3> QED BY <1>2, <1>3, <2>1, <3>1, <3>2, <3>3 DEF LogOK
  <2>3. CASE UNCHANGED total
    <3>1. log' = log /\ \A m : InLog(m)' <=> InLog(m)
        BY <1>5, <2>3
    <3>2. Len(log') <= MostSent'
        BY <1>3, <1>8, <1>13, <3>1 DEF MostSent
    <3>3. SentInLog'
      <4>1. CASE from < next /\ outcome' = "ok"
        <5>1. total[from] \in Nat /\ total'[from] = total[from] + 1
            BY <1>13, <4>1 DEF Sender!Accept, Sender!Messages, Sender!InBatch
        <5> QED BY <2>3, <5>1
      <4>2. CASE ~(from < next) /\ outcome' = "ok"
        <5>1. from = NumMessages + 1
            BY <1>13, <4>2
        <5> QED BY <1>13, <3>1, <5>1 DEF SentInLog
      <4>3. CASE outcome' # "ok"
          BY <1>13, <4>3 DEF SentInLog
      <4> QED BY <4>1, <4>2, <4>3
    <3> QED BY <1>2, <1>3, <2>1, <3>1, <3>2, <3>3 DEF LogOK, LogPrefixed
  <2> QED BY <1>13, <2>2, <2>3
<1>14. CASE Sender!SendFullFails \/ Sender!SendLastFails
    BY <1>13, <1>14 DEF Sender!SendFullFails, Sender!SendLastFails, Sender!Return,
                        Sender!packing
<1>15. CASE Sender!SendLast
    BY <1>13, <1>15 DEF Sender!SendLast, Sender!Return, Sender!packing
<1>16. CASE Sender!TooLarge
  <2>1. /\ stage = "retrying" /\ stage' = "idle" /\ total' = total /\ outcome' = "failed"
        /\ UNCHANGED <<from, next, calls>>
      BY <1>16 DEF Sender!TooLarge, Sender!Return, Sender!packing
  <2>2. log' = log
      BY <1>5, <2>1
  <2>3. SenderOK'
      BY <2>1
  <2>4. Len(log') <= MostSent'
      BY <1>3, <1>8, <2>1, <2>2 DEF MostSent
  <2> QED BY <1>2, <1>3, <2>1, <2>2, <2>3, <2>4 DEF LogOK, SentInLog, LogPrefixed
<1>17. ASSUME stage = "sending", next <= NumMessages, Sender!AcceptOne
       PROVE  /\ total' \in [1 .. NumMessages -> Nat]
              /\ log' \in Seq(1 .. NumMessages)
              /\ Len(log') = Len(log) + 1
              /\ LogPrefixed'
              /\ \A m \in 1 .. next : InLog(m)'
  <2>1. next \in 1 .. NumMessages /\ from = next
      BY <1>17
  <2>2. total' = [total EXCEPT ![next] = @ + 1]
      BY <1>17 DEF Sender!AcceptOne
  <2>3. total' = [m \in 1 .. NumMessages |-> total[m] + IF next <= m /\ m <= next THEN 1 ELSE 0]
    <3>1. ASSUME NEW m \in 1 .. NumMessages
          PROVE  total'[m] = total[m] + IF next <= m /\ m <= next THEN 1 ELSE 0
      <4>1. CASE m = next
          BY <2>1, <2>2, <4>1
      <4>2. CASE m # next
          BY <2>1, <2>2, <4>2
      <4> QED BY <4>1, <4>2
    <3>2. total' = [m \in 1 .. NumMessages |-> total'[m]]
        BY <2>2
    <3> QED BY <3>1, <3>2
  <2>4. next \in 1 .. NumMessages + 1 /\ next \in next - 1 .. NumMessages
      BY <2>1
  <2>5. Accepted = next .. next
      BY <1>6, <2>3, <2>4
  <2>6. \A m \in 1 .. next - 1 : InLog(m)
      BY <1>17, <2>1 DEF SentInLog
  <2>7. /\ log' \in Seq(1 .. NumMessages)
        /\ Len(log') = Len(log) + next - next + 1
        /\ LogPrefixed'
        /\ \A m \in 1 .. next : InLog(m)'
      BY <1>4, <2>4, <2>5, <2>6
  <2> QED BY <1>3, <2>1, <2>2, <2>7
<1>18. CASE Sender!Send
  <2>1. /\ stage = "sending" /\ stage' = "sending" /\ next <= NumMessages /\ Sender!AcceptOne
        /\ next' = next + 1 /\ from' = next + 1 /\ calls' = calls /\ outcome' = outcome
      BY <1>18 DEF Sender!Send
  <2>2. SenderOK'
      BY <1>17, <2>1
  <2>3. Len(log') <= MostSent'
      BY <1>3, <1>8, <1>17, <2>1 DEF MostSent
  <2>4. SentInLog'
      BY <1>17, <2>1 DEF SentInLog
  <2> QED BY <1>2, <1>3, <1>17, <2>1, <2>2, <2>3, <2>4 DEF LogOK
<1>19. CASE Sender!SendFails
  <2>1. /\ stage = "sending" /\ stage' = "idle" /\ next <= NumMessages /\ outcome' = "failed"
        /\ UNCHANGED <<from, next, calls>>
        /\ Sender!AcceptOne \/ UNCHANGED total
      BY <1>19 DEF Sender!SendFails, Sender!Return, Sender!packing
  <2>2. SentInLog'
      BY <2>1 DEF SentInLog
  <2>3. CASE Sender!AcceptOne
    <3>1. SenderOK'
        BY <1>17, <2>1, <2>3
    <3>2. Len(log') <= MostSent'
        BY <1>3, <1>8, <1>17, <2>1, <2>3 DEF MostSent
    <3> QED BY <1>2, <1>3, <1>17, <2>1, <2>2, <2>3, <3>1, <3>2 DEF LogOK
  <2>4. CASE UNCHANGED total
    <3>1. log' = log
        BY <1>5, <2>4
    <3>2. SenderOK'
        BY <2>1, <2>4
    <3>3. Len(log') <= MostSent'
        BY <1>3, <1>8, <2>1, <3>1 DEF MostSent
    <3> QED BY <1>2, <1>3, <2>2, <3>1, <3>2, <3>3 DEF LogOK, LogPrefixed
  <2> QED BY <2>1, <2>3, <2>4
<1>20. CASE Sender!SentEach
  <2>1. /\ stage = "sending" /\ stage' = "idle" /\ next = NumMessages + 1 /\ total' = total
        /\ UNCHANGED <<from, next, calls>>
      BY <1>20 DEF Sender!SentEach, Sender!Return, Sender!packing
  <2>2. log' = log /\ \A m : InLog(m)' <=> InLog(m)
      BY <1>5, <2>1
  <2>3. SenderOK'
      BY <2>1
  <2>4. Len(log') <= MostSent'
      BY <1>3, <1>8, <2>1, <2>2 DEF MostSent
  <2>5. SentInLog'
      BY <2>1, <2>2 DEF SentInLog
  <2> QED BY <1>2, <1>3, <2>2, <2>3, <2>4, <2>5 DEF LogOK, LogPrefixed
<1> QED BY <1>9, <1>10, <1>11, <1>12, <1>14, <1>15, <1>16, <1>18, <1>19, <1>20
        DEF Send, Sender!Next

(* The partition has room for all that the calls can send.                 *)
LEMMA RoomForAll ==
    ASSUME SenderInv
    PROVE  published \in Positions
<1> USE PipelineAssumption DEF PipelineAssumption, SenderInv, SenderOK, LogOK
<1> DEFINE most == MaxCalls * NumMessages
           sent == calls * NumMessages
<1>1. sent \in Nat /\ most \in Nat /\ sent <= most
  <2>1. \A x, y, n \in Nat : x <= y => x * n <= y * n /\ x * n \in Nat /\ y * n \in Nat
      OBVIOUS
  <2>2. calls \in Nat /\ MaxCalls \in Nat /\ NumMessages \in Nat /\ calls <= MaxCalls
      OBVIOUS
  <2> QED BY <2>1, <2>2
<1>2. (calls - 1) * NumMessages = sent - NumMessages
    OBVIOUS
<1>3. NumMessages \in Nat /\ from \in 1 .. NumMessages + 1 /\ LastEvent >= FirstCheckpoint + most
      /\ published = FirstCheckpoint + Len(log) /\ Len(log) \in Nat
      /\ FirstCheckpoint \in Nat /\ LastEvent \in Nat
    BY DEF None
<1>4. Len(log) <= IF stage = "idle" THEN sent ELSE sent - NumMessages + from - 1
    BY <1>2 DEF MostSent
<1> HIDE DEF most, sent
<1>5. Len(log) <= most
    BY <1>1, <1>3, <1>4
<1> QED BY <1>1, <1>3, <1>5 DEF Positions

LEMMA PipeInitInv == PipeInit => PipeInv
<1> SUFFICES ASSUME PipeInit PROVE PipeInv
    OBVIOUS
<1> USE PipelineAssumption DEF PipelineAssumption
<1>1. IInv
    BY InitInv DEF PipeInit
<1>2. TriedClosed
    BY DEF PipeInit, Init, TriedClosed
<1>3. SenderOK
    BY DEF PipeInit, Sender!Init, Sender!Messages, SenderOK
<1>4. LogOK
    BY <1>3 DEF PipeInit, Sender!Init, LogOK, MostSent, SenderOK
<1>5. SentInLog /\ LogPrefixed
    BY DEF PipeInit, Sender!Init, SentInLog, LogPrefixed
<1> QED BY <1>1, <1>2, <1>3, <1>4, <1>5 DEF PipeInv, SenderInv

(* The consumers neither see nor change what the sender has in hand, and   *)
(* all the sender does for them is to add to the partition.                *)
LEMMA PipeNextInv == PipeInv /\ [PipeNext]_pipeVars => PipeInv'
<1> SUFFICES ASSUME PipeInv, [PipeNext]_pipeVars PROVE PipeInv'
    OBVIOUS
<1> USE PipelineAssumption DEF PipelineAssumption, PipeInv
<1>1. CASE Send
  <2>1. SenderInv' /\ Len(log) <= Len(log')
      BY <1>1, SenderStep
  <2>2. published' \in Positions /\ published <= published'
    <3>1. (SenderInv => published \in Positions)'
        BY RoomForAll, PTL
    <3> QED BY <2>1, <3>1 DEF SenderInv, LogOK, None
  <2>3. UNCHANGED <<checkpoint, owner, pc, position, done, tried>>
      BY <1>1 DEF Send
  <2>4. IInv'
      BY <2>2, <2>3 DEF IInv, TypeOK, InBounds, DoneIsTried, NonePassedOver, Positions, None
  <2> QED BY <2>1, <2>3, <2>4 DEF TriedClosed
<1>2. CASE Receipt
  <2>1. IInv'
      BY <1>2, NextInv DEF Receipt, Next
  <2>2. UNCHANGED <<senderVars, log, published>>
      BY <1>2 DEF Receipt, Consume, Claim, Receive, ReceiveFails, Handle, Store, Crash
  <2>3. SenderInv'
      BY <2>2 DEF senderVars, SenderInv, SenderOK, LogOK, MostSent, SentInLog, InLog, LogPrefixed
  <2>4. CASE tried' = tried
      BY <2>1, <2>3, <2>4 DEF TriedClosed
  <2>5. ASSUME NEW i \in Instances, Handle(i) PROVE TriedClosed'
    <3>1. (FirstCheckpoint + 1) .. done[i] \subseteq tried /\ done[i] \in Nat
        BY <2>5 DEF Handle, IInv, DoneIsTried, TypeOK, Positions
    <3>2. tried' = tried \cup {done[i] + 1}
        BY <2>5 DEF Handle
    <3>3. FirstCheckpoint \in Int
        BY DEF None
    <3> QED BY <3>1, <3>2, <3>3 DEF TriedClosed
  <2> QED BY <1>2, <2>1, <2>3, <2>4, <2>5
          DEF Receipt, Consume, Claim, Receive, ReceiveFails, Store, Crash
<1>3. CASE UNCHANGED pipeVars
  <2>1. UNCHANGED vars /\ UNCHANGED <<senderVars, log>>
      BY <1>3 DEF pipeVars
  <2>2. IInv'
      BY <2>1, NextInv
  <2> QED BY <2>1, <2>2 DEF vars, senderVars, SenderInv, SenderOK, LogOK, MostSent, SentInLog,
                            InLog, LogPrefixed, TriedClosed
<1> QED BY <1>1, <1>2, <1>3 DEF PipeNext

LEMMA PipeInductive == PipeSpec => []PipeInv
<1> QED BY PipeInitInv, PipeNextInv, PTL DEF PipeSpec

(* From one end of the pipeline to the other: a message gets to a handler  *)
(* only after every message before it in the sender's list did, whatever   *)
(* was sent twice, refused or lost, and whoever had the partition.         *)
THEOREM HandledInListOrder == PipeSpec => []PrefixHandled
<1>1. PipeInv => PrefixHandled
  <2> SUFFICES ASSUME PipeInv,
                      NEW m \in 1 .. NumMessages, NEW n \in 1 .. NumMessages,
                      m < n, Handled(n)
               PROVE  Handled(m)
      BY DEF PrefixHandled
  <2>1. PICK i \in DOMAIN log : log[i] = n /\ FirstCheckpoint + i \in tried
      BY DEF Handled
  <2>2. PICK j \in DOMAIN log : j < i /\ log[j] = m
      BY <2>1 DEF PipeInv, SenderInv, LogPrefixed
  <2>3. i \in Nat /\ j \in Nat /\ j >= 1 /\ FirstCheckpoint \in Int
    <3>1. log \in Seq(1 .. NumMessages)
        BY DEF PipeInv, SenderInv, LogOK
    <3>2. FirstCheckpoint \in Int
        BY PipelineAssumption DEF PipelineAssumption, None
    <3> QED BY <3>1, <3>2
  <2>4. FirstCheckpoint + j \in (FirstCheckpoint + 1) .. (FirstCheckpoint + i)
      BY <2>2, <2>3
  <2>5. FirstCheckpoint + j \in tried
      BY <2>1, <2>4 DEF PipeInv, TriedClosed
  <2> QED BY <2>2, <2>5 DEF Handled
<1> QED BY <1>1, PipeInductive, PTL

(* The events of a sender that packs, fails and sends again reach the      *)
(* consumers without a gap: no event below the checkpoint is passed over.  *)
THEOREM NoMessageSkipped == PipeSpec => []NonePassedOver
<1>1. PipeInv => NonePassedOver
    BY DEF PipeInv, IInv
<1> QED BY <1>1, PipeInductive, PTL

(* A call that returns nil has put every message of its list into the      *)
(* partition, whatever batches and calls it took.                          *)
OkMeansInPartition == outcome = "ok" => \A m \in 1 .. NumMessages : InLog(m)

THEOREM AcknowledgedIsStored == PipeSpec => []OkMeansInPartition
<1>1. PipeInv => OkMeansInPartition
    BY DEF PipeInv, SenderInv, SentInLog, OkMeansInPartition
<1> QED BY <1>1, PipeInductive, PTL

(* The sender in the pipeline is BatchSender as it stands: what consumers  *)
(* do is a stutter of it.                                                  *)
THEOREM PipelineRefinesSender == PipeSpec => Sender!Spec
<1>1. PipeInit => Sender!Init
    BY DEF PipeInit
<1>2. [PipeNext]_pipeVars => [Sender!Next]_(Sender!vars)
    BY DEF PipeNext, pipeVars, Send, Receipt, senderVars, Sender!vars
<1> QED BY <1>1, <1>2, PTL DEF PipeSpec, Sender!Spec

(* Events are tried in the order of the partition here too, although it    *)
(* grows by a whole batch at a time.                                       *)
THEOREM PipelineTriesInOrder == PipeSpec => InOrder
<1> DEFINE Ordered == \A e \in tried' \ tried :
          FirstCheckpoint # None /\ e > FirstCheckpoint + 1 => e - 1 \in tried
<1>1. PipeInv /\ [PipeNext]_pipeVars => [Ordered]_vars
  <2> SUFFICES ASSUME PipeInv, [PipeNext]_pipeVars PROVE Ordered
      OBVIOUS
  <2>1. ASSUME NEW i \in Instances, Handle(i) PROVE Ordered
      BY <2>1 DEF Handle, PipeInv, IInv, TypeOK, InBounds, DoneIsTried, Positions, Events, None
  <2>2. ASSUME tried' = tried PROVE Ordered
      BY <2>2
  <2> QED BY <2>1, <2>2 DEF PipeNext, pipeVars, vars, Send, Receipt, Consume, Claim, Receive,
                            ReceiveFails, Store, Crash
<1> QED BY <1>1, PipeInductive, PTL DEF PipeSpec, InOrder

==============================================================================
