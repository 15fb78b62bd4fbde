--------------------------- MODULE RedisLock_proofs ---------------------------
(***************************************************************************)
(* Proofs about RedisLock, for any clients, ttl, attempts and stray        *)
(* commands: what a client can count on is not taken away, and so no two   *)
(* leases overlap.                                                         *)
(***************************************************************************)
EXTENDS RedisLock, FiniteSetTheorems, TLAPS

(* The values of the attempts under way differ from each other.  A stray   *)
(* command has one of them only if it is a SETNX sent twice, or an Extend  *)
(* of the holder that leaves it what it counts on: why a late command      *)
(* hurts nobody.                                                           *)
Harmless(s, c) ==
    s.v = value[c] =>
        \/ s.op = "set"
        \/ s.op = "pexpire" /\ pc[c] = "holding" /\ s.ms >= lease[c]

Apart ==
    /\ \A c, d \in Trying : value[c] = value[d] => c = d
    /\ \A c \in Trying : \A s \in strays : Harmless(s, c)

(* LeaseHeld is not inductive without Apart: a stray "del" that shared the *)
(* holder's value would remove its key, and so would an Extend by nothing. *)
IInv == TypeOK /\ Apart /\ LeaseHeld

LEMMA FreshValue ==
    ASSUME Fresh # {}
    PROVE  /\ UnixNano \in Values
           /\ \A c \in Trying : value[c] # UnixNano
           /\ \A s \in strays : s.v # UnixNano
BY DEF Fresh, Used, UnixNano

(* Each command of the server keeps its state well-formed and leaves the   *)
(* key of another value alone.                                             *)
LEMMA SetNXKeeps ==
    ASSUME TypeOK, NEW v \in Values, SetNX(v)
    PROVE  /\ key' \in Values \cup {NoLock} /\ ttl' \in 0..TTL
           /\ key' = NoLock <=> ttl' = 0
           /\ key # NoLock => key' = key /\ ttl' = ttl
           /\ key = NoLock => key' = v /\ ttl' = TTL
BY LockAssumption DEF LockAssumption, TypeOK, SetNX, server

LEMMA DeleteKeeps ==
    ASSUME TypeOK, NEW v \in Values, CompareAndDelete(v)
    PROVE  /\ key' \in Values \cup {NoLock} /\ ttl' \in 0..TTL
           /\ key' = NoLock <=> ttl' = 0
           /\ key # v => key' = key /\ ttl' = ttl
BY LockAssumption DEF LockAssumption, TypeOK, CompareAndDelete, server

LEMMA ExpireKeeps ==
    ASSUME TypeOK, NEW v \in Values, NEW ms \in 0..TTL, CompareAndExpire(v, ms)
    PROVE  /\ key' \in Values \cup {NoLock} /\ ttl' \in 0..TTL
           /\ key' = NoLock <=> ttl' = 0
           /\ key # v => key' = key /\ ttl' = ttl
           /\ key = v /\ ms > 0 => key' = key /\ ttl' = ms
BY LockAssumption DEF LockAssumption, TypeOK, CompareAndExpire, server

LEMMA LeaveBehindKeeps ==
    ASSUME TypeOK, NEW op \in {"set", "del", "pexpire"}, NEW v \in Values, NEW ms \in 0..TTL,
           LeaveBehind(op, v, ms)
    PROVE  /\ strays' \in SUBSET Commands
           /\ \A s \in strays' : s \in strays \/ (s.v = v /\ s.op = op /\ s.ms = ms)
BY DEF LeaveBehind, TypeOK, Commands

LEMMA InitHolds == Init => IInv
<1> SUFFICES ASSUME Init PROVE IInv
    OBVIOUS
<1> USE LockAssumption DEF LockAssumption
<1>1. Values # {}
    <2>1. Cardinality(Clients) \in Nat
        BY FS_CardinalityType
    <2> QED BY <2>1, FS_EmptySet
<1>2. TypeOK
    BY <1>1 DEF Init, TypeOK, Stages
<1> QED BY <1>2 DEF Init, IInv, Apart, LeaseHeld, Trying, Winner

(* The client whose attempt begins has a value of its own and no lease. *)
LEMMA AttemptHolds ==
    ASSUME IInv, NEW c \in Clients, NEW from \in {"idle", "waiting"}, Attempt(c, from),
           left' \in [Clients -> 0..(MaxAttempts - 1)],
           \A d \in Clients : d # c => left'[d] = left[d]
    PROVE  IInv'
<1> USE DEF IInv
<1>2. /\ UnixNano \in Values
      /\ \A d \in Trying : value[d] # UnixNano
      /\ \A s \in strays : s.v # UnixNano
    BY FreshValue DEF Attempt
<1>3. /\ pc' = [pc EXCEPT ![c] = "sent"]
      /\ value' = [value EXCEPT ![c] = UnixNano]
      /\ lease' = [lease EXCEPT ![c] = 0]
      /\ UNCHANGED <<key, ttl, strays>>
    BY DEF Attempt, Move
<1>4. TypeOK'
    <2>1. pc' \in [Clients -> Stages]
        BY <1>3 DEF TypeOK, Stages
    <2>2. value' \in [Clients -> Values]
        BY <1>2, <1>3 DEF TypeOK
    <2>3. lease' \in [Clients -> 0..TTL]
        BY <1>3, LockAssumption DEF TypeOK, LockAssumption
    <2>4. \A d \in Clients : pc'[d] = "waiting" => left'[d] > 0
        BY <1>3 DEF TypeOK
    <2> QED BY <1>3, <2>1, <2>2, <2>3, <2>4 DEF TypeOK
<1>5. \A d \in Trying' : d # c => d \in Trying /\ value'[d] = value[d]
    BY <1>3 DEF Trying, TypeOK
<1>6. value'[c] = UnixNano
    BY <1>3 DEF TypeOK
<1>7. Apart'
    <2>1. \A d, e \in Trying' : value'[d] = value'[e] => d = e
        BY <1>2, <1>5, <1>6 DEF Apart
    <2>2. ASSUME NEW d \in Trying', NEW s \in strays' PROVE Harmless(s, d)'
        <3>1. CASE d = c
            BY <1>2, <1>3, <1>6, <3>1 DEF Harmless
        <3>2. CASE d # c
            BY <1>3, <1>5, <3>2 DEF Apart, Harmless, TypeOK, Trying
        <3> QED BY <3>1, <3>2
    <2> QED BY <2>1, <2>2 DEF Apart
<1>8. LeaseHeld'
    BY <1>3 DEF LeaseHeld, Winner, TypeOK
<1> QED BY <1>4, <1>7, <1>8

(* A step that moves one client, with its value, and leaves the key alone. *)
LEMMA QuietStep ==
    ASSUME IInv, NEW c \in Clients, NEW from \in Stages, NEW to \in Stages,
           Move(c, from, to),
           UNCHANGED <<key, ttl, value, left>>,
           \/ to \in {"idle", "waiting"}
           \/ from = "won" /\ to = "holding" /\ UNCHANGED strays,
           UNCHANGED strays \/ c \in Trying,
           to = "waiting" => left[c] > 0,
           strays' \in SUBSET Commands,
           \A s \in strays' : s \in strays \/ s.v = value[c],
           lease' \in [Clients -> 0..TTL],
           \A d \in Clients : lease'[d] = lease[d] \/ lease'[d] = 0
    PROVE  IInv'
<1> USE DEF IInv
<1>1. pc' = [pc EXCEPT ![c] = to] /\ pc[c] = from
    BY DEF Move
<1>2. TypeOK'
    BY <1>1 DEF TypeOK
<1>3. Trying' \subseteq Trying \cup {c} /\ (to \in {"idle", "waiting"} => c \notin Trying')
    BY <1>1 DEF Trying, TypeOK
<1>4. Apart'
    <2>1. CASE to \in {"idle", "waiting"}
        <3>1. Trying' \subseteq Trying /\ c \notin Trying'
            BY <1>3, <2>1
        <3>2. c \in Trying => \A d \in Trying' : value[d] # value[c]
            BY <3>1 DEF Apart
        <3>3. ASSUME NEW d \in Trying', NEW s \in strays' PROVE Harmless(s, d)'
            <4>1. CASE s \in strays
                <5>1. d \in Trying /\ Harmless(s, d) /\ pc'[d] = pc[d]
                    BY <1>1, <3>1, <4>1 DEF Apart, Trying, TypeOK
                <5>2. s.ms \in Nat /\ lease[d] \in Nat
                    BY <4>1 DEF TypeOK, Commands, Trying
                <5>3. lease'[d] = lease[d] \/ lease'[d] = 0
                    BY DEF Trying
                <5> QED BY <5>1, <5>2, <5>3 DEF Harmless
            <4>2. CASE s \notin strays
                BY <3>1, <3>2, <4>2 DEF Harmless
            <4> QED BY <4>1, <4>2
        <3> QED BY <3>1, <3>3 DEF Apart
    <2>2. CASE from = "won" /\ to = "holding" /\ UNCHANGED strays
        <3>1. Trying' \subseteq Trying
            BY <1>1, <1>3, <2>2 DEF Trying
        <3>2. ASSUME NEW d \in Trying', NEW s \in strays' PROVE Harmless(s, d)'
            <4>1. d \in Trying /\ s \in strays /\ Harmless(s, d)
                BY <2>2, <3>1 DEF Apart
            <4>2. s.ms \in Nat /\ lease[d] \in Nat
                BY <4>1 DEF TypeOK, Commands, Trying
            <4>3. lease'[d] = lease[d] \/ lease'[d] = 0
                BY DEF Trying
            <4>4. pc[d] = "holding" => pc'[d] = "holding"
                BY <1>1, <2>2 DEF TypeOK
            <4> QED BY <4>1, <4>2, <4>3, <4>4 DEF Harmless
        <3> QED BY <3>1, <3>2 DEF Apart
    <2> QED BY <2>1, <2>2
<1>5. LeaseHeld'
    <2>1. \A d \in Clients : Winner(d)' => Winner(d)
        BY <1>1 DEF Winner, TypeOK
    <2> QED BY <1>1, <2>1 DEF LeaseHeld, Winner, TypeOK
<1> QED BY <1>2, <1>4, <1>5

(* A step of the server for one value: a lease it leaves is kept when the  *)
(* key of any other value is left alone.                                   *)
LEMMA ServeHolds == ASSUME IInv, NEW c \in Clients, Serve(c) PROVE IInv'
<1> USE LockAssumption DEF LockAssumption, IInv
<1> DEFINE to == IF key = NoLock THEN "won" ELSE "beaten"
           promise == IF key = NoLock THEN TTL ELSE 0
<1>1. /\ pc[c] = "sent" /\ pc' = [pc EXCEPT ![c] = to]
      /\ lease' = [lease EXCEPT ![c] = promise]
      /\ UNCHANGED <<value, left>>
    BY DEF Serve, Move
<1>2. /\ value[c] \in Values
      /\ key' \in Values \cup {NoLock} /\ ttl' \in 0..TTL
      /\ key' = NoLock <=> ttl' = 0
      /\ key # NoLock => key' = key /\ ttl' = ttl
      /\ key = NoLock => key' = value[c] /\ ttl' = TTL
    <2>1. value[c] \in Values
        BY DEF TypeOK
    <2> QED BY <2>1, SetNXKeeps DEF Serve
<1>6. /\ strays' \in SUBSET Commands
      /\ \A s \in strays' : s \in strays \/ (s.v = value[c] /\ s.op = "set" /\ s.ms = TTL)
    <2>1. LeaveBehind("set", value[c], TTL) /\ TTL \in 0..TTL
        BY DEF Serve
    <2> QED BY <1>2, <2>1, LeaveBehindKeeps
<1>3. TypeOK'
    <2>1. pc' \in [Clients -> Stages]
        BY <1>1 DEF TypeOK, Stages
    <2>2. lease' \in [Clients -> 0..TTL]
        BY <1>1 DEF TypeOK
    <2> QED BY <1>1, <1>2, <1>6, <2>1, <2>2 DEF TypeOK
<1>4. Apart'
    <2>1. Trying' = Trying /\ c \in Trying
        BY <1>1 DEF Trying, TypeOK
    <2>2. ASSUME NEW d \in Trying', NEW s \in strays' PROVE Harmless(s, d)'
        <3>1. CASE s \in strays
            <4>1. d \in Trying /\ Harmless(s, d)
                BY <2>1, <3>1 DEF Apart
            <4>2. CASE d = c
                BY <1>1, <4>1, <4>2 DEF Harmless
            <4>3. CASE d # c
                BY <1>1, <4>1, <4>3 DEF Harmless, Trying, TypeOK
            <4> QED BY <4>2, <4>3
        <3>2. CASE s \notin strays
            BY <1>6, <3>2 DEF Harmless
        <3> QED BY <3>1, <3>2
    <2>3. \A d, e \in Trying' : value'[d] = value'[e] => d = e
        BY <1>1, <2>1 DEF Apart
    <2> QED BY <2>2, <2>3 DEF Apart
<1>5. LeaseHeld'
    <2> SUFFICES ASSUME NEW d \in Clients, Winner(d)', lease'[d] > 0
                 PROVE  key' = value'[d] /\ ttl' >= lease'[d]
        BY DEF LeaseHeld
    <2>1. CASE d = c
        BY <1>1, <1>2, <2>1 DEF Winner, TypeOK
    <2>2. CASE d # c
        <3>1. Winner(d) /\ lease[d] > 0 /\ lease'[d] = lease[d]
            BY <1>1, <2>2 DEF Winner, TypeOK
        <3>2. key = value[d] /\ ttl >= lease[d] /\ key # NoLock
            BY <3>1 DEF LeaseHeld, TypeOK
        <3> QED BY <1>1, <1>2, <3>1, <3>2
    <2> QED BY <2>1, <2>2
<1> QED BY <1>3, <1>4, <1>5

(* Extend changes the key of no other holder, and promises no more than    *)
(* the Extends on their way leave.                                         *)
LEMMA ExtendHolds ==
    ASSUME IInv, NEW c \in Clients, NEW ms \in 0..TTL, Extend(c, ms) PROVE IInv'
<1> USE LockAssumption DEF LockAssumption, IInv
<1>1. pc[c] = "holding" /\ UNCHANGED <<pc, value, left>> /\ value[c] \in Values
    BY DEF Extend, TypeOK
<1>2. /\ strays' \in SUBSET Commands
      /\ \A s \in strays' : s \in strays \/ (s.v = value[c] /\ s.op = "pexpire")
    BY <1>1, LeaveBehindKeeps DEF Extend
<1>3. PICK t \in 0..TTL :
          /\ CountOn(c, t)
          /\ \/ CompareAndExpire(value[c], ms) /\ t = IF key = value[c] THEN ms ELSE 0
             \/ UNCHANGED server /\ t = lease[c]
    <2>1. lease[c] \in 0..TTL /\ 0 \in 0..TTL
        BY DEF TypeOK
    <2> QED BY <2>1 DEF Extend
<1>4. /\ key' \in Values \cup {NoLock} /\ ttl' \in 0..TTL
      /\ key' = NoLock <=> ttl' = 0
      /\ key # value[c] => key' = key /\ ttl' = ttl
      /\ t > 0 => key' = value[c] /\ ttl' >= t
    <2>1. CASE CompareAndExpire(value[c], ms) /\ t = IF key = value[c] THEN ms ELSE 0
        <3>1. /\ key' \in Values \cup {NoLock} /\ ttl' \in 0..TTL
              /\ key' = NoLock <=> ttl' = 0
              /\ key # value[c] => key' = key /\ ttl' = ttl
              /\ key = value[c] /\ ms > 0 => key' = key /\ ttl' = ms
            BY <1>1, <2>1, ExpireKeeps
        <3> QED BY <2>1, <3>1
    <2>2. CASE UNCHANGED server /\ t = lease[c]
        BY <1>1, <2>2 DEF LeaseHeld, Winner, server, TypeOK
    <2> QED BY <1>3, <2>1, <2>2
<1>5. PICK kept \in {0, t} :
          /\ lease' = [lease EXCEPT ![c] = kept]
          /\ \A s \in strays' : s.op = "pexpire" /\ s.v = value[c] => s.ms >= kept
    <2>1. CASE \A s \in strays' : s.op = "pexpire" /\ s.v = value[c] => s.ms >= t
        BY <1>3, <2>1 DEF CountOn
    <2>2. CASE ~\A s \in strays' : s.op = "pexpire" /\ s.v = value[c] => s.ms >= t
        <3>1. lease' = [lease EXCEPT ![c] = 0]
            BY <1>3, <2>2, Zenon DEF CountOn
        <3>2. \A s \in strays' : s.ms >= 0
            BY <1>2 DEF Commands
        <3> QED BY <3>1, <3>2
    <2> QED BY <2>1, <2>2
<1>6. TypeOK'
    <2>1. lease' \in [Clients -> 0..TTL]
        BY <1>5 DEF TypeOK
    <2> QED BY <1>1, <1>2, <1>4, <2>1 DEF TypeOK
<1>7. Apart'
    <2>1. Trying' = Trying /\ c \in Trying
        BY <1>1 DEF Trying
    <2>2. ASSUME NEW d \in Trying', NEW s \in strays' PROVE Harmless(s, d)'
        <3>1. CASE d = c
            <4>1. lease'[c] = kept
                BY <1>5 DEF TypeOK
            <4>2. s \in strays => Harmless(s, c)
                BY <2>1 DEF Apart
            <4>3. s.v = value[c] => s.op = "set" \/ s.op = "pexpire"
                BY <1>2, <4>2 DEF Harmless
            <4> QED BY <1>1, <1>5, <3>1, <4>1, <4>3 DEF Harmless
        <3>2. CASE d # c
            <4>1. value[d] # value[c] /\ lease'[d] = lease[d] /\ d \in Trying
                BY <1>5, <2>1, <3>2 DEF Apart, TypeOK, Trying
            <4>2. CASE s \in strays
                BY <1>1, <4>1, <4>2 DEF Apart, Harmless
            <4>3. CASE s \notin strays
                BY <1>1, <1>2, <4>1, <4>3 DEF Harmless
            <4> QED BY <4>2, <4>3
        <3> QED BY <3>1, <3>2
    <2>3. \A d, e \in Trying' : value'[d] = value'[e] => d = e
        BY <1>1, <2>1 DEF Apart
    <2> QED BY <2>2, <2>3 DEF Apart
<1>8. LeaseHeld'
    <2> SUFFICES ASSUME NEW d \in Clients, Winner(d)', lease'[d] > 0
                 PROVE  key' = value'[d] /\ ttl' >= lease'[d]
        BY DEF LeaseHeld
    <2>1. CASE d = c
        <3>1. lease'[c] = kept
            BY <1>5 DEF TypeOK
        <3>2. kept = t /\ t > 0
            BY <2>1, <3>1
        <3> QED BY <1>1, <1>4, <2>1, <3>1, <3>2
    <2>2. CASE d # c
        <3>1. Winner(d) /\ lease[d] > 0 /\ lease'[d] = lease[d]
            BY <1>1, <1>5, <2>2 DEF Winner, TypeOK
        <3>2. key = value[d] /\ ttl >= lease[d]
            BY <3>1 DEF LeaseHeld
        <3>3. value[d] # value[c]
            BY <1>1, <2>2, <3>1 DEF Apart, Trying, Winner
        <3> QED BY <1>1, <1>4, <3>1, <3>2, <3>3
    <2> QED BY <2>1, <2>2
<1> QED BY <1>6, <1>7, <1>8

(* A Release removes at most its own key, and so will any copy of it. *)
LEMMA ReleaseHolds == ASSUME IInv, NEW c \in Clients, Release(c) PROVE IInv'
<1> USE LockAssumption DEF LockAssumption, IInv
<1>1. /\ pc[c] = "holding" /\ pc' = [pc EXCEPT ![c] = "idle"]
      /\ lease' = [lease EXCEPT ![c] = 0]
      /\ UNCHANGED <<value, left>>
    BY DEF Release, Move
<1>2. /\ value[c] \in Values
      /\ key' \in Values \cup {NoLock} /\ ttl' \in 0..TTL
      /\ key' = NoLock <=> ttl' = 0
      /\ key # value[c] => key' = key /\ ttl' = ttl
    <2>1. value[c] \in Values
        BY DEF TypeOK
    <2>2. CASE CompareAndDelete(value[c])
        BY <2>1, <2>2, DeleteKeeps
    <2>3. CASE UNCHANGED server
        BY <2>1, <2>3 DEF server, TypeOK
    <2> QED BY <2>2, <2>3 DEF Release
<1>3. /\ strays' \in SUBSET Commands
      /\ \A s \in strays' : s \in strays \/ s.v = value[c]
    <2>1. LeaveBehind("del", value[c], 0) /\ 0 \in 0..TTL
        BY DEF Release
    <2> QED BY <1>2, <2>1, LeaveBehindKeeps
<1>4. TypeOK'
    <2>1. pc' \in [Clients -> Stages] /\ lease' \in [Clients -> 0..TTL]
        BY <1>1 DEF TypeOK, Stages
    <2> QED BY <1>1, <1>2, <1>3, <2>1 DEF TypeOK
<1>5. Apart'
    <2>1. Trying' \subseteq Trying /\ c \in Trying /\ c \notin Trying'
        BY <1>1 DEF Trying, TypeOK
    <2>2. ASSUME NEW d \in Trying', NEW s \in strays' PROVE Harmless(s, d)'
        <3>1. value[d] # value[c] /\ lease'[d] = lease[d] /\ pc'[d] = pc[d] /\ d \in Trying
            BY <1>1, <2>1 DEF Apart, TypeOK, Trying
        <3>2. CASE s \in strays
            BY <1>1, <3>1, <3>2 DEF Apart, Harmless
        <3>3. CASE s \notin strays
            BY <1>1, <1>3, <3>1, <3>3 DEF Harmless
        <3> QED BY <3>2, <3>3
    <2>3. \A d, e \in Trying' : value'[d] = value'[e] => d = e
        BY <1>1, <2>1 DEF Apart
    <2> QED BY <2>2, <2>3 DEF Apart
<1>6. LeaseHeld'
    <2> SUFFICES ASSUME NEW d \in Clients, Winner(d)', lease'[d] > 0
                 PROVE  key' = value'[d] /\ ttl' >= lease'[d]
        BY DEF LeaseHeld
    <2>1. d # c /\ Winner(d) /\ lease[d] > 0 /\ lease'[d] = lease[d]
        BY <1>1 DEF Winner, TypeOK
    <2>2. key = value[d] /\ ttl >= lease[d]
        BY <2>1 DEF LeaseHeld
    <2>3. value[d] # value[c]
        BY <1>1, <2>1 DEF Apart, Trying, Winner
    <2> QED BY <1>1, <1>2, <2>1, <2>2, <2>3
<1> QED BY <1>4, <1>5, <1>6

(* A stray command finds the key of an attempt under way locked to it, or *)
(* extends it by no less than the holder counts on.                        *)
LEMMA ArriveHolds == ASSUME IInv, NEW s \in strays, Arrive(s) PROVE IInv'
<1> USE LockAssumption DEF LockAssumption, IInv
<1>1. s.v \in Values /\ s.ms \in 0..TTL
    BY DEF TypeOK, Commands
<1>2. strays' = strays \ {s} /\ UNCHANGED <<pc, value, left, lease>>
    BY DEF Arrive
<1>3. /\ key' \in Values \cup {NoLock} /\ ttl' \in 0..TTL
      /\ key' = NoLock <=> ttl' = 0
      /\ key # NoLock /\ key # s.v => key' = key /\ ttl' = ttl
      /\ key # NoLock /\ s.op = "set" => key' = key /\ ttl' = ttl
      /\ key = s.v /\ s.op = "pexpire" /\ s.ms > 0 => key' = key /\ ttl' = s.ms
    <2>1. CASE s.op = "set" /\ SetNX(s.v)
        BY <1>1, <2>1, SetNXKeeps
    <2>2. CASE s.op = "del" /\ CompareAndDelete(s.v)
        BY <1>1, <2>2, DeleteKeeps
    <2>3. CASE s.op = "pexpire" /\ CompareAndExpire(s.v, s.ms)
        BY <1>1, <2>3, ExpireKeeps
    <2> QED BY <2>1, <2>2, <2>3 DEF Arrive
<1>4. TypeOK'
    BY <1>2, <1>3 DEF TypeOK
<1>5. Apart'
    BY <1>2 DEF Apart, Harmless, Trying
<1>6. LeaseHeld'
    <2> SUFFICES ASSUME NEW d \in Clients, Winner(d), lease[d] > 0
                 PROVE  key' = value[d] /\ ttl' >= lease[d]
        BY <1>2 DEF LeaseHeld, Winner
    <2>1. key = value[d] /\ ttl >= lease[d] /\ key # NoLock
        BY DEF LeaseHeld, TypeOK
    <2>2. Harmless(s, d)
        BY DEF Apart, Trying, Winner
    <2>3. CASE value[d] # s.v \/ s.op = "set"
        BY <1>3, <2>1, <2>3
    <2>4. CASE value[d] = s.v /\ s.op # "set"
        <3>1. s.op = "pexpire" /\ s.ms >= lease[d]
            BY <2>2, <2>4 DEF Harmless
        <3>2. lease[d] \in Nat
            BY DEF TypeOK
        <3> QED BY <1>1, <1>3, <2>1, <2>4, <3>1, <3>2
    <2> QED BY <2>3, <2>4
<1> QED BY <1>4, <1>5, <1>6

(* As time passes the leases run out no later than the key. *)
LEMMA TickHolds == ASSUME IInv, Tick PROVE IInv'
<1> USE LockAssumption DEF LockAssumption, IInv
<1>1. /\ key' = IF ttl = 1 THEN NoLock ELSE key
      /\ ttl' = Earlier(ttl)
      /\ lease' = [d \in Clients |-> Earlier(lease[d])]
      /\ UNCHANGED <<pc, value, left, strays>>
    BY DEF Tick
<1>2. TypeOK'
    <2>1. key' \in Values \cup {NoLock} /\ ttl' \in 0..TTL /\ (key' = NoLock <=> ttl' = 0)
        BY <1>1 DEF TypeOK, Earlier
    <2>2. lease' \in [Clients -> 0..TTL]
        BY <1>1 DEF TypeOK, Earlier
    <2> QED BY <1>1, <2>1, <2>2 DEF TypeOK
<1>3. Apart'
    <2>1. ASSUME NEW d \in Trying, NEW s \in strays PROVE Harmless(s, d)'
        <3>1. lease'[d] <= lease[d] /\ lease[d] \in Nat /\ lease'[d] \in Nat
            BY <1>1 DEF Earlier, Trying, TypeOK
        <3>2. s.ms \in Nat
            BY DEF TypeOK, Commands
        <3>3. Harmless(s, d)
            BY DEF Apart
        <3> QED BY <1>1, <3>1, <3>2, <3>3 DEF Harmless
    <2> QED BY <1>1, <2>1 DEF Apart, Trying
<1>4. LeaseHeld'
    BY <1>1 DEF LeaseHeld, Winner, Earlier, TypeOK
<1> QED BY <1>2, <1>3, <1>4

LEMMA StepHolds == IInv /\ [Next]_vars => IInv'
<1> SUFFICES ASSUME IInv, [Next]_vars PROVE IInv'
    OBVIOUS
<1> USE LockAssumption DEF LockAssumption
<1> USE DEF IInv
<1>1. CASE UNCHANGED vars
    BY <1>1 DEF vars, TypeOK, Apart, Harmless, LeaseHeld, Trying, Winner
<1>2. CASE Tick
    BY <1>2, TickHolds
<1>3. ASSUME NEW s \in strays, Arrive(s) PROVE IInv'
    BY <1>3, ArriveHolds
<1>4. ASSUME NEW c \in Clients, Acquire(c) PROVE IInv'
    <2>1. left' \in [Clients -> 0..(MaxAttempts - 1)]
        BY <1>4 DEF Acquire, TypeOK
    <2>2. \A d \in Clients : d # c => left'[d] = left[d]
        BY <1>4 DEF Acquire, TypeOK
    <2> QED BY <1>4, <2>1, <2>2, AttemptHolds DEF Acquire
<1>5. ASSUME NEW c \in Clients, AttemptAgain(c) PROVE IInv'
    <2>1. left' \in [Clients -> 0..(MaxAttempts - 1)]
        BY <1>5 DEF AttemptAgain, Attempt, Move, TypeOK
    <2>2. \A d \in Clients : d # c => left'[d] = left[d]
        BY <1>5 DEF AttemptAgain, TypeOK
    <2> QED BY <1>5, <2>1, <2>2, AttemptHolds DEF AttemptAgain
<1>6. ASSUME NEW c \in Clients, Serve(c) PROVE IInv'
    BY <1>6, ServeHolds
<1>7. ASSUME NEW c \in Clients, Granted(c) PROVE IInv'
    BY <1>7, QuietStep DEF Granted, Stages, TypeOK
<1>8. ASSUME NEW c \in Clients, NotAcquired(c) \/ CancelRetry(c) PROVE IInv'
    BY <1>8, QuietStep DEF NotAcquired, CancelRetry, AfterError, Stages, TypeOK
<1>9. ASSUME NEW c \in Clients, LoseReply(c) PROVE IInv'
    <2>1. PICK from \in {"sent", "won", "beaten"}, to \in {"idle", "waiting"} :
              Move(c, from, to) /\ (to = "waiting" => left[c] > 0)
        BY <1>9 DEF LoseReply, AfterError
    <2>2. c \in Trying /\ from \in Stages /\ to \in Stages
        BY <2>1 DEF Trying, Move, Stages
    <2>3. /\ strays' \in SUBSET Commands
          /\ \A s \in strays' : s \in strays \/ s.v = value[c]
        <3>1. LeaveBehind("set", value[c], TTL) /\ TTL \in 0..TTL /\ value[c] \in Values
            BY <1>9 DEF LoseReply, TypeOK
        <3> QED BY <3>1, LeaveBehindKeeps
    <2>4. lease' = [lease EXCEPT ![c] = 0] /\ UNCHANGED <<key, ttl, value, left>>
        BY <1>9 DEF LoseReply
    <2> QED BY <2>1, <2>2, <2>3, <2>4, QuietStep DEF TypeOK
<1>10. ASSUME NEW c \in Clients, NEW ms \in 0..TTL, Extend(c, ms) PROVE IInv'
    BY <1>10, ExtendHolds
<1>11. ASSUME NEW c \in Clients, Release(c) PROVE IInv'
    BY <1>11, ReleaseHolds
<1>12. ASSUME NEW c \in Clients, Crash(c) PROVE IInv'
    BY <1>12, QuietStep DEF Crash, Stages, TypeOK
<1> QED
    BY <1>1, <1>2, <1>3, <1>4, <1>5, <1>6, <1>7, <1>8, <1>9, <1>10, <1>11, <1>12
    DEF Next

THEOREM Inductive == Spec => []IInv
BY InitHolds, StepHolds, PTL DEF Spec

(* The variables keep their ranges, and a key that exists always has a     *)
(* ttl: SETNX comes with its expiry in one command.                        *)
THEOREM TypeCorrect == Spec => []TypeOK
<1>1. IInv => TypeOK
    BY DEF IInv
<1> QED BY <1>1, Inductive, PTL

(* What the winner of the lock can count on is not taken away, by no late  *)
(* or repeated command and no other client (lines 379-398).  An Extend of  *)
(* its own that is on its way is what it has to reckon with itself.        *)
THEOREM LeasesHold == Spec => []LeaseHeld
<1>1. IInv => LeaseHeld
    BY DEF IInv
<1> QED BY <1>1, Inductive, PTL

(* Mutual exclusion, for as long as the leases run. *)
THEOREM MutualExclusion == Spec => []Exclusive
<1>1. IInv => Exclusive
    BY DEF IInv, LeaseHeld, Exclusive, Apart, Trying, Winner
<1> QED BY <1>1, Inductive, PTL

===============================================================================
