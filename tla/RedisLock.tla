------------------------------ MODULE RedisLock ------------------------------
(***************************************************************************)
(* The distributed lock of database/redis.go: clients that call            *)
(* AcquireLockWithRetry, Extend and Release on one key, the Redis server   *)
(* that holds the key, and the network between them.                       *)
(*                                                                         *)
(* A command that a client gives up on may still reach the server later,   *)
(* and the Redis library sends a command again when its reply is lost:     *)
(* stray commands.  The value of an attempt is the nanosecond at which it  *)
(* was made; no two attempts that still matter share a nanosecond.         *)
(***************************************************************************)
EXTENDS Integers, FiniteSets

CONSTANTS
    Clients,        \* processes that compete for the lock
    Values,         \* lock values, used again once nothing refers to them
    NoLock,         \* the key does not exist
    TTL,            \* the ttl of AcquireLock, in ticks
    MaxAttempts,    \* the maxAttempts of AcquireLockWithRetry
    MaxStrays       \* at most so many commands are on their way unattended

ASSUME LockAssumption ==
    /\ IsFiniteSet(Clients)
    /\ IsFiniteSet(Values)
    /\ NoLock \notin Values
    /\ TTL \in Nat \ {0}
    /\ MaxAttempts \in Nat \ {0}
    /\ MaxStrays \in Nat
    /\ Cardinality(Values) > Cardinality(Clients) + MaxStrays

VARIABLES
    key,        \* the value Redis stores, or NoLock
    ttl,        \* ticks until Redis removes the key
    pc,         \* where each client is
    value,      \* the value of its current attempt, lock.value
    left,       \* attempts it still has after this one
    strays,     \* commands on their way to Redis that nobody waits for
    lease       \* history: ticks for which each client can count on the
                \* key, by what Redis last did for it and what it has left
                \* on its way itself

vars == <<key, ttl, pc, value, left, strays, lease>>
server == <<key, ttl>>

(* "sent": SETNX is on its way.  "won", "beaten": Redis has answered, the  *)
(* reply is on its way.  "waiting": in the backoff of Retry.               *)
Stages == {"idle", "sent", "won", "beaten", "waiting", "holding"}

Commands == [op : {"set", "del", "pexpire"}, v : Values, ms : 0..TTL]

Trying == {c \in Clients : pc[c] \notin {"idle", "waiting"}}

(* The values that something still refers to. *)
Used == {key} \cup {value[c] : c \in Trying} \cup {s.v : s \in strays}
Fresh == Values \ Used
UnixNano == CHOOSE v \in Fresh : TRUE

------------------------------------------------------------------------------
Init ==
    /\ key = NoLock
    /\ ttl = 0
    /\ pc = [c \in Clients |-> "idle"]
    /\ value = [c \in Clients |-> CHOOSE v \in Values : TRUE]
    /\ left = [c \in Clients |-> 0]
    /\ strays = {}
    /\ lease = [c \in Clients |-> 0]

Move(c, from, to) ==
    /\ pc[c] = from
    /\ pc' = [pc EXCEPT ![c] = to]

(* Fault of a mutant run: SETNX without an expiry. *)
SetForever(v) ==
    \/ /\ key = NoLock
       /\ key' = v
       /\ ttl' = 0
    \/ /\ key # NoLock
       /\ UNCHANGED server

(* What the server does with a command.  The ttl is a millisecond at       *)
(* least, so SETNX always comes with an expiry.                            *)
SetNX(v) ==
    \/ /\ key = NoLock
       /\ key' = v
       /\ ttl' = TTL
    \/ /\ key # NoLock
       /\ UNCHANGED server

(* Fault of a mutant run: Release deletes whatever it finds. *)
DeleteAlways(v) ==
    /\ key' = NoLock
    /\ ttl' = 0

CompareAndDelete(v) ==
    \/ /\ key = v
       /\ key' = NoLock
       /\ ttl' = 0
    \/ /\ key # v
       /\ UNCHANGED server

(* Fault of a mutant run: Extend does not look whose the key is. *)
ExpireAlways(v, ms) ==
    /\ key' = IF ms = 0 THEN NoLock ELSE key
    /\ ttl' = IF key = NoLock THEN 0 ELSE ms

(* PEXPIRE with ttl.Milliseconds(): a ttl under a millisecond is 0, and    *)
(* Redis deletes a key that is to expire at once.                          *)
CompareAndExpire(v, ms) ==
    \/ /\ key = v
       /\ key' = IF ms = 0 THEN NoLock ELSE key
       /\ ttl' = ms
    \/ /\ key # v
       /\ UNCHANGED server

(* What remains on its way of a command: the client no longer waits for    *)
(* it, or the library has sent it again.                                   *)
LeaveBehind(op, v, ms) ==
    \/ UNCHANGED strays
    \/ /\ Cardinality(strays) < MaxStrays
       /\ strays' = strays \cup {[op |-> op, v |-> v, ms |-> ms]}

(* AcquireLock: a new value for each attempt, then SETNX. *)
Attempt(c, from) ==
    /\ Move(c, from, "sent")
    /\ Fresh # {}    \* as LockAssumption sees to
    /\ value' = [value EXCEPT ![c] = UnixNano]
    /\ lease' = [lease EXCEPT ![c] = 0]
    /\ UNCHANGED <<key, ttl, strays>>

Acquire(c) ==
    /\ Attempt(c, "idle")
    /\ left' = [left EXCEPT ![c] = MaxAttempts - 1]

AttemptAgain(c) ==
    /\ Attempt(c, "waiting")
    /\ left' = [left EXCEPT ![c] = left[c] - 1]

(* Redis runs the SETNX of a client. *)
Serve(c) ==
    /\ Move(c, "sent", IF key = NoLock THEN "won" ELSE "beaten")
    /\ SetNX(value[c])
    /\ LeaveBehind("set", value[c], TTL)
    /\ lease' = [lease EXCEPT ![c] = IF key = NoLock THEN TTL ELSE 0]
    /\ UNCHANGED <<value, left>>

Granted(c) ==
    /\ Move(c, "won", "holding")
    /\ UNCHANGED <<key, ttl, value, left, strays, lease>>

(* Retry waits and tries again while attempts are left. *)
AfterError(c) == IF left[c] > 0 THEN "waiting" ELSE "idle"

(* ErrLockNotAcquired, retried like any other error. *)
NotAcquired(c) ==
    /\ Move(c, "beaten", AfterError(c))
    /\ UNCHANGED <<key, ttl, value, left, strays, lease>>


(* The connection breaks or times out: before or after Redis ran the       *)
(* command, whose copy may still be on its way.  A context that is over    *)
(* ends the retries at once.                                               *)
LoseReply(c) ==
    /\ \E from \in {"sent", "won", "beaten"}, to \in {AfterError(c), "idle"} :
          Move(c, from, to)
    /\ LeaveBehind("set", value[c], TTL)
    /\ lease' = [lease EXCEPT ![c] = 0]
    /\ UNCHANGED <<key, ttl, value, left>>

(* The context is over during the backoff: "retry cancelled". *)
CancelRetry(c) ==
    /\ Move(c, "waiting", "idle")
    /\ UNCHANGED <<key, ttl, value, left, strays, lease>>

(* The client can count on the key for t ticks, unless it has left an      *)
(* Extend on its way that would cut them short.                            *)
CountOn(c, t) ==
    lease' = [lease EXCEPT ![c] =
                IF \A s \in strays' : s.op = "pexpire" /\ s.v = value[c] => s.ms >= t
                THEN t ELSE 0]

(* Extend runs its script at Redis, or fails; either way the script may    *)
(* run later too, when its ttl has become a short one.  A 0 from the       *)
(* script is no error: the client goes on whether it has the key or not.   *)
Extend(c, ms) ==
    /\ pc[c] = "holding"
    /\ LeaveBehind("pexpire", value[c], ms)
    /\ \/ /\ CompareAndExpire(value[c], ms)
          /\ CountOn(c, IF key = value[c] THEN ms ELSE 0)
       \/ /\ UNCHANGED server
          /\ CountOn(c, lease[c])
    /\ UNCHANGED <<pc, value, left>>

(* Release runs its script at Redis, or fails and leaves it on its way. *)
Release(c) ==
    /\ Move(c, "holding", "idle")
    /\ CompareAndDelete(value[c]) \/ UNCHANGED server
    /\ LeaveBehind("del", value[c], 0)
    /\ lease' = [lease EXCEPT ![c] = 0]
    /\ UNCHANGED <<value, left>>

(* A client that holds the lock dies without a Release. *)
Crash(c) ==
    /\ Move(c, "holding", "idle")
    /\ lease' = [lease EXCEPT ![c] = 0]
    /\ UNCHANGED <<key, ttl, value, left, strays>>

(* A stray command arrives. *)
Arrive(s) ==
    /\ \/ s.op = "set" /\ SetNX(s.v)
       \/ s.op = "del" /\ CompareAndDelete(s.v)
       \/ s.op = "pexpire" /\ CompareAndExpire(s.v, s.ms)
    /\ strays' = strays \ {s}
    /\ UNCHANGED <<pc, value, left, lease>>

Earlier(t) == IF t > 0 THEN t - 1 ELSE 0

(* Time passes, and Redis removes a key whose ttl is over. *)
Tick ==
    /\ ttl' = Earlier(ttl)
    /\ key' = IF ttl = 1 THEN NoLock ELSE key
    /\ lease' = [c \in Clients |-> Earlier(lease[c])]
    /\ UNCHANGED <<pc, value, left, strays>>

Next ==
    \/ Tick
    \/ \E s \in strays : Arrive(s)
    \/ \E c \in Clients :
          \/ Acquire(c) \/ AttemptAgain(c) \/ Serve(c) \/ Granted(c)
          \/ NotAcquired(c) \/ LoseReply(c) \/ CancelRetry(c)
          \/ (\E ms \in 0..TTL : Extend(c, ms)) \/ Release(c) \/ Crash(c)

Spec == Init /\ [][Next]_vars

(* Time passes; a client that holds the lock finishes its work, releasing  *)
(* it or not, and one that gets no answer gives up: the Redis library      *)
(* bounds every call by its read timeout.                                  *)
Fairness ==
    /\ WF_vars(Tick)
    /\ \A c \in Clients :
          /\ WF_vars(Release(c) \/ Crash(c))
          /\ WF_vars(Granted(c) \/ NotAcquired(c) \/ LoseReply(c))

FairSpec == Spec /\ Fairness

------------------------------------------------------------------------------
(* Types; a key that exists has time left, and a client in its backoff has *)
(* an attempt left.                                                        *)
TypeOK ==
    /\ key \in Values \cup {NoLock}
    /\ ttl \in 0..TTL
    /\ key = NoLock <=> ttl = 0
    /\ pc \in [Clients -> Stages]
    /\ value \in [Clients -> Values]
    /\ left \in [Clients -> 0..(MaxAttempts - 1)]
    /\ \A c \in Clients : pc[c] = "waiting" => left[c] > 0
    /\ strays \in SUBSET Commands
    /\ lease \in [Clients -> 0..TTL]

Winner(c) == pc[c] \in {"won", "holding"}

(* For as long as it can count on it, a client that won the lock has the   *)
(* key: no late SETNX, no late Release or Extend of an earlier holder and  *)
(* none of another client takes it away ("Only release if we still hold    *)
(* the lock", line 379).  Its own Extends may: one that comes late with a  *)
(* shorter ttl, or with none, ends what Redis has promised since, and that *)
(* is why lease leaves out what such a command threatens.                  *)
LeaseHeld ==
    \A c \in Clients : Winner(c) /\ lease[c] > 0 => key = value[c] /\ ttl >= lease[c]

(* Two clients never both hold the lock and can count on it. *)
Exclusive ==
    \A c, d \in Clients :
        Winner(c) /\ Winner(d) /\ lease[c] > 0 /\ lease[d] > 0 => c = d

(* The lock does not stay taken for ever, whoever crashed, lost a reply    *)
(* or left a command behind: the key always has a ttl.                     *)
ComesFree == []<>(key = NoLock)

==============================================================================
