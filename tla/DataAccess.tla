------------------------------ MODULE DataAccess ------------------------------
(***************************************************************************)
(* The clients of database/redis.go, cosmos.go, sql.go and redis_init.go,  *)
(* and those of other services in clients/: each call is a short program   *)
(* of commands, run once or in a loop of retries, against servers that     *)
(* hold                                                                    *)
(*   value    one Redis string (a hash field is no different)              *)
(*   queue    one Redis list                                               *)
(*   docs     the documents of one Cosmos container                        *)
(*   online,  whether a driver is in the set of online drivers and in the  *)
(*   located  geo set of his city                                          *)
(* and tables that only the number of committed statements is kept of.     *)
(*                                                                         *)
(* A command may be turned away, its reply may be lost, and a command that *)
(* was given up on may still run later.                                    *)
(***************************************************************************)
EXTENDS RetryPolicy, Sequences, FiniteSets

CONSTANTS
    Clients,        \* goroutines and processes that make calls
    Docs,           \* documents of the container
    Doc,            \* the one that calls are about
    Nobody,         \* the Redis key does not exist
    MaxRetries,     \* config.MaxRetries
    MaxCalls,       \* each client makes at most so many calls
    MaxLate         \* at most so many given-up commands are on their way

ASSUME DataAccessAssumption ==
    /\ Nobody \notin Clients
    /\ Doc \in Docs
    /\ MaxRetries \in Nat
    /\ MaxCalls \in Nat
    /\ MaxLate \in Nat

VARIABLES
    value,      \* the client whose value Redis stores, or Nobody
    queue,      \* length of the list
    docs,       \* documents that exist
    online,     \* the driver is a member of online_drivers
    located,    \* the driver is a member of driver_locations
    open,       \* clients with a transaction open on the SQL server
    call,       \* the latest call of each client
    late,       \* commands on their way that nobody waits for
    ran,        \* history: how often the last command of each client's
                \* latest call has taken effect
    gone        \* history: the driver was taken offline by a call that
                \* nothing interfered with, and nothing came after it

stores == <<value, queue, docs, online, located>>
dataVars == <<value, queue, docs, online, located, open, call, late, ran, gone>>

------------------------------------------------------------------------------
(* The programs.                                                           *)
RedisPrograms ==
    [Get |-> <<"get">>, Set |-> <<"set">>, SetNX |-> <<"setnx">>,
     Delete |-> <<"del">>, Incr |-> <<"incr">>]

(* Publish, like Incr, has its effect whenever it runs. *)
ListPrograms ==
    [LPush |-> <<"push">>, RPop |-> <<"pop">>, Publish |-> <<"publish">>]

CosmosPrograms ==
    [Create |-> <<"create">>, Read |-> <<"read">>, Replace |-> <<"replace">>,
     Upsert |-> <<"upsert">>, DeleteItem |-> <<"delete">>]

SQLPrograms ==
    [Exec |-> <<"exec">>, WithTransaction |-> <<"begin", "fn", "commit">>]

(* Fault of a mutant run: the online set is left alone. *)
OfflineByLocation ==
    [SetDriverOnline |-> <<"sadd">>, UpdateLocation |-> <<"geoadd">>,
     RemoveDriver |-> <<"zrem">>, SetDriverOffline |-> <<"zrem">>]

DriverPrograms ==
    [SetDriverOnline |-> <<"sadd">>, UpdateLocation |-> <<"geoadd">>,
     RemoveDriver |-> <<"zrem">>, SetDriverOffline |-> <<"srem", "zrem">>]

DriverOps == DOMAIN DriverPrograms

(* The service clients: each method is one request.  Most of those that    *)
(* are sent as POST change nothing at the service.                         *)
NotificationPrograms == [Send |-> <<"post">>, SendBulk |-> <<"post">>]
PricingPrograms == [GetEstimate |-> <<"compute">>, CalculateFinalFare |-> <<"compute">>]
PromotionsPrograms == [ApplyPromo |-> <<"post">>, ValidatePromo |-> <<"compute">>]
UserPrograms == [UpdateUserRating |-> <<"post">>, GetUser |-> <<"compute">>]

ServiceOps == UNION {DOMAIN NotificationPrograms, DOMAIN PricingPrograms,
                     DOMAIN PromotionsPrograms, DOMAIN UserPrograms}

Program(op) ==
    CASE op \in DOMAIN RedisPrograms -> RedisPrograms[op]
      [] op \in DOMAIN ListPrograms -> ListPrograms[op]
      [] op \in DOMAIN CosmosPrograms -> CosmosPrograms[op]
      [] op \in DOMAIN SQLPrograms -> SQLPrograms[op]
      [] op \in DriverOps -> DriverPrograms[op]
      [] op \in DOMAIN NotificationPrograms -> NotificationPrograms[op]
      [] op \in DOMAIN PricingPrograms -> PricingPrograms[op]
      [] op \in DOMAIN PromotionsPrograms -> PromotionsPrograms[op]
      [] op \in DOMAIN UserPrograms -> UserPrograms[op]

(* The methods that have a form WithRetry beside the plain one: not those  *)
(* of lists and of the driver location service.  The service clients have  *)
(* no other than the loop.                                                 *)
RedisRetried == DOMAIN RedisPrograms \cup {"Publish"}
CosmosRetried == DOMAIN CosmosPrograms
SQLRetried == DOMAIN SQLPrograms

Retries(op, withRetry) ==
    IF op \in ServiceOps
          \cup IF withRetry THEN RedisRetried \cup CosmosRetried \cup SQLRetried ELSE {}
    THEN MaxRetries ELSE 0

NoCall == [n |-> 0, op |-> "none", at |-> 0,
           left |-> 0, stage |-> "idle", reply |-> "none", lost |-> FALSE,
           alone |-> FALSE]

Command(c) == Program(call[c].op)[call[c].at]
LastCommand(c) == call[c].at = Len(Program(call[c].op))

ListAfter(cmd) ==
    CASE cmd = "push" -> queue + 1
      [] cmd = "pop" /\ queue > 0 -> queue - 1
      [] OTHER -> queue

(* A driver is one member of the set of those online, and one of the geo   *)
(* set, which is a sorted set.                                             *)
OnlineAfter(cmd) == (online \/ cmd = "sadd") /\ cmd # "srem"
LocatedAfter(cmd) == (located \/ cmd = "geoadd") /\ cmd # "zrem"

(* What a command does to the stores, and what the client answers to it:   *)
(* Redis nil, 404 and 409 become the sentinels of the clients, and the 404 *)
(* of a delete becomes nil.  A 404 of a replace stays a ResponseError.     *)
Effect(cmd, c) ==
    /\ value' = CASE cmd = "set" -> c
                  [] cmd = "setnx" /\ value = Nobody -> c
                  [] cmd = "del" -> Nobody
                  [] OTHER -> value
    /\ docs' = CASE cmd \in {"create", "upsert"} -> docs \cup {Doc}
                 [] cmd = "delete" -> docs \ {Doc}
                 [] OTHER -> docs
    /\ queue' = ListAfter(cmd)
    /\ online' = OnlineAfter(cmd)
    /\ located' = LocatedAfter(cmd)

(* The command takes effect when it runs now. *)
Takes(cmd) ==
    /\ cmd = "setnx" => value = Nobody
    /\ cmd = "pop" => queue > 0
    /\ cmd = "create" => Doc \notin docs
    /\ cmd = "replace" => Doc \in docs

(* Fault of a mutant run: a conflict is taken for success. *)
ReplyIgnoringConflict(cmd) == "nil"

Reply(cmd) ==
    CASE cmd = "get" /\ value = Nobody -> "ErrKeyNotFound"
      [] cmd = "pop" /\ queue = 0 -> "ErrKeyNotFound"
      [] cmd = "setnx" /\ value # Nobody -> "false"
      [] cmd = "read" /\ Doc \notin docs -> "ErrNotFound"
      [] cmd = "create" /\ Doc \in docs -> "ErrConflict"
      [] cmd = "replace" /\ Doc \notin docs -> "rejected"
      [] OTHER -> "nil"

------------------------------------------------------------------------------
(* The container may hold documents already. *)
DataInit ==
    /\ value = Nobody
    /\ queue = 0
    /\ docs \in SUBSET Docs
    /\ online = FALSE
    /\ located = FALSE
    /\ open = {}
    /\ call = [c \in Clients |-> NoCall]
    /\ late = {}
    /\ ran = [c \in Clients |-> 0]
    /\ gone = FALSE

UnderWay(c) == call[c].stage # "idle"
DriverAtRest ==
    /\ \A c \in Clients : UnderWay(c) => call[c].op \notin DriverOps
    /\ \A l \in late : l.cmd \notin {"sadd", "geoadd", "srem", "zrem"}

(* A method is called.  lost: a reply to the call was lost, or a failure   *)
(* overlooked; alone: no other call has to do with the driver meanwhile.   *)
Begin(c, op, withRetry) ==
    /\ call[c].stage = "idle"
    /\ call[c].n < MaxCalls
    /\ call' = [b \in Clients |->
            IF b = c
            THEN [n |-> call[c].n + 1, op |-> op, at |-> 1,
                  left |-> Retries(op, withRetry), stage |-> "sent",
                  reply |-> "none", lost |-> FALSE, alone |-> DriverAtRest]
            ELSE [call[b] EXCEPT !.alone = @ /\ op \notin DriverOps]]
    /\ ran' = [ran EXCEPT ![c] = 0]
    /\ gone' = (gone /\ op \notin DriverOps)
    /\ UNCHANGED <<stores, open, late>>

Replied(c, reply, lost) ==
    call' = [call EXCEPT ![c].stage = "replied", ![c].reply = reply,
                         ![c].lost = @ \/ lost]

(* The server runs a command; its reply may be lost on the way back.  A    *)
(* transaction of a connection that breaks is rolled back by the server.   *)
Serve(c) ==
    /\ call[c].stage = "sent"
    /\ Command(c) # "fn"
    /\ Effect(Command(c), c)
    /\ ran' = IF LastCommand(c) /\ Takes(Command(c))
              THEN [ran EXCEPT ![c] = @ + 1] ELSE ran
    /\ \/ /\ Replied(c, Reply(Command(c)), FALSE)
          /\ open' = IF Command(c) = "begin" THEN open \cup {c} ELSE open \ {c}
       \/ /\ Replied(c, "network", TRUE)
          /\ open' = open \ {c}
    /\ UNCHANGED <<late, gone>>

(* The server, or the connection to it, turns a command away. *)
TurnedAway(c, err) ==
    /\ call[c].stage = "sent"
    /\ Command(c) # "fn"
    /\ Replied(c, err, FALSE)
    /\ open' = open \ {c}
    /\ UNCHANGED <<stores, late, ran, gone>>

(* The client gives up on a command that is still on its way.  Statements  *)
(* of a transaction do not outlive their connection, except its commit.    *)
TimesOut(c) ==
    /\ call[c].stage = "sent"
    /\ Command(c) \notin {"fn", "begin"}
    /\ Cardinality(late) < MaxLate
    /\ late' = late \cup {[c |-> c, n |-> call[c].n, cmd |-> Command(c), last |-> LastCommand(c)]}
    /\ Replied(c, "network", TRUE)
    /\ open' = open \ {c}
    /\ UNCHANGED <<stores, ran, gone>>

LateRuns(l) ==
    /\ l \in late
    /\ late' = late \ {l}
    /\ Effect(l.cmd, l.c)
    /\ ran' = IF l.last /\ call[l.c].n = l.n /\ Takes(l.cmd)
              THEN [ran EXCEPT ![l.c] = @ + 1] ELSE ran
    /\ UNCHANGED <<open, call, gone>>

LateIsLost(l) ==
    /\ l \in late
    /\ late' = late \ {l}
    /\ UNCHANGED <<stores, open, call, ran, gone>>

(* The function of WithTransaction: it succeeds, or fails and the          *)
(* transaction is rolled back; if that fails too, the connection is        *)
(* dropped and the server does it.  The original error is wrapped.         *)
FnReturns(c, err) ==
    /\ call[c].stage = "sent"
    /\ Command(c) = "fn"
    /\ Replied(c, err, FALSE)
    /\ open' = IF err = "nil" THEN open ELSE open \ {c}
    /\ UNCHANGED <<stores, late, ran, gone>>

Answered(c, reply) ==
    call' = [call EXCEPT ![c].stage = "idle", ![c].reply = reply]

(* Fault of a mutant run: no deferred rollback. *)
FnPanicsHolding(c) ==
    /\ call[c].stage = "sent"
    /\ Command(c) = "fn"
    /\ Answered(c, "panic")
    /\ UNCHANGED <<stores, open, late, ran, gone>>

(* A panic out of the function: rolled back, and passed on to whoever      *)
(* recovers it, through the retry loop.                                    *)
FnPanics(c) ==
    /\ call[c].stage = "sent"
    /\ Command(c) = "fn"
    /\ Answered(c, "panic")
    /\ open' = open \ {c}
    /\ UNCHANGED <<stores, late, ran, gone>>

Succeeded(c) == call[c].reply \in {"nil", "false"}

(* SetDriverOffline does not look at the answer of its first command. *)
Ignored(c) == Command(c) = "srem"

(* The next command of a program. *)
Proceed(c) ==
    /\ call[c].stage = "replied"
    /\ Succeeded(c) \/ Ignored(c)
    /\ ~LastCommand(c)
    /\ call' = [call EXCEPT ![c].at = @ + 1, ![c].stage = "sent",
                            ![c].lost = @ \/ ~Succeeded(c)]
    /\ UNCHANGED <<stores, open, late, ran, gone>>

Failed(c) == call[c].stage = "replied" /\ ~Succeeded(c) /\ ~Ignored(c)

MayTryAgain(c) ==
    IF call[c].op \in ServiceOps THEN ClientTriesAgain(call[c].reply, call[c].left)
                                 ELSE TriesAgain(call[c].reply, call[c].left)

(* Retry runs the whole program again, after a delay ... *)
TryAgain(c) ==
    /\ Failed(c)
    /\ MayTryAgain(c)
    /\ call' = [call EXCEPT ![c].at = 1, ![c].stage = "sent",
                            ![c].left = @ - 1]
    /\ UNCHANGED <<stores, open, late, ran, gone>>

(* ... in which the context may be done. *)
Cancelled(c) ==
    /\ Failed(c)
    /\ MayTryAgain(c)
    /\ Answered(c, "cancelled")
    /\ UNCHANGED <<stores, open, late, ran, gone>>

GiveUp(c) ==
    /\ Failed(c)
    /\ ~MayTryAgain(c)
    /\ Answered(c, call[c].reply)
    /\ UNCHANGED <<stores, open, late, ran, gone>>

Finish(c) ==
    /\ call[c].stage = "replied"
    /\ Succeeded(c)
    /\ LastCommand(c)
    /\ Answered(c, call[c].reply)
    /\ gone' = (gone \/ /\ call[c].op = "SetDriverOffline"
                        /\ call[c].alone
                        /\ ~call[c].lost)
    /\ UNCHANGED <<stores, open, late, ran>>

(* Steps of calls that are under way. *)
Work ==
    \/ \E c \in Clients :
          \/ \E err \in {"throttled", "rejected", "network"} : TurnedAway(c, err)
          \/ \E err \in {"nil", "network", "rejected", "cancelled"} : FnReturns(c, err)
          \/ Serve(c) \/ TimesOut(c) \/ FnPanics(c) \/ Proceed(c)
          \/ TryAgain(c) \/ Cancelled(c) \/ GiveUp(c) \/ Finish(c)
    \/ \E l \in late : LateRuns(l) \/ LateIsLost(l)

Call(ops) ==
    \E c \in Clients, op \in ops, withRetry \in BOOLEAN : Begin(c, op, withRetry)

------------------------------------------------------------------------------
Writes == {"Set", "SetNX", "Delete", "Incr", "LPush", "RPop", "Publish",
           "Create", "Replace", "Upsert", "DeleteItem", "Exec",
           "WithTransaction", "Send", "SendBulk", "ApplyPromo",
           "UpdateUserRating"}

Answer(c) == call[c].reply
Returned(c) == call[c].n > 0 /\ ~UnderWay(c)

(* What a call answers is what it did.  nil means that its write has taken *)
(* effect, if it is not for the sentinels at all (SetNX may answer false). *)
(* And unless a reply was lost on the way, the write has taken effect no   *)
(* more than once, and not at all when the answer is an error or false:    *)
(* a conflict is then with somebody else.  With a lost reply, the loop     *)
(* repeats what was done: a counter moves twice, a transaction commits     *)
(* twice, a user is notified twice, the creator is told ErrConflict, and   *)
(* the winner of SetNX false.                                              *)
AnswersAreTrue ==
    \A c \in Clients : Returned(c) /\ call[c].op \in Writes =>
        /\ Answer(c) = "nil" => ran[c] > 0
        /\ ~call[c].lost => ran[c] = IF Answer(c) = "nil" THEN 1 ELSE 0

(* "If the function returns an error, the transaction is rolled back.      *)
(* Otherwise, it's committed" (sql.go:153): by whatever way a call ends,   *)
(* panics and broken connections included, it leaves no transaction open.  *)
TransactionsSettle ==
    open \subseteq {c \in Clients : UnderWay(c) /\ call[c].op = "WithTransaction"}

(* A driver taken offline by a call that answered nil, with nothing else   *)
(* going on, stays off both sets until the next call about him; no lost    *)
(* reply may be among its commands, the first of which is not looked at.   *)
OfflineLasts == gone => ~online /\ ~located

==============================================================================
