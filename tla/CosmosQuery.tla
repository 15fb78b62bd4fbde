------------------------------ MODULE CosmosQuery ------------------------------
(***************************************************************************)
(* Queries of database/cosmos.go on a container whose documents come and   *)
(* go while the pages of the result are fetched.                           *)
(*                                                                         *)
(* A document is a pair <<partition, rank>>; a page continues after the    *)
(* last document of the page before.  A query matches a whole partition,   *)
(* one document by its id, or everything.  Which partitions it looks at    *)
(* depends on its parameters and on how the client authenticates.          *)
(***************************************************************************)
EXTENDS DataAccess

CONSTANTS
    Partitions,     \* partition key values, numbered
    NoPartition,    \* the empty partition key: no document has it, and it
                    \* comes before every other
    PageSize

ASSUME QueryAssumption ==
    /\ Partitions \subseteq Int
    /\ NoPartition \in Int
    /\ \A p \in Partitions : NoPartition < p
    /\ Docs \subseteq Partitions \X Int
    /\ PageSize \in Nat \ {0}

VARIABLES
    query,      \* the query under way, or the last one
    found,      \* how often each document is among the items of the pages
                \* fetched by this attempt
    steady,     \* history: documents there since the query was called
    seen        \* history: documents there at some time since then

queryVars == <<query, found, steady, seen>>

(* What a query asks for.  "key": its @user_id, @email or @id names the    *)
(* partition.  "id": it names a document by @id in a container with        *)
(* another partition key, trips for one.  "all": it has no such parameter. *)
Asks == [by : {"key"}, p : Partitions] \cup
        [by : {"id"}, d : Docs] \cup [by : {"all"}]

Matches(ask) ==
    CASE ask.by = "key" -> {d \in Docs : d[1] = ask.p}
      [] ask.by = "id" -> {ask.d}
      [] ask.by = "all" -> Docs

(* QueryItems: without a recognised parameter the REST interface looks at  *)
(* all partitions, if there is an account key to sign with.  Otherwise the *)
(* parameter's value is taken for the partition key; the id of a document  *)
(* is that of no partition.                                                *)
AllPartitions(ask, keyed) == ask.by = "all" /\ keyed

Route(ask, keyed) ==
    CASE ask.by = "key" -> {ask.p}
      [] AllPartitions(ask, keyed) -> Partitions
      [] OTHER -> {NoPartition}

(* QueryWithRetry and QueryCrossPartitionWithRetry, of a container, have   *)
(* the retry loop around them; QueryItems, of the client, does not.        *)
NoQuery == [stage |-> "idle", ask |-> [by |-> "all"], keyed |-> FALSE,
            after |-> <<NoPartition, 0>>, left |-> 0, answer |-> "none"]

QueryInit ==
    /\ query = NoQuery
    /\ found = [d \in Docs |-> 0]
    /\ steady = {}
    /\ seen = {}

Before(d, e) == d[1] < e[1] \/ (d[1] = e[1] /\ d[2] < e[2])

(* The documents that the next page and those after it are to hold, and    *)
(* those of them up to one.                                                *)
Ahead ==
    {d \in docs \cap Matches(query.ask) :
        d[1] \in Route(query.ask, query.keyed) /\ Before(query.after, d)}

UpTo(last) == {d \in Ahead : ~Before(last, d)}

Fetched(page) == found' = [d \in Docs |-> IF d \in page THEN found[d] + 1 ELSE found[d]]

CallQuery(ask, keyed, withRetry) ==
    /\ query.stage # "paging"
    /\ ~(withRetry /\ AllPartitions(ask, keyed))
    /\ query' = [stage |-> "paging", ask |-> ask, keyed |-> keyed, after |-> NoQuery.after,
                 left |-> IF withRetry THEN MaxRetries ELSE 0, answer |-> "none"]
    /\ found' = [d \in Docs |-> 0]
    /\ steady' = docs
    /\ seen' = docs
    /\ UNCHANGED dataVars

(* A page arrives.  Without a continuation token it is the last one: that  *)
(* a full page has more after it is known from the token.                  *)
Page ==
    /\ query.stage = "paging"
    /\ \/ /\ Cardinality(Ahead) > PageSize
          /\ \E last \in Ahead :
                /\ Cardinality(UpTo(last)) = PageSize
                /\ Fetched(UpTo(last))
                /\ query' = [query EXCEPT !.after = last]
       \/ /\ Cardinality(Ahead) <= PageSize
          /\ Fetched(Ahead)
          /\ query' = [query EXCEPT !.stage = "idle", !.answer = "nil"]
    /\ UNCHANGED <<dataVars, steady, seen>>

(* Fault of a mutant run: the items of an attempt are kept for the next. *)
FromTheTopKeeping(items) == items

(* The variable items is declared in the function that is tried again. *)
FromTheTop(items) == [d \in Docs |-> 0]

(* A page fails: the loop starts the query again from its first page, or   *)
(* the query fails as a whole.                                             *)
PageFails(err) ==
    /\ query.stage = "paging"
    /\ \/ /\ TriesAgain(err, query.left)
          /\ query' = [query EXCEPT !.left = @ - 1, !.after = NoQuery.after]
          /\ found' = FromTheTop(found)
       \/ /\ GivesUp(err, query.left)
          /\ query' = [query EXCEPT !.stage = "idle", !.answer = err]
          /\ found' = [d \in Docs |-> 0]
    /\ UNCHANGED <<dataVars, steady, seen>>

(* Documents come and go meanwhile, by whatever writers there are. *)
Elsewhere(d) ==
    /\ docs' = IF d \in docs THEN docs \ {d} ELSE docs \cup {d}
    /\ steady' = steady \cap docs'
    /\ seen' = seen \cup docs'
    /\ UNCHANGED <<value, queue, online, located, open, call, late, ran, gone, query, found>>

QuerySteps ==
    \/ \E ask \in Asks, keyed, withRetry \in BOOLEAN : CallQuery(ask, keyed, withRetry)
    \/ \E d \in Docs : query.stage = "paging" /\ Elsewhere(d)
    \/ Page
    \/ \E err \in {"network", "throttled", "rejected"} : PageFails(err)

------------------------------------------------------------------------------
(* The partition key that the client makes of the parameters is the one    *)
(* the documents have.  A query by id in another container, and one        *)
(* without parameters under managed identity, look where nothing is.       *)
RightRoute ==
    \A d \in Matches(query.ask) : d[1] \in Route(query.ask, query.keyed)

(* A query that answers nil has each document that matched and was there   *)
(* the whole time, has none twice, and has none that never was there       *)
(* (cosmos.go:196-207, 466-518), whatever pages fail and are fetched again *)
(* and whatever is written meanwhile.                                      *)
QueriesAreComplete ==
    query.answer = "nil" /\ query.stage = "idle" =>
        /\ RightRoute => \A d \in steady \cap Matches(query.ask) : found[d] > 0
        /\ \A d \in Docs : found[d] > 0 => d \in seen \cap Matches(query.ask)
        /\ \A d \in Docs : found[d] <= 1

================================================================================
