------------------------------- MODULE Migrator -------------------------------
(***************************************************************************)
(* The migrations of database/migrations.go: replicas of a service that    *)
(* each run Up, UpTo, Down, DownTo or Refresh on one database.             *)
(*                                                                         *)
(* A run reads the tracking table once and then works through the list it  *)
(* made of it, one transaction per migration, while other replicas do the  *)
(* same.  A transaction runs the script and writes the tracking row; the   *)
(* row's primary key, and a script that creates what exists, make it fail. *)
(* A script's statements are one change of the schema.                     *)
(***************************************************************************)
EXTENDS Integers, FiniteSets

CONSTANTS
    Migrators,      \* processes that migrate the database
    Versions,       \* the versions of m.migrations, the same in each
    HasUp,          \* those with an up script
    HasDown,        \* those with a down script
    Jobs            \* the operations that are called

ASSUME MigratorAssumption ==
    /\ IsFiniteSet(Migrators)
    /\ IsFiniteSet(Versions)
    /\ Versions \subseteq Nat \ {0}
    /\ HasUp \subseteq Versions
    /\ HasDown \subseteq Versions
    /\ Jobs \subseteq {"up", "upTo", "down", "downTo", "refresh"}

VARIABLES
    recorded,   \* versions in the tracking table
    schema,     \* versions whose up script is in effect
    pc,         \* where each process is
    job,        \* the operation it runs
    todo,       \* versions it has still to run or roll back
    outcome,    \* what its last operation returned
    calm,       \* history: no rollback has overlapped another operation, or
                \* gone by a tracking table that was read only in part
    bare        \* history: a transaction has run without a script

vars == <<recorded, schema, pc, job, todo, outcome, calm, bare>>

(* "reading": Initialize has run, Status has not. *)
Stages == {"idle", "reading", "applying", "rollingBack"}
Targets == Versions \cup {0}
Rollbacks == {"down", "downTo", "refresh"}

Init ==
    /\ recorded = {}
    /\ schema = {}
    /\ pc = [p \in Migrators |-> "idle"]
    /\ job = [p \in Migrators |-> "up"]
    /\ todo = [p \in Migrators |-> {}]
    /\ outcome = [p \in Migrators |-> "none"]
    /\ calm = TRUE
    /\ bare = FALSE

(* A rollback among the operations that are under way at the same time. *)
Overlaps(p, j) ==
    \E q \in Migrators \ {p} : pc[q] # "idle" /\ {j, job[q]} \cap Rollbacks # {}

(* An operation is called; Initialize finds or creates the table. *)
Call(p) ==
    /\ pc[p] = "idle"
    /\ pc' = [pc EXCEPT ![p] = "reading"]
    /\ \E j \in Jobs :
          /\ job' = [job EXCEPT ![p] = j]
          /\ calm' = (calm /\ ~Overlaps(p, j))
    /\ outcome' = [outcome EXCEPT ![p] = "none"]
    /\ UNCHANGED <<recorded, schema, todo, bare>>

(* Status does not look at rows.Err: a result set that breaks off, in the  *)
(* order of the primary key, reads like a shorter table.                   *)
ReadBack(seen) ==
    \/ seen = recorded
    \/ \E v \in recorded : seen = {w \in recorded : w < v}

IsLast(v, S) == v \in S /\ \A w \in S : w <= v
IsFirst(v, S) == v \in S /\ \A w \in S : v <= w

(* Up takes what is not applied, UpTo the part of it up to a version. *)
PlanUp(p, seen) ==
    /\ \/ job[p] = "up" /\ todo' = [todo EXCEPT ![p] = Versions \ seen]
       \/ /\ job[p] = "upTo"
          /\ \E t \in Targets :
                todo' = [todo EXCEPT ![p] = {v \in Versions \ seen : v <= t}]
    /\ pc' = [pc EXCEPT ![p] = "applying"]
    /\ UNCHANGED outcome

(* Down takes the last applied migration, DownTo those above a version,    *)
(* Reset and so Refresh all of them.  Down alone asks for a down script.   *)
PlanDown(p, seen) ==
    LET applied == seen \cap Versions
        last == {v \in applied : IsLast(v, applied)}
    IN  \/ /\ job[p] = "down"
           /\ last \subseteq HasDown
           /\ todo' = [todo EXCEPT ![p] = last]
           /\ pc' = [pc EXCEPT ![p] = "rollingBack"]
           /\ UNCHANGED outcome
        \/ /\ job[p] = "down"
           /\ ~(last \subseteq HasDown)
           /\ pc' = [pc EXCEPT ![p] = "idle"]
           /\ outcome' = [outcome EXCEPT ![p] = "failed"]
           /\ UNCHANGED todo
        \/ /\ \/ /\ job[p] = "downTo"
                 /\ \E t \in Targets :
                       todo' = [todo EXCEPT ![p] = {v \in applied : v > t}]
              \/ /\ job[p] = "refresh"
                 /\ todo' = [todo EXCEPT ![p] = applied]
           /\ pc' = [pc EXCEPT ![p] = "rollingBack"]
           /\ UNCHANGED outcome

Status(p, seen) ==
    /\ pc[p] = "reading"
    /\ ReadBack(seen)
    /\ PlanUp(p, seen) \/ PlanDown(p, seen)
    /\ calm' = (calm /\ (job[p] \in Rollbacks => seen = recorded))
    /\ UNCHANGED <<recorded, schema, job, bare>>

(* runMigration's transaction, as Commit leaves the database. *)
(* Fault of a mutant run: the tracking row is written without the script's *)
(* transaction.                                                            *)
CommitUpInParts(v) ==
    /\ v \notin recorded
    /\ v \in HasUp => v \notin schema
    /\ recorded' = recorded \cup {v}
    /\ schema' = schema \cup ({v} \cap HasUp) \/ UNCHANGED schema
    /\ bare' = (bare \/ v \notin HasUp)

CommitUp(v) ==
    /\ v \notin recorded
    /\ v \in HasUp => v \notin schema
    /\ recorded' = recorded \cup {v}
    /\ schema' = schema \cup ({v} \cap HasUp)
    /\ bare' = (bare \/ v \notin HasUp)

CommitDown(v) ==
    /\ recorded' = recorded \ {v}
    /\ schema' = schema \ ({v} \cap HasDown)
    /\ bare' = (bare \/ v \notin HasDown)

(* Returning an error leaves the rest of the list undone. *)
Give(p, result) ==
    /\ pc' = [pc EXCEPT ![p] = "idle"]
    /\ todo' = [todo EXCEPT ![p] = {}]
    /\ outcome' = [outcome EXCEPT ![p] = result]

GoOn(p, v) ==
    /\ todo' = [todo EXCEPT ![p] = @ \ {v}]
    /\ UNCHANGED <<pc, outcome>>

(* Only Up refuses a migration without an up script. *)
Refused(p, v) == job[p] \in {"up", "refresh"} /\ v \notin HasUp

(* Migrations are applied in ascending order.  A commit whose              *)
(* acknowledgement is lost is an error to the caller.                      *)
Apply(p, v) ==
    /\ pc[p] = "applying"
    /\ IsFirst(v, todo[p])
    /\ ~Refused(p, v)
    /\ CommitUp(v)
    /\ GoOn(p, v) \/ Give(p, "failed")
    /\ UNCHANGED <<job, calm>>

RollBack(p, v) ==
    /\ pc[p] = "rollingBack"
    /\ IsLast(v, todo[p])
    /\ CommitDown(v)
    /\ GoOn(p, v) \/ Give(p, "failed")
    /\ UNCHANGED <<job, calm>>

(* Another process has run the migration since this one read the table:    *)
(* its script or its tracking row fails, and the transaction rolls back.   *)
(* A migration that is refused ends the operation as well.  "refused" and  *)
(* "failed" are one error to the caller, told apart for AllApplied.        *)
CannotApply(p, v) == Refused(p, v) \/ v \in recorded \/ v \in HasUp \cap schema

Collide(p, v) ==
    /\ pc[p] = "applying"
    /\ IsFirst(v, todo[p])
    /\ CannotApply(p, v)
    /\ Give(p, "refused")
    /\ UNCHANGED <<recorded, schema, job, calm, bare>>

(* Fault of a mutant run: Up goes on with the next migration. *)
FailAndGoOn(p) ==
    /\ pc[p] = "applying"
    /\ \E v \in todo[p] : IsFirst(v, todo[p]) /\ GoOn(p, v)
    /\ UNCHANGED <<recorded, schema, job, calm, bare>>

(* A statement or the connection fails, and the transaction rolls back. *)
Fail(p) ==
    /\ pc[p] # "idle"
    /\ Give(p, "failed")
    /\ UNCHANGED <<recorded, schema, job, calm, bare>>

(* The process dies: a transaction that is open is rolled back. *)
Crash(p) ==
    /\ pc[p] # "idle"
    /\ Give(p, "none")
    /\ UNCHANGED <<recorded, schema, job, calm, bare>>

(* The list is done.  Refresh goes on with Up, which reads anew. *)
Finish(p) ==
    /\ pc[p] \in {"applying", "rollingBack"}
    /\ todo[p] = {}
    /\ \/ /\ job[p] = "refresh"
          /\ job' = [job EXCEPT ![p] = "up"]
          /\ pc' = [pc EXCEPT ![p] = "reading"]
          /\ UNCHANGED <<todo, outcome>>
       \/ /\ job[p] # "refresh"
          /\ Give(p, "ok")
          /\ UNCHANGED job
    /\ UNCHANGED <<recorded, schema, calm, bare>>

Next ==
    \E p \in Migrators :
        \/ Call(p) \/ Finish(p) \/ Fail(p) \/ Crash(p)
        \/ \E seen \in SUBSET recorded : Status(p, seen)
        \/ \E v \in Versions : Apply(p, v) \/ Collide(p, v) \/ RollBack(p, v)

Spec == Init /\ [][Next]_vars

(* A service that starts again migrates again, and the database answers.   *)
Fairness ==
    \A p \in Migrators :
        /\ WF_vars(Call(p))
        /\ WF_vars(\E seen \in SUBSET recorded : Status(p, seen))
        /\ WF_vars(\/ Finish(p)
                   \/ \E v \in Versions : Apply(p, v) \/ Collide(p, v) \/ RollBack(p, v))

FairSpec == Spec /\ Fairness

------------------------------------------------------------------------------
TypeOK ==
    /\ recorded \in SUBSET Versions
    /\ schema \in SUBSET Versions
    /\ pc \in [Migrators -> Stages]
    /\ job \in [Migrators -> {"up", "upTo", "down", "downTo", "refresh"}]
    /\ todo \in [Migrators -> SUBSET Versions]
    /\ outcome \in [Migrators -> {"none", "ok", "failed", "refused"}]
    /\ calm \in BOOLEAN
    /\ bare \in BOOLEAN

(* No version is applied without all those below it, since scripts build   *)
(* on each other's tables: not while replicas race to migrate up, and not  *)
(* by a rollback, if it has the database to itself and reads the whole     *)
(* tracking table.                                                         *)
PrefixApplied ==
    calm => \A v \in recorded, w \in Versions : w < v => w \in recorded

(* The tracking table says what the schema is, after any number of lost    *)
(* acknowledgements, crashes and races of any operations, as long as the   *)
(* migrations that run have their scripts.                                 *)
SchemaMatches == ~bare => recorded = schema

(* When Up returns no error every migration is in effect, whatever other   *)
(* replicas were doing at the time, except rolling back.                   *)
UpMeansAll ==
    [][\A p \in Migrators :
          /\ calm /\ ~bare
          /\ job[p] = "up" /\ outcome[p] = "none" /\ outcome'[p] = "ok"
          => schema = Versions]_vars

(* "Down rolls back the last migration" (line 266), and so does each step  *)
(* of DownTo and Reset.                                                    *)
DownTakesLast ==
    [][calm => \A v \in recorded \ recorded' : IsLast(v, recorded)]_vars

(* What the operations do once the database works, processes no longer die *)
(* and each that starts runs Up.                                           *)
Undisturbed ==
    \A p \in Migrators :
        /\ ~Crash(p) /\ ~Fail(p)
        /\ Call(p) => job'[p] = "up"
        /\ \A seen \in SUBSET recorded : Status(p, seen) => seen = recorded

(* Then all migrations are applied and stay so, whatever came before:      *)
(* replicas that collide do not keep each other from the end.  A rollback  *)
(* without a script does, because it leaves a table that Up creates again. *)
AllApplied ==
    <>[][Undisturbed]_vars /\ []~bare => <>[](schema = Versions)

===============================================================================
