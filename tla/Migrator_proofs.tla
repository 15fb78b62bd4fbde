--------------------------- MODULE Migrator_proofs ---------------------------
(***************************************************************************)
(* Proofs about Migrator, for any number of replicas, any migrations and   *)
(* any operations: the tracking table says what the schema is, there are   *)
(* no gaps in it, rollbacks start at its end, and an Up that returns no    *)
(* error has left nothing out.                                             *)
(*                                                                         *)
(* And about the migrations it has, MigrationScripts: their statements     *)
(* succeed in the order the Migrator keeps, and the schema between them is *)
(* that of the versions on record.                                         *)
(***************************************************************************)
EXTENDS Migrator, MigrationScripts, TLAPS

Operations == {"up", "upTo", "down", "downTo", "refresh"}
Outcomes == {"none", "ok", "failed", "refused"}

LEMMA PlanType ==
    ASSUME TypeOK, NEW p \in Migrators, NEW seen \in SUBSET recorded,
           PlanUp(p, seen) \/ PlanDown(p, seen)
    PROVE  /\ todo' \in [Migrators -> SUBSET Versions]
           /\ pc' \in [Migrators -> Stages]
           /\ outcome' \in [Migrators -> Outcomes]
<1>1. CASE PlanUp(p, seen)
    BY <1>1 DEF PlanUp, TypeOK, Stages, Outcomes
<1>2. CASE PlanDown(p, seen)
    BY <1>2 DEF PlanDown, TypeOK, Stages, Outcomes
<1> QED BY <1>1, <1>2

(* The history variables are Booleans, whatever happens. *)
LEMMA HistoryType ==
    ASSUME TypeOK, [Next]_vars
    PROVE  calm' \in BOOLEAN /\ bare' \in BOOLEAN
<1>1. calm \in BOOLEAN /\ bare \in BOOLEAN
    BY DEF TypeOK
<1>2. CASE UNCHANGED <<calm, bare>>
    BY Zenon, <1>1, <1>2
<1>3. ASSUME NEW p \in Migrators, Call(p) PROVE calm' \in BOOLEAN /\ bare' \in BOOLEAN
    BY Zenon, <1>1, <1>3 DEF Call
<1>4. ASSUME NEW p \in Migrators, NEW seen \in SUBSET recorded, Status(p, seen)
      PROVE  calm' \in BOOLEAN /\ bare' \in BOOLEAN
    BY Zenon, <1>1, <1>4 DEF Status
<1>5. ASSUME NEW p \in Migrators, NEW v \in Versions, Apply(p, v) \/ RollBack(p, v)
      PROVE  calm' \in BOOLEAN /\ bare' \in BOOLEAN
    BY Zenon, <1>1, <1>5 DEF Apply, RollBack, CommitUp, CommitDown
<1> QED
    BY <1>2, <1>3, <1>4, <1>5 DEF Next, vars, Finish, Fail, Crash, Collide

(* The variables keep their ranges: only known versions are recorded. *)
THEOREM TypeCorrect == Spec => []TypeOK
<1>1. Init => TypeOK
    <2> SUFFICES ASSUME Init PROVE TypeOK
        OBVIOUS
    <2>1. calm \in BOOLEAN /\ bare \in BOOLEAN
        BY Zenon DEF Init
    <2> QED BY <2>1 DEF Init, TypeOK, Stages
<1>2. TypeOK /\ [Next]_vars => TypeOK'
    <2> SUFFICES ASSUME TypeOK, [Next]_vars PROVE TypeOK'
        OBVIOUS
    <2> DEFINE Ranges ==
                   /\ recorded' \in SUBSET Versions
                   /\ schema' \in SUBSET Versions
                   /\ pc' \in [Migrators -> Stages]
                   /\ job' \in [Migrators -> Operations]
                   /\ todo' \in [Migrators -> SUBSET Versions]
                   /\ outcome' \in [Migrators -> Outcomes]
    <2>0. Ranges => TypeOK'
        BY HistoryType DEF TypeOK, Operations, Outcomes
    <2> USE DEF Operations, Outcomes
    <2>1. CASE UNCHANGED vars
        BY <2>1 DEF vars, TypeOK
    <2>2. ASSUME NEW p \in Migrators, Call(p) PROVE Ranges
        BY <2>2, MigratorAssumption DEF Call, TypeOK, Stages, MigratorAssumption
    <2>3. ASSUME NEW p \in Migrators, NEW seen \in SUBSET recorded, Status(p, seen)
          PROVE  Ranges
        BY <2>3, PlanType DEF Status, TypeOK
    <2>4. ASSUME NEW p \in Migrators, Finish(p) PROVE Ranges
        BY <2>4 DEF Finish, Give, TypeOK, Stages
    <2>5. ASSUME NEW p \in Migrators, Fail(p) \/ Crash(p) PROVE Ranges
        BY <2>5 DEF Fail, Crash, Give, TypeOK, Stages
    <2>6. ASSUME NEW p \in Migrators, NEW v \in Versions, Apply(p, v) PROVE Ranges
        BY <2>6 DEF Apply, CommitUp, GoOn, Give, TypeOK, Stages
    <2>7. ASSUME NEW p \in Migrators, NEW v \in Versions, RollBack(p, v) PROVE Ranges
        BY <2>7 DEF RollBack, CommitDown, GoOn, Give, TypeOK, Stages
    <2>8. ASSUME NEW p \in Migrators, NEW v \in Versions, Collide(p, v) PROVE Ranges
        BY <2>8 DEF Collide, Give, TypeOK, Stages
    <2> HIDE DEF Ranges
    <2>9. CASE Next
        BY <2>0, <2>2, <2>3, <2>4, <2>5, <2>6, <2>7, <2>8, <2>9 DEF Next
    <2> QED BY <2>1, <2>9
<1> QED BY <1>1, <1>2, PTL DEF Spec

(* A transaction that has its script changes the schema as it changes the  *)
(* tracking table, because it does both or neither (lines 334-377).        *)
LEMMA MatchKept ==
    ASSUME TypeOK, SchemaMatches, [Next]_vars
    PROVE  SchemaMatches'
<1> SUFFICES ASSUME ~bare' PROVE recorded' = schema'
    BY DEF SchemaMatches
<1>1. CASE UNCHANGED <<recorded, schema, bare>>
    BY <1>1 DEF SchemaMatches
<1>2. ASSUME NEW p \in Migrators, NEW v \in Versions, Apply(p, v)
      PROVE  recorded' = schema'
    <2>1. ~bare /\ v \in HasUp
        BY <1>2 DEF Apply, CommitUp
    <2> QED BY <1>2, <2>1 DEF Apply, CommitUp, SchemaMatches
<1>3. ASSUME NEW p \in Migrators, NEW v \in Versions, RollBack(p, v)
      PROVE  recorded' = schema'
    <2>1. ~bare /\ v \in HasDown
        BY <1>3 DEF RollBack, CommitDown
    <2> QED BY <1>3, <2>1 DEF RollBack, CommitDown, SchemaMatches
<1> QED
    BY <1>1, <1>2, <1>3
    DEF Next, vars, Call, Status, Finish, Fail, Crash, Collide

(* The tracking table says what the schema is, whatever operations race,   *)
(* fail, or lose their acknowledgement.                                    *)
THEOREM RecordIsTrue == Spec => []SchemaMatches
<1>1. Init => SchemaMatches
    BY DEF Init, SchemaMatches
<1>2. TypeOK /\ SchemaMatches /\ [Next]_vars => SchemaMatches'
    BY MatchKept
<1> QED BY <1>1, <1>2, TypeCorrect, PTL DEF Spec

(* What a process is working through goes with its operation. *)
InPlace ==
    \A p \in Migrators :
        /\ pc[p] = "applying" => job[p] \in {"up", "upTo"}
        /\ pc[p] = "rollingBack" => job[p] \in Rollbacks

(* A rollback has the database to itself. *)
Alone ==
    \A p, q \in Migrators :
        p # q /\ pc[p] # "idle" /\ pc[q] # "idle" => job[p] \notin Rollbacks

(* The list of a process that migrates up leaves out only what is done,    *)
(* that of a rollback takes in all that is done above its members, and     *)
(* Up leaves out nothing.                                                  *)
NoneBelow(todoOf, done) ==
    \A v \in todoOf, w \in Versions : w < v => w \in todoOf \cup done
AllAbove(todoOf, done) ==
    \A v \in todoOf, w \in done : v < w => w \in todoOf
Complete(todoOf, done) == Versions \subseteq todoOf \cup done

ListsFit ==
    \A p \in Migrators :
        /\ pc[p] = "applying" => NoneBelow(todo[p], recorded)
        /\ pc[p] = "rollingBack" => AllAbove(todo[p], recorded)
        /\ pc[p] = "applying" /\ job[p] = "up" => Complete(todo[p], recorded)

IInv == InPlace /\ (calm => Alone /\ ListsFit /\ PrefixApplied)

(* What a process reads, and the list it makes of it.  *)
LEMMA PlanFits ==
    ASSUME TypeOK, NEW p \in Migrators, NEW seen \in SUBSET recorded,
           PlanUp(p, seen) \/ PlanDown(p, seen)
    PROVE  \E to \in {"applying", "rollingBack", "idle"}, T \in SUBSET Versions :
              /\ pc' = [pc EXCEPT ![p] = to]
              /\ todo' = [todo EXCEPT ![p] = T]
              /\ to = "applying" =>
                    /\ job[p] \in {"up", "upTo"}
                    /\ NoneBelow(T, recorded)
                    /\ job[p] = "up" => Complete(T, recorded)
              /\ to = "rollingBack" =>
                    /\ job[p] \in Rollbacks
                    /\ seen = recorded => AllAbove(T, recorded)
<1> USE MigratorAssumption DEF MigratorAssumption
<1> DEFINE done == seen \cap Versions
           last == {v \in done : IsLast(v, done)}
           Upto(t) == {v \in Versions \ seen : v <= t}
           Above(t) == {v \in done : v > t}
<1>0. recorded \subseteq Versions /\ Versions \subseteq Nat
    BY DEF TypeOK
<1>1. CASE PlanUp(p, seen) /\ job[p] = "up"
    <2>1. /\ NoneBelow(Versions \ seen, recorded)
          /\ Complete(Versions \ seen, recorded)
        BY DEF NoneBelow, Complete
    <2> QED BY <1>1, <2>1 DEF PlanUp
<1>2. CASE PlanUp(p, seen) /\ job[p] = "upTo"
    <2>1. PICK t \in Targets : todo' = [todo EXCEPT ![p] = Upto(t)]
        BY <1>2 DEF PlanUp
    <2>2. NoneBelow(Upto(t), recorded)
        <3>1. t \in Nat
            BY DEF Targets
        <3> QED BY <3>1, <1>0 DEF NoneBelow
    <2>3. Upto(t) \in SUBSET Versions /\ pc' = [pc EXCEPT ![p] = "applying"]
        BY <1>2 DEF PlanUp
    <2> HIDE DEF Upto
    <2> QED BY <1>2, <2>1, <2>2, <2>3
<1>3. CASE PlanDown(p, seen) /\ job[p] = "down"
    <2>1. todo = [todo EXCEPT ![p] = todo[p]] /\ todo[p] \in SUBSET Versions
        BY DEF TypeOK
    <2>2. seen = recorded => AllAbove(last, recorded)
        <3> SUFFICES ASSUME seen = recorded, NEW v \in last, NEW w \in recorded, v < w
                     PROVE  FALSE
            BY DEF AllAbove
        <3>1. w <= v
            BY <1>0 DEF IsLast
        <3> QED BY <3>1, <1>0
    <2>3. last \in SUBSET Versions
        OBVIOUS
    <2>4. \/ pc' = [pc EXCEPT ![p] = "rollingBack"] /\ todo' = [todo EXCEPT ![p] = last]
          \/ pc' = [pc EXCEPT ![p] = "idle"] /\ todo' = todo
        BY <1>3 DEF PlanDown
    <2>5. job[p] \in Rollbacks
        BY <1>3 DEF Rollbacks
    <2> HIDE DEF last
    <2> QED BY <2>1, <2>2, <2>3, <2>4, <2>5
<1>4. CASE PlanDown(p, seen) /\ job[p] = "downTo"
    <2>1. PICK t \in Targets : todo' = [todo EXCEPT ![p] = Above(t)]
        BY <1>4 DEF PlanDown
    <2>2. seen = recorded => AllAbove(Above(t), recorded)
        <3>1. t \in Nat
            BY DEF Targets
        <3> QED BY <3>1, <1>0 DEF AllAbove
    <2>3. Above(t) \in SUBSET Versions /\ pc' = [pc EXCEPT ![p] = "rollingBack"]
        BY <1>4 DEF PlanDown
    <2>4. job[p] \in Rollbacks
        BY <1>4 DEF Rollbacks
    <2> HIDE DEF Above
    <2> QED BY <2>1, <2>2, <2>3, <2>4
<1>5. CASE PlanDown(p, seen) /\ job[p] = "refresh"
    <2>1. seen = recorded => AllAbove(done, recorded)
        BY <1>0 DEF AllAbove
    <2>2. /\ todo' = [todo EXCEPT ![p] = done]
          /\ pc' = [pc EXCEPT ![p] = "rollingBack"]
          /\ done \in SUBSET Versions
        BY <1>5 DEF PlanDown
    <2>3. job[p] \in Rollbacks
        BY <1>5 DEF Rollbacks
    <2> HIDE DEF done
    <2> QED BY <2>1, <2>2, <2>3
<1> QED BY <1>1, <1>2, <1>3, <1>4, <1>5 DEF PlanUp, PlanDown

(* A step that ends an operation, or goes on to the next list, leaves a    *)
(* database in order.                                                      *)
LEMMA LeavingHolds ==
    ASSUME TypeOK, IInv, NEW p \in Migrators,
           pc' = [pc EXCEPT ![p] = "idle"] \/ pc' = [pc EXCEPT ![p] = "reading"],
           pc[p] # "idle",
           UNCHANGED job \/ job' = [job EXCEPT ![p] = "up"],
           \A q \in Migrators : q # p => todo'[q] = todo[q],
           UNCHANGED <<recorded, calm>>
    PROVE  IInv'
<1>1. /\ \A q \in Migrators : q # p => pc'[q] = pc[q] /\ job'[q] = job[q]
      /\ pc'[p] \in {"idle", "reading"}
      /\ job'[p] \in {job[p], "up"}
    BY DEF TypeOK
<1>2. InPlace'
    BY <1>1 DEF IInv, InPlace
<1>3. Alone => Alone'
    BY <1>1 DEF Alone, Rollbacks
<1>4. ListsFit => ListsFit'
    BY <1>1 DEF ListsFit
<1> QED BY <1>2, <1>3, <1>4 DEF IInv, PrefixApplied

LEMMA ApplyHolds ==
    ASSUME TypeOK, IInv, NEW p \in Migrators, NEW v \in Versions, Apply(p, v)
    PROVE  IInv'
<1> USE MigratorAssumption DEF MigratorAssumption
<1>0. recorded \subseteq Versions /\ Versions \subseteq Nat
    BY DEF TypeOK
<1>1. /\ pc[p] = "applying" /\ IsFirst(v, todo[p])
      /\ recorded' = recorded \cup {v} /\ job' = job /\ calm' = calm
      /\ \/ todo' = [todo EXCEPT ![p] = @ \ {v}] /\ pc' = pc
         \/ todo' = [todo EXCEPT ![p] = {}] /\ pc' = [pc EXCEPT ![p] = "idle"]
    BY DEF Apply, CommitUp, GoOn, Give
<1>2. /\ \A q \in Migrators : pc'[q] # "idle" => pc'[q] = pc[q] /\ pc[q] # "idle"
      /\ \A q \in Migrators :
            pc'[q] # "idle" => todo'[q] = IF q = p THEN todo[q] \ {v} ELSE todo[q]
    BY <1>1 DEF TypeOK, Stages
<1>3. InPlace'
    BY <1>1, <1>2 DEF IInv, InPlace
<1>4. ASSUME calm PROVE Alone' /\ ListsFit' /\ PrefixApplied'
    <2>1. Alone /\ ListsFit /\ \A x \in recorded, w \in Versions : w < x => w \in recorded
        BY <1>4 DEF IInv, PrefixApplied
    <2>2. Alone'
        BY <1>1, <1>2, <2>1 DEF Alone
    <2>3. \A w \in Versions : w < v => w \in recorded
        <3>1. NoneBelow(todo[p], recorded) /\ v \in todo[p]
            BY <1>1, <2>1 DEF ListsFit, IsFirst
        <3>2. \A w \in todo[p] : v <= w
            BY <1>1 DEF IsFirst
        <3> QED BY <1>0, <3>1, <3>2 DEF NoneBelow
    <2>4. PrefixApplied'
        BY <1>1, <2>1, <2>3 DEF PrefixApplied
    <2>5. ListsFit'
        <3> SUFFICES ASSUME NEW q \in Migrators, pc'[q] \in {"applying", "rollingBack"}
                     PROVE  /\ pc'[q] = "applying" => NoneBelow(todo'[q], recorded')
                            /\ pc'[q] = "rollingBack" => AllAbove(todo'[q], recorded')
                            /\ pc'[q] = "applying" /\ job'[q] = "up"
                                   => Complete(todo'[q], recorded')
            BY DEF ListsFit
        <3>1. pc'[q] = pc[q] /\ job'[q] = job[q]
            BY <1>1, <1>2
        <3>2. todo'[q] = IF q = p THEN todo[q] \ {v} ELSE todo[q]
            BY <1>2
        <3>3. pc[q] # "rollingBack"
            BY <1>1, <2>1, <3>1 DEF Alone, IInv, InPlace
        <3> QED BY <1>1, <2>1, <3>1, <3>2, <3>3 DEF ListsFit, NoneBelow, Complete
    <2> QED BY <2>2, <2>4, <2>5
<1> QED BY <1>1, <1>3, <1>4 DEF IInv

LEMMA RollBackHolds ==
    ASSUME TypeOK, IInv, NEW p \in Migrators, NEW v \in Versions, RollBack(p, v)
    PROVE  IInv'
<1> USE MigratorAssumption DEF MigratorAssumption
<1>0. recorded \subseteq Versions /\ Versions \subseteq Nat
    BY DEF TypeOK
<1>1. /\ pc[p] = "rollingBack" /\ IsLast(v, todo[p])
      /\ recorded' = recorded \ {v} /\ job' = job /\ calm' = calm
      /\ \/ todo' = [todo EXCEPT ![p] = @ \ {v}] /\ pc' = pc
         \/ todo' = [todo EXCEPT ![p] = {}] /\ pc' = [pc EXCEPT ![p] = "idle"]
    BY DEF RollBack, CommitDown, GoOn, Give
<1>2. /\ \A q \in Migrators : pc'[q] # "idle" => pc'[q] = pc[q] /\ pc[q] # "idle"
      /\ \A q \in Migrators :
            pc'[q] # "idle" => todo'[q] = IF q = p THEN todo[q] \ {v} ELSE todo[q]
    BY <1>1 DEF TypeOK, Stages
<1>3. InPlace'
    BY <1>1, <1>2 DEF IInv, InPlace
<1>4. ASSUME calm PROVE Alone' /\ ListsFit' /\ PrefixApplied'
    <2>1. Alone /\ ListsFit /\ \A x \in recorded, w \in Versions : w < x => w \in recorded
        BY <1>4 DEF IInv, PrefixApplied
    <2>2. Alone'
        BY <1>1, <1>2, <2>1 DEF Alone
    <2>3. AllAbove(todo[p], recorded) /\ v \in todo[p] /\ \A w \in todo[p] : w <= v
        BY <1>1, <2>1 DEF ListsFit, IsLast
    <2>4. \A w \in recorded : w <= v
        BY <1>0, <2>3 DEF AllAbove
    <2>5. PrefixApplied'
        BY <1>0, <1>1, <2>1, <2>4 DEF PrefixApplied
    <2>6. ListsFit'
        <3> SUFFICES ASSUME NEW q \in Migrators, pc'[q] \in {"applying", "rollingBack"}
                     PROVE  /\ q = p /\ pc'[q] = "rollingBack"
                            /\ AllAbove(todo'[q], recorded')
            BY DEF ListsFit
        <3>1. pc[q] # "idle" /\ pc'[q] = pc[q]
            BY <1>2
        <3>2. job[p] \in Rollbacks
            BY <1>1 DEF IInv, InPlace
        <3>3. q = p
            BY <1>1, <2>1, <3>1, <3>2 DEF Alone
        <3>4. todo'[q] = todo[p] \ {v}
            BY <1>2, <3>3
        <3> QED BY <1>1, <2>3, <3>1, <3>3, <3>4 DEF AllAbove
    <2> QED BY <2>2, <2>5, <2>6
<1> QED BY <1>1, <1>3, <1>4 DEF IInv

(* One step of any process leaves a database in order. *)
LEMMA OrderKept == ASSUME TypeOK, IInv, [Next]_vars PROVE IInv'
<1>1. CASE UNCHANGED vars
    BY <1>1 DEF vars, IInv, InPlace, Alone, ListsFit, PrefixApplied
<1>2. ASSUME NEW p \in Migrators, Call(p) PROVE IInv'
    <2>1. PICK j \in Jobs : /\ job' = [job EXCEPT ![p] = j]
                            /\ calm' = (calm /\ ~Overlaps(p, j))
        BY <1>2 DEF Call
    <2>2. /\ pc[p] = "idle" /\ pc' = [pc EXCEPT ![p] = "reading"]
          /\ UNCHANGED <<recorded, todo>>
        BY <1>2 DEF Call
    <2>3. /\ \A q \in Migrators : q # p => pc'[q] = pc[q] /\ job'[q] = job[q]
          /\ pc'[p] = "reading" /\ job'[p] = j
        BY <2>1, <2>2 DEF TypeOK
    <2>4. InPlace'
        BY <2>3 DEF IInv, InPlace
    <2>5. calm' => calm /\ \A q \in Migrators \ {p} :
                              pc[q] # "idle" => j \notin Rollbacks /\ job[q] \notin Rollbacks
        BY <2>1 DEF Overlaps
    <2>6. calm' => Alone'
        BY <2>3, <2>5 DEF IInv, Alone
    <2>7. calm' => ListsFit'
        BY <2>2, <2>3, <2>5 DEF IInv, ListsFit
    <2> QED BY <2>2, <2>4, <2>5, <2>6, <2>7 DEF IInv, PrefixApplied
<1>3. ASSUME NEW p \in Migrators, NEW seen \in SUBSET recorded, Status(p, seen) PROVE IInv'
    <2>1. /\ pc[p] = "reading" /\ UNCHANGED <<recorded, job>>
          /\ calm' => calm /\ (job[p] \in Rollbacks => seen = recorded)
        BY <1>3 DEF Status
    <2>2. PICK to \in {"applying", "rollingBack", "idle"}, T \in SUBSET Versions :
              /\ pc' = [pc EXCEPT ![p] = to]
              /\ todo' = [todo EXCEPT ![p] = T]
              /\ to = "applying" =>
                    /\ job[p] \in {"up", "upTo"}
                    /\ NoneBelow(T, recorded)
                    /\ job[p] = "up" => Complete(T, recorded)
              /\ to = "rollingBack" =>
                    /\ job[p] \in Rollbacks
                    /\ seen = recorded => AllAbove(T, recorded)
        BY <1>3, PlanFits DEF Status
    <2>3. /\ \A q \in Migrators : q # p => pc'[q] = pc[q] /\ todo'[q] = todo[q]
          /\ pc'[p] = to /\ todo'[p] = T
        BY <2>2 DEF TypeOK
    <2>4. InPlace'
        BY <2>1, <2>2, <2>3 DEF IInv, InPlace
    <2>5. calm' => Alone'
        BY <2>1, <2>3 DEF IInv, Alone
    <2>6. calm' => ListsFit'
        BY <2>1, <2>2, <2>3 DEF IInv, ListsFit
    <2> QED BY <2>1, <2>4, <2>5, <2>6 DEF IInv, PrefixApplied
<1>4. ASSUME NEW p \in Migrators, Finish(p) \/ Fail(p) \/ Crash(p) PROVE IInv'
    <2>1. /\ pc[p] # "idle"
          /\ pc' = [pc EXCEPT ![p] = "idle"] \/ pc' = [pc EXCEPT ![p] = "reading"]
          /\ UNCHANGED job \/ job' = [job EXCEPT ![p] = "up"]
          /\ \A q \in Migrators : q # p => todo'[q] = todo[q]
          /\ UNCHANGED <<recorded, calm>>
        BY <1>4 DEF Finish, Fail, Crash, Give, TypeOK
    <2> QED BY <2>1, LeavingHolds
<1>5. ASSUME NEW p \in Migrators, NEW v \in Versions, Collide(p, v) PROVE IInv'
    <2>1. /\ pc[p] # "idle"
          /\ pc' = [pc EXCEPT ![p] = "idle"]
          /\ \A q \in Migrators : q # p => todo'[q] = todo[q]
          /\ UNCHANGED <<recorded, job, calm>>
        BY <1>5 DEF Collide, Give, TypeOK
    <2> QED BY <2>1, LeavingHolds
<1> QED BY <1>1, <1>2, <1>3, <1>4, <1>5, ApplyHolds, RollBackHolds DEF Next

(* The inductive invariant: what processes are working through fits what   *)
(* is applied.                                                             *)
THEOREM DatabaseInOrder == Spec => []IInv
<1>1. Init => IInv
    BY DEF Init, IInv, InPlace, Alone, ListsFit, PrefixApplied
<1>2. TypeOK /\ IInv /\ [Next]_vars => IInv'
    BY OrderKept
<1> QED BY <1>1, <1>2, TypeCorrect, PTL DEF Spec

(* Replicas that migrate up at the same time, die, or read the tracking    *)
(* table only in part, never apply a version before those below it, and no *)
(* rollback that has the database to itself leaves a gap.                  *)
THEOREM NoGaps == Spec => []PrefixApplied
<1>1. IInv => PrefixApplied
    BY DEF IInv, PrefixApplied
<1> QED BY <1>1, DatabaseInOrder, PTL

(* A rollback that has the database to itself takes the last migration     *)
(* that is applied, step after step.                                       *)
LEMMA StepTakesLast ==
    ASSUME TypeOK, IInv, [Next]_vars, calm, NEW w \in recorded \ recorded'
    PROVE  IsLast(w, recorded)
<1>1. recorded \subseteq Versions /\ Versions \subseteq Nat
    BY MigratorAssumption DEF MigratorAssumption, TypeOK
<1>2. PICK p \in Migrators, v \in Versions : RollBack(p, v)
    BY DEF Next, vars, Call, Status, Finish, Fail, Crash, Collide, Apply, CommitUp
<1>3. /\ recorded' = recorded \ {v} /\ pc[p] = "rollingBack"
      /\ v \in todo[p] /\ \A u \in todo[p] : u <= v
    BY <1>2 DEF RollBack, CommitDown, IsLast
<1>4. AllAbove(todo[p], recorded)
    BY <1>3 DEF IInv, ListsFit
<1>5. \A u \in recorded : u <= v
    BY <1>1, <1>3, <1>4 DEF AllAbove
<1> QED BY <1>3, <1>5 DEF IsLast

THEOREM RollbackTakesLast == Spec => DownTakesLast
<1>1. TypeOK /\ IInv /\ [Next]_vars
          => [calm => \A v \in recorded \ recorded' : IsLast(v, recorded)]_vars
    BY StepTakesLast
<1> QED BY <1>1, DatabaseInOrder, TypeCorrect, PTL DEF Spec, DownTakesLast

(* An Up that returns no error leaves every migration in effect, even if   *)
(* other replicas ran some of them in the meantime.                        *)
LEMMA StepCompletes ==
    ASSUME TypeOK, IInv, SchemaMatches, [Next]_vars, NEW p \in Migrators, calm, ~bare,
           job[p] = "up", outcome[p] = "none", outcome'[p] = "ok"
    PROVE  schema = Versions
<1>1. Finish(p)
    <2>1. ASSUME NEW q \in Migrators, NEW v \in Versions,
                 Apply(q, v) \/ Collide(q, v) \/ RollBack(q, v)
          PROVE  FALSE
        BY <2>1 DEF Apply, Collide, RollBack, GoOn, Give, TypeOK
    <2>2. ASSUME NEW q \in Migrators, Call(q) \/ Fail(q) \/ Crash(q) PROVE FALSE
        BY <2>2 DEF Call, Fail, Crash, Give, TypeOK
    <2>3. ASSUME NEW q \in Migrators, NEW seen \in SUBSET recorded, Status(q, seen)
          PROVE  FALSE
        BY <2>3 DEF Status, PlanUp, PlanDown, TypeOK
    <2>4. ASSUME NEW q \in Migrators, Finish(q) PROVE q = p
        BY <2>4 DEF Finish, Give, TypeOK
    <2> QED BY <2>1, <2>2, <2>3, <2>4 DEF Next, vars
<1>2. pc[p] = "applying" /\ todo[p] = {}
    BY <1>1 DEF Finish, IInv, InPlace, Rollbacks
<1>3. Versions \subseteq recorded
    BY <1>2 DEF IInv, ListsFit, Complete
<1> QED BY <1>3 DEF SchemaMatches, TypeOK

THEOREM UpIsComplete == Spec => UpMeansAll
<1>1. TypeOK /\ IInv /\ SchemaMatches /\ [Next]_vars
          => [\A p \in Migrators :
                 /\ calm /\ ~bare
                 /\ job[p] = "up" /\ outcome[p] = "none" /\ outcome'[p] = "ok"
                 => schema = Versions]_vars
    BY StepCompletes
<1> QED
    BY <1>1, DatabaseInOrder, RecordIsTrue, TypeCorrect, PTL DEF Spec, UpMeansAll

------------------------------------------------------------------------------
(* MigrationScripts.                                                       *)

(* Tables in the order in which the scripts create them. *)
Rank ==
    [users |-> 1, driver_profiles |-> 2, vehicles |-> 3, documents |-> 4,
     background_checks |-> 5, driver_onboarding |-> 6, payment_methods |-> 7,
     payments |-> 8, wallets |-> 9, wallet_transactions |-> 10,
     driver_payouts |-> 11, promotions |-> 12, promo_usage |-> 13,
     user_promos |-> 14, referrals |-> 15, wallet_credits |-> 16,
     ratings |-> 17, rating_responses |-> 18, user_rating_summaries |-> 19,
     support_tickets |-> 20, ticket_messages |-> 21, ticket_attachments |-> 22,
     support_agents |-> 23, risk_assessments |-> 24, fraud_alerts |-> 25,
     fraud_rules |-> 26, device_fingerprints |-> 27, device_tokens |-> 28,
     notification_preferences |-> 29, notifications |-> 30,
     service_areas |-> 31, geofences |-> 32, rate_cards |-> 33,
     surge_zones |-> 34, audit_logs |-> 35, schema_migrations |-> 36,
     onboarding_step_definitions |-> 37, driver_approval_cases |-> 38,
     driver_step_instances |-> 39, onboarding_evidence |-> 40,
     background_check_results |-> 41, driving_history_results |-> 42,
     insurance_policies |-> 43, policy_acknowledgements |-> 44,
     recheck_schedules |-> 45, approval_audit_events |-> 46,
     approval_reason_codes |-> 47, jurisdictional_requirements |-> 48,
     driver_complaints |-> 49, driver_appeals |-> 50]

Named == DOMAIN Rank

(* How many there are when the versions 1 .. v are applied. *)
Heights == <<2, 3, 6, 11, 16, 19, 23, 27, 30, 34, 36, 50>>
Height(v) == IF v = 0 THEN 0 ELSE Heights[v]

(* After k statements of the up script of v, and of its down script.       *)
(* Columns are the ninth statement up and the fifteenth down of 12.        *)
Raised(v, k) == Height(v - 1) + k - (IF v = 12 /\ k >= 9 THEN 1 ELSE 0)
Lowered(v, k) == Height(v) - k + (IF v = 12 /\ k >= 15 THEN 1 ELSE 0)

Statements ==
    [op : {"create", "addColumns", "drop", "dropIndexed", "dropColumns"},
     table : Named, names : SUBSET (Named \cup EligibilityColumns)]

(* The k-th statement of an up script creates the next table, which refers *)
(* to none after it.                                                       *)
Fits(s, v, k) ==
    IF v = 12 /\ k = 9
    THEN s = AddColumns("vehicles", EligibilityColumns)
    ELSE /\ s.op = "create"
         /\ s.table \in Named
         /\ Rank[s.table] = Raised(v, k)
         /\ \A t \in s.names : t \in Named /\ Rank[t] <= Raised(v, k)

(* The statements of the script are those of an up script after the first d. *)
Raises(script, v, d) ==
    \A k \in 1 .. Len(script) : Fits(script[k], v, d + k)

(* Each statement drops the last table there is. *)
Lowers(script, v) ==
    \A k \in 1 .. Len(script) :
        IF v = 12 /\ k = 15
        THEN script[k] = DropColumns("vehicles", EligibilityColumns)
        ELSE /\ script[k].op \in {"drop", "dropIndexed"}
             /\ script[k].table \in Named
             /\ Rank[script[k].table] = Lowered(v, k - 1)

(* A script that only creates tables, the first of them after n others. *)
Pushes(script, n) ==
    /\ script \in Seq(Statements)
    /\ \A k \in 1 .. Len(script) :
          /\ script[k].op = "create"
          /\ script[k].table \in Named
          /\ Rank[script[k].table] = n + k
          /\ \A t \in script[k].names : t \in Named /\ Rank[t] <= n + k

(* No two tables have the same place. *)
LEMMA PlacesDiffer ==
    ASSUME NEW t \in Named, NEW u \in Named, Rank[t] = Rank[u]
    PROVE  t = u
BY DEF Named, Rank

LEMMA PlaceType == \A t \in Named : Rank[t] \in 1 .. 50
BY DEF Named, Rank

LEMMA HeightsOf ==
    /\ Height(0) = 0
    /\ Height(1) = 2
    /\ Height(2) = 3
    /\ Height(3) = 6
    /\ Height(4) = 11
    /\ Height(5) = 16
    /\ Height(6) = 19
    /\ Height(7) = 23
    /\ Height(8) = 27
    /\ Height(9) = 30
    /\ Height(10) = 34
    /\ Height(11) = 36
    /\ Height(12) = 50
BY DEF Height, Heights

LEMMA HeightType == \A v \in 0 .. 12 : Height(v) \in 0 .. 50
BY DEF Height, Heights

LEMMA Joined ==
    ASSUME NEW s \in Seq(Statements), NEW t \in Seq(Statements), NEW v, NEW d \in Nat,
           NEW e \in Nat, e = d + Len(s), Raises(s, v, d), Raises(t, v, e)
    PROVE  /\ s \o t \in Seq(Statements)
           /\ Len(s \o t) = Len(s) + Len(t)
           /\ Raises(s \o t, v, d)
<1>1. s \o t \in Seq(Statements) /\ Len(s \o t) = Len(s) + Len(t)
    OBVIOUS
<1>2. ASSUME NEW k \in 1 .. Len(s)
      PROVE  (s \o t)[k] = s[k]
    BY <1>2
<1>3. ASSUME NEW k \in Len(s) + 1 .. Len(s) + Len(t)
      PROVE  (s \o t)[k] = t[k - Len(s)] /\ k - Len(s) \in 1 .. Len(t)
    BY <1>3
<1>4. ASSUME NEW k \in Len(s) + 1 .. Len(s) + Len(t)
      PROVE  e + (k - Len(s)) = d + k
    BY <1>4
<1>5. Len(s) \in Nat /\ Len(t) \in Nat
    OBVIOUS
<1>6. \A k \in 1 .. Len(s \o t) : k \in 1 .. Len(s) \/ k \in Len(s) + 1 .. Len(s) + Len(t)
    BY <1>1, <1>5
<1>7. Raises(s \o t, v, d)
    BY Zenon, <1>2, <1>3, <1>4, <1>6 DEF Raises
<1> QED BY <1>1, <1>7

LEMMA PushesRaise ==
    ASSUME NEW script, NEW v \in 1 .. 12, NEW d \in Nat, NEW n \in Nat, Pushes(script, n),
           Height(v - 1) + d = n + (IF v = 12 /\ d >= 9 THEN 1 ELSE 0),
           v = 12 => d >= 9 \/ d + Len(script) < 9
    PROVE  script \in Seq(Statements) /\ Raises(script, v, d)
<1> DEFINE h == Height(v - 1)
<1>1. h \in Nat /\ Len(script) \in Nat
    <2>1. v - 1 \in 0 .. 12
        OBVIOUS
    <2>2. h \in 0 .. 50
        BY Zenon, <2>1, HeightType
    <2>3. script \in Seq(Statements)
        BY Zenon DEF Pushes
    <2> HIDE DEF h
    <2> QED BY <2>2, <2>3
<1> HIDE DEF h
<1>2. ASSUME NEW k \in 1 .. Len(script)
      PROVE  /\ h + (d + k) - (IF v = 12 /\ d + k >= 9 THEN 1 ELSE 0) = n + k
             /\ ~(v = 12 /\ d + k = 9)
    <2> h + d = n + (IF v = 12 /\ d >= 9 THEN 1 ELSE 0)
        BY DEF h
    <2>1. CASE v = 12 /\ d >= 9
        BY <1>1, <2>1
    <2>2. CASE v = 12 /\ d + Len(script) < 9
        BY <1>1, <2>2
    <2>3. CASE v # 12
        BY <1>1, <2>3
    <2> QED BY <2>1, <2>2, <2>3
<1>3. ASSUME NEW k \in 1 .. Len(script)
      PROVE  Raised(v, d + k) = n + k /\ ~(v = 12 /\ d + k = 9)
    BY <1>2, <1>3 DEF Raised, h
<1> QED BY <1>3 DEF Pushes, Raises, Fits

LEMMA CreatesPush ==
    /\ Pushes(CreateUsers, 0) /\ Len(CreateUsers) = 2
    /\ Pushes(CreateVehicles, 2) /\ Len(CreateVehicles) = 1
    /\ Pushes(CreateCompliance, 3) /\ Len(CreateCompliance) = 3
    /\ Pushes(CreatePayments, 6) /\ Len(CreatePayments) = 5
    /\ Pushes(CreatePromotions, 11) /\ Len(CreatePromotions) = 5
    /\ Pushes(CreateRatings, 16) /\ Len(CreateRatings) = 3
    /\ Pushes(CreateSupport, 19) /\ Len(CreateSupport) = 4
    /\ Pushes(CreateFraud, 23) /\ Len(CreateFraud) = 4
    /\ Pushes(CreateNotifications, 27) /\ Len(CreateNotifications) = 3
    /\ Pushes(CreateGeoPricing, 30) /\ Len(CreateGeoPricing) = 4
    /\ Pushes(CreateAudit, 34) /\ Len(CreateAudit) = 2
    /\ Pushes(CreateCases, 36) /\ Len(CreateCases) = 3
    /\ Pushes(CreateEvidence, 39) /\ Len(CreateEvidence) = 3
    /\ Pushes(CreateAuditEvents, 45) /\ Len(CreateAuditEvents) = 3
    /\ Pushes(CreateAppeals, 48) /\ Len(CreateAppeals) = 2
<1>1. Pushes(CreateUsers, 0) /\ Len(CreateUsers) = 2
    BY DEF Pushes, Statements, Create, Named, Rank, CreateUsers
<1>2. Pushes(CreateVehicles, 2) /\ Len(CreateVehicles) = 1
    BY DEF Pushes, Statements, Create, Named, Rank, CreateVehicles
<1>3. Pushes(CreateCompliance, 3) /\ Len(CreateCompliance) = 3
    BY DEF Pushes, Statements, Create, Named, Rank, CreateCompliance
<1>4. Pushes(CreatePayments, 6) /\ Len(CreatePayments) = 5
    BY DEF Pushes, Statements, Create, Named, Rank, CreatePayments
<1>5. Pushes(CreatePromotions, 11) /\ Len(CreatePromotions) = 5
    BY DEF Pushes, Statements, Create, Named, Rank, CreatePromotions
<1>6. Pushes(CreateRatings, 16) /\ Len(CreateRatings) = 3
    BY DEF Pushes, Statements, Create, Named, Rank, CreateRatings
<1>7. Pushes(CreateSupport, 19) /\ Len(CreateSupport) = 4
    BY DEF Pushes, Statements, Create, Named, Rank, CreateSupport
<1>8. Pushes(CreateFraud, 23) /\ Len(CreateFraud) = 4
    BY DEF Pushes, Statements, Create, Named, Rank, CreateFraud
<1>9. Pushes(CreateNotifications, 27) /\ Len(CreateNotifications) = 3
    BY DEF Pushes, Statements, Create, Named, Rank, CreateNotifications
<1>10. Pushes(CreateGeoPricing, 30) /\ Len(CreateGeoPricing) = 4
    BY DEF Pushes, Statements, Create, Named, Rank, CreateGeoPricing
<1>11. Pushes(CreateAudit, 34) /\ Len(CreateAudit) = 2
    BY DEF Pushes, Statements, Create, Named, Rank, CreateAudit
<1>12. Pushes(CreateCases, 36) /\ Len(CreateCases) = 3
    BY DEF Pushes, Statements, Create, Named, Rank, CreateCases
<1>13. Pushes(CreateEvidence, 39) /\ Len(CreateEvidence) = 3
    BY DEF Pushes, Statements, Create, Named, Rank, CreateEvidence
<1>14. Pushes(CreateAuditEvents, 45) /\ Len(CreateAuditEvents) = 3
    BY DEF Pushes, Statements, Create, Named, Rank, CreateAuditEvents
<1>15. Pushes(CreateAppeals, 48) /\ Len(CreateAppeals) = 2
    BY DEF Pushes, Statements, Create, Named, Rank, CreateAppeals
<1> QED BY <1>1, <1>2, <1>3, <1>4, <1>5, <1>6, <1>7, <1>8, <1>9, <1>10, <1>11, <1>12, <1>13, <1>14, <1>15

LEMMA PoliciesRaise ==
    /\ CreatePolicies \in Seq(Statements)
    /\ Len(CreatePolicies) = 4
    /\ Raises(CreatePolicies, 12, 6)
<1>1. CreatePolicies \in Seq(Statements) /\ Len(CreatePolicies) = 4
    BY DEF CreatePolicies, Statements, Create, AddColumns, Named, Rank
<1>2. Raised(12, 7) = 43 /\ Raised(12, 8) = 44 /\ Raised(12, 10) = 45
    BY HeightsOf DEF Raised
<1>3. CreatePolicies[3] = AddColumns("vehicles", EligibilityColumns)
    BY DEF CreatePolicies
<1>4. ASSUME NEW k \in {1, 2, 4}
      PROVE  /\ CreatePolicies[k].op = "create"
             /\ CreatePolicies[k].table \in Named
             /\ Rank[CreatePolicies[k].table] = Raised(12, 6 + k)
             /\ \A t \in CreatePolicies[k].names :
                   t \in Named /\ Rank[t] <= Raised(12, 6 + k)
    BY <1>2, <1>4 DEF CreatePolicies, Create, Named, Rank
<1>5. \A k \in 1 .. 4 : (12 = 12 /\ 6 + k = 9) <=> k = 3
    OBVIOUS
<1> QED BY <1>1, <1>3, <1>4, <1>5 DEF Raises, Fits

(* Version 12, put together. *)
LEMMA WorkflowRaises ==
    /\ CreateApprovalWorkflow \in Seq(Statements)
    /\ Len(CreateApprovalWorkflow) = 15
    /\ Raises(CreateApprovalWorkflow, 12, 0)
<1> DEFINE Good(s, d) == s \in Seq(Statements) /\ Raises(s, 12, d)
           One == CreateCases \o CreateEvidence
           Two == One \o CreatePolicies
           Three == Two \o CreateAuditEvents
<1>1. Height(12 - 1) = 36
    BY HeightsOf
<1>2. ASSUME NEW s, NEW d \in {0, 3}, Pushes(s, 36 + d), Len(s) = 3
      PROVE  Good(s, d)
    <2>1. Height(12 - 1) + d = (36 + d) + (IF 12 = 12 /\ d >= 9 THEN 1 ELSE 0)
        BY <1>1
    <2>2. 12 = 12 => d >= 9 \/ d + Len(s) < 9
        BY <1>2
    <2>3. 36 + d \in Nat /\ d \in Nat /\ 12 \in 1 .. 12
        OBVIOUS
    <2> HIDE DEF Good
    <2> QED BY <1>2, <2>1, <2>2, <2>3, PushesRaise DEF Good
<1>3. ASSUME NEW s, NEW d \in {10, 13}, Pushes(s, 35 + d)
      PROVE  Good(s, d)
    <2>1. Height(12 - 1) + d = (35 + d) + (IF 12 = 12 /\ d >= 9 THEN 1 ELSE 0)
        BY <1>1
    <2>2. 12 = 12 => d >= 9 \/ d + Len(s) < 9
        OBVIOUS
    <2>3. 35 + d \in Nat /\ d \in Nat /\ 12 \in 1 .. 12
        OBVIOUS
    <2> QED BY <1>3, <2>1, <2>2, <2>3, PushesRaise
<1>4. /\ Good(CreateCases, 0) /\ Good(CreateEvidence, 3)
      /\ Good(CreateAuditEvents, 10) /\ Good(CreateAppeals, 13)
    BY <1>2, <1>3, CreatesPush
<1>j. ASSUME NEW s, NEW t, NEW e \in Nat, Good(s, 0), Good(t, e), e = Len(s)
      PROVE  Good(s \o t, 0) /\ Len(s \o t) = e + Len(t)
    <2>1. e = 0 + Len(s) /\ s \in Seq(Statements) /\ t \in Seq(Statements)
        BY <1>j
    <2>2. Raises(s, 12, 0) /\ Raises(t, 12, e)
        BY <1>j
    <2> QED BY <1>j, <2>1, <2>2, Joined
<1> HIDE DEF Good
<1>5. Good(One, 0) /\ Len(One) = 6
    <2>1. 3 \in Nat /\ 3 = Len(CreateCases) /\ Len(CreateEvidence) = 3
        BY CreatesPush
    <2>2. Good(CreateCases, 0) /\ Good(CreateEvidence, 3)
        BY <1>4
    <2>3. Good(One, 0) /\ Len(One) = 3 + Len(CreateEvidence)
        BY Zenon, <1>j, <2>1, <2>2
    <2> QED BY <2>1, <2>3
<1> HIDE DEF One
<1>6. Good(Two, 0) /\ Len(Two) = 10
    <2>1. 6 \in Nat /\ 6 = Len(One) /\ Len(CreatePolicies) = 4
        BY <1>5, PoliciesRaise
    <2>2. Good(One, 0) /\ Good(CreatePolicies, 6)
        BY <1>4, <1>5, PoliciesRaise DEF Good
    <2>3. Good(Two, 0) /\ Len(Two) = 6 + Len(CreatePolicies)
        BY Zenon, <1>j, <2>1, <2>2
    <2> QED BY <2>1, <2>3
<1> HIDE DEF Two
<1>7. Good(Three, 0) /\ Len(Three) = 13
    <2>1. 10 \in Nat /\ 10 = Len(Two) /\ Len(CreateAuditEvents) = 3
        BY <1>6, CreatesPush
    <2>2. Good(Two, 0) /\ Good(CreateAuditEvents, 10)
        BY <1>4, <1>6
    <2>3. Good(Three, 0) /\ Len(Three) = 10 + Len(CreateAuditEvents)
        BY Zenon, <1>j, <2>1, <2>2
    <2> QED BY <2>1, <2>3
<1> HIDE DEF Three
<1>8. Good(Three \o CreateAppeals, 0) /\ Len(Three \o CreateAppeals) = 15
    <2>1. 13 \in Nat /\ 13 = Len(Three) /\ Len(CreateAppeals) = 2
        BY <1>7, CreatesPush
    <2>2. Good(Three, 0) /\ Good(CreateAppeals, 13)
        BY <1>4, <1>7
    <2>3. /\ Good(Three \o CreateAppeals, 0)
          /\ Len(Three \o CreateAppeals) = 13 + Len(CreateAppeals)
        BY Zenon, <1>j, <2>1, <2>2
    <2> QED BY <2>1, <2>3
<1>9. CreateApprovalWorkflow = Three \o CreateAppeals
    BY DEF CreateApprovalWorkflow, Three, Two, One
<1> QED BY <1>8, <1>9 DEF Good

LEMMA UpScriptsRaise ==
    \A v \in 1 .. 12 :
        /\ UpScript[v] \in Seq(Statements)
        /\ Raised(v, Len(UpScript[v])) = Height(v)
        /\ Raises(UpScript[v], v, 0)
<1>1. ASSUME NEW v \in 1 .. 11
      PROVE  /\ Pushes(UpScript[v], Height(v - 1))
             /\ Len(UpScript[v]) = Height(v) - Height(v - 1)
    <2>1. CASE v = 1
        <3>1. UpScript[1] = CreateUsers /\ Height(1 - 1) = 0 /\ Height(1) = 2
            BY HeightsOf DEF UpScript
        <3> QED BY <2>1, <3>1, CreatesPush
    <2>2. CASE v = 2
        <3>1. UpScript[2] = CreateVehicles /\ Height(2 - 1) = 2 /\ Height(2) = 3
            BY HeightsOf DEF UpScript
        <3> QED BY <2>2, <3>1, CreatesPush
    <2>3. CASE v = 3
        <3>1. UpScript[3] = CreateCompliance /\ Height(3 - 1) = 3 /\ Height(3) = 6
            BY HeightsOf DEF UpScript
        <3> QED BY <2>3, <3>1, CreatesPush
    <2>4. CASE v = 4
        <3>1. UpScript[4] = CreatePayments /\ Height(4 - 1) = 6 /\ Height(4) = 11
            BY HeightsOf DEF UpScript
        <3> QED BY <2>4, <3>1, CreatesPush
    <2>5. CASE v = 5
        <3>1. UpScript[5] = CreatePromotions /\ Height(5 - 1) = 11 /\ Height(5) = 16
            BY HeightsOf DEF UpScript
        <3> QED BY <2>5, <3>1, CreatesPush
    <2>6. CASE v = 6
        <3>1. UpScript[6] = CreateRatings /\ Height(6 - 1) = 16 /\ Height(6) = 19
            BY HeightsOf DEF UpScript
        <3> QED BY <2>6, <3>1, CreatesPush
    <2>7. CASE v = 7
        <3>1. UpScript[7] = CreateSupport /\ Height(7 - 1) = 19 /\ Height(7) = 23
            BY HeightsOf DEF UpScript
        <3> QED BY <2>7, <3>1, CreatesPush
    <2>8. CASE v = 8
        <3>1. UpScript[8] = CreateFraud /\ Height(8 - 1) = 23 /\ Height(8) = 27
            BY HeightsOf DEF UpScript
        <3> QED BY <2>8, <3>1, CreatesPush
    <2>9. CASE v = 9
        <3>1. UpScript[9] = CreateNotifications /\ Height(9 - 1) = 27 /\ Height(9) = 30
            BY HeightsOf DEF UpScript
        <3> QED BY <2>9, <3>1, CreatesPush
    <2>10. CASE v = 10
        <3>1. UpScript[10] = CreateGeoPricing /\ Height(10 - 1) = 30 /\ Height(10) = 34
            BY HeightsOf DEF UpScript
        <3> QED BY <2>10, <3>1, CreatesPush
    <2>11. CASE v = 11
        <3>1. UpScript[11] = CreateAudit /\ Height(11 - 1) = 34 /\ Height(11) = 36
            BY HeightsOf DEF UpScript
        <3> QED BY <2>11, <3>1, CreatesPush
    <2> QED BY <2>1, <2>2, <2>3, <2>4, <2>5, <2>6, <2>7, <2>8, <2>9, <2>10, <2>11
<1>2. ASSUME NEW v \in 1 .. 11
      PROVE  /\ UpScript[v] \in Seq(Statements)
             /\ Raised(v, Len(UpScript[v])) = Height(v)
             /\ Raises(UpScript[v], v, 0)
    <2> DEFINE h == Height(v - 1)
               g == Height(v)
               u == UpScript[v]
    <2>1. v - 1 \in 0 .. 12 /\ v \in 0 .. 12 /\ v \in 1 .. 12
        OBVIOUS
    <2>2. h \in 0 .. 50 /\ g \in 0 .. 50
        BY Zenon, <2>1, HeightType
    <2>3. Pushes(u, h) /\ Len(u) = g - h
        BY Zenon, <1>1
    <2> HIDE DEF h, g
    <2>4. h + (g - h) - (IF v = 12 /\ g - h >= 9 THEN 1 ELSE 0) = g
        BY <2>2
    <2>5. /\ h \in Nat /\ 0 \in Nat
          /\ h + 0 = h + (IF v = 12 /\ 0 >= 9 THEN 1 ELSE 0)
          /\ v = 12 => 0 >= 9 \/ 0 + Len(u) < 9
        BY <2>2
    <2>6. u \in Seq(Statements) /\ Raises(u, v, 0)
        BY Zenon, <2>1, <2>3, <2>5, PushesRaise DEF h
    <2> QED BY Zenon, <2>3, <2>4, <2>6 DEF Raised, h, g
<1>3. /\ UpScript[12] \in Seq(Statements)
      /\ Raised(12, Len(UpScript[12])) = Height(12)
      /\ Raises(UpScript[12], 12, 0)
    <2>1. UpScript[12] = CreateApprovalWorkflow
        BY DEF UpScript
    <2>2. Raised(12, 15) = 50 /\ Height(12) = 50
        BY HeightsOf DEF Raised
    <2> QED BY <2>1, <2>2, WorkflowRaises
<1>4. \A v \in 1 .. 12 : v \in 1 .. 11 \/ v = 12
    OBVIOUS
<1> QED BY Zenon, <1>2, <1>3, <1>4

(* A script that drops the last of n tables, then the last of those left. *)
Pops(script, n) ==
    /\ script \in Seq(Statements)
    /\ \A k \in 1 .. Len(script) :
          /\ script[k].op \in {"drop", "dropIndexed"}
          /\ script[k].table \in Named
          /\ Rank[script[k].table] = n - (k - 1)

LEMMA DropsPop ==
    /\ Pops(DropUsers, 2) /\ Len(DropUsers) = 2
    /\ Pops(DropVehicles, 3) /\ Len(DropVehicles) = 1
    /\ Pops(DropCompliance, 6) /\ Len(DropCompliance) = 3
    /\ Pops(DropPayments, 11) /\ Len(DropPayments) = 5
    /\ Pops(DropPromotions, 16) /\ Len(DropPromotions) = 5
    /\ Pops(DropRatings, 19) /\ Len(DropRatings) = 3
    /\ Pops(DropSupport, 23) /\ Len(DropSupport) = 4
    /\ Pops(DropFraud, 27) /\ Len(DropFraud) = 4
    /\ Pops(DropNotifications, 30) /\ Len(DropNotifications) = 3
    /\ Pops(DropGeoPricing, 34) /\ Len(DropGeoPricing) = 4
    /\ Pops(DropAudit, 36) /\ Len(DropAudit) = 2
<1>1. Pops(DropUsers, 2) /\ Len(DropUsers) = 2
    BY DEF Pops, Statements, Drop, DropIndexed, Named, Rank, DropUsers
<1>2. Pops(DropVehicles, 3) /\ Len(DropVehicles) = 1
    BY DEF Pops, Statements, Drop, DropIndexed, Named, Rank, DropVehicles
<1>3. Pops(DropCompliance, 6) /\ Len(DropCompliance) = 3
    BY DEF Pops, Statements, Drop, DropIndexed, Named, Rank, DropCompliance
<1>4. Pops(DropPayments, 11) /\ Len(DropPayments) = 5
    BY DEF Pops, Statements, Drop, DropIndexed, Named, Rank, DropPayments
<1>5. Pops(DropPromotions, 16) /\ Len(DropPromotions) = 5
    BY DEF Pops, Statements, Drop, DropIndexed, Named, Rank, DropPromotions
<1>6. Pops(DropRatings, 19) /\ Len(DropRatings) = 3
    BY DEF Pops, Statements, Drop, DropIndexed, Named, Rank, DropRatings
<1>7. Pops(DropSupport, 23) /\ Len(DropSupport) = 4
    BY DEF Pops, Statements, Drop, DropIndexed, Named, Rank, DropSupport
<1>8. Pops(DropFraud, 27) /\ Len(DropFraud) = 4
    BY DEF Pops, Statements, Drop, DropIndexed, Named, Rank, DropFraud
<1>9. Pops(DropNotifications, 30) /\ Len(DropNotifications) = 3
    BY DEF Pops, Statements, Drop, DropIndexed, Named, Rank, DropNotifications
<1>10. Pops(DropGeoPricing, 34) /\ Len(DropGeoPricing) = 4
    BY DEF Pops, Statements, Drop, DropIndexed, Named, Rank, DropGeoPricing
<1>11. Pops(DropAudit, 36) /\ Len(DropAudit) = 2
    BY DEF Pops, Statements, Drop, DropIndexed, Named, Rank, DropAudit
<1> QED BY <1>1, <1>2, <1>3, <1>4, <1>5, <1>6, <1>7, <1>8, <1>9, <1>10, <1>11

LEMMA WorkflowLowers ==
    /\ DropApprovalWorkflow \in Seq(Statements)
    /\ Len(DropApprovalWorkflow) = 15
    /\ Lowers(DropApprovalWorkflow, 12)
<1>1. DropApprovalWorkflow \in Seq(Statements) /\ Len(DropApprovalWorkflow) = 15
    BY DEF DropApprovalWorkflow, Statements, Drop, DropColumns, Named, Rank
<1>2. DropApprovalWorkflow[15] = DropColumns("vehicles", EligibilityColumns)
    BY DEF DropApprovalWorkflow
<1>3. ASSUME NEW k \in 1 .. 14
      PROVE  /\ DropApprovalWorkflow[k].op = "drop"
             /\ DropApprovalWorkflow[k].table \in Named
             /\ Rank[DropApprovalWorkflow[k].table] = 51 - k
    BY DEF DropApprovalWorkflow, Drop, Named, Rank
<1>4. ASSUME NEW k \in 1 .. 14
      PROVE  Lowered(12, k - 1) = 51 - k
    BY HeightsOf DEF Lowered
<1>5. \A k \in 1 .. 15 : ~(12 = 12 /\ k = 15) => k \in 1 .. 14
    OBVIOUS
<1>6. \A k \in 1 .. 14 : DropApprovalWorkflow[k].op \in {"drop", "dropIndexed"}
    BY <1>3
<1>7. ASSUME NEW k \in 1 .. 15
      PROVE  IF 12 = 12 /\ k = 15
             THEN DropApprovalWorkflow[k] = DropColumns("vehicles", EligibilityColumns)
             ELSE /\ DropApprovalWorkflow[k].op \in {"drop", "dropIndexed"}
                  /\ DropApprovalWorkflow[k].table \in Named
                  /\ Rank[DropApprovalWorkflow[k].table] = Lowered(12, k - 1)
    BY Zenon, <1>2, <1>3, <1>4, <1>5, <1>6
<1>8. Lowers(DropApprovalWorkflow, 12)
    BY Zenon, <1>1, <1>7 DEF Lowers
<1> QED BY Zenon, <1>1, <1>8

LEMMA DownScriptsLower ==
    \A v \in 1 .. 12 :
        /\ DownScript[v] \in Seq(Statements)
        /\ Lowered(v, Len(DownScript[v])) = Height(v - 1)
        /\ Lowers(DownScript[v], v)
<1>1. ASSUME NEW v \in 1 .. 11
      PROVE  /\ Pops(DownScript[v], Height(v))
             /\ Len(DownScript[v]) = Height(v) - Height(v - 1)
    <2>1. CASE v = 1
        <3>1. DownScript[1] = DropUsers /\ Height(1 - 1) = 0 /\ Height(1) = 2
            BY HeightsOf DEF DownScript
        <3> QED BY <2>1, <3>1, DropsPop
    <2>2. CASE v = 2
        <3>1. DownScript[2] = DropVehicles /\ Height(2 - 1) = 2 /\ Height(2) = 3
            BY HeightsOf DEF DownScript
        <3> QED BY <2>2, <3>1, DropsPop
    <2>3. CASE v = 3
        <3>1. DownScript[3] = DropCompliance /\ Height(3 - 1) = 3 /\ Height(3) = 6
            BY HeightsOf DEF DownScript
        <3> QED BY <2>3, <3>1, DropsPop
    <2>4. CASE v = 4
        <3>1. DownScript[4] = DropPayments /\ Height(4 - 1) = 6 /\ Height(4) = 11
            BY HeightsOf DEF DownScript
        <3> QED BY <2>4, <3>1, DropsPop
    <2>5. CASE v = 5
        <3>1. DownScript[5] = DropPromotions /\ Height(5 - 1) = 11 /\ Height(5) = 16
            BY HeightsOf DEF DownScript
        <3> QED BY <2>5, <3>1, DropsPop
    <2>6. CASE v = 6
        <3>1. DownScript[6] = DropRatings /\ Height(6 - 1) = 16 /\ Height(6) = 19
            BY HeightsOf DEF DownScript
        <3> QED BY <2>6, <3>1, DropsPop
    <2>7. CASE v = 7
        <3>1. DownScript[7] = DropSupport /\ Height(7 - 1) = 19 /\ Height(7) = 23
            BY HeightsOf DEF DownScript
        <3> QED BY <2>7, <3>1, DropsPop
    <2>8. CASE v = 8
        <3>1. DownScript[8] = DropFraud /\ Height(8 - 1) = 23 /\ Height(8) = 27
            BY HeightsOf DEF DownScript
        <3> QED BY <2>8, <3>1, DropsPop
    <2>9. CASE v = 9
        <3>1. DownScript[9] = DropNotifications /\ Height(9 - 1) = 27 /\ Height(9) = 30
            BY HeightsOf DEF DownScript
        <3> QED BY <2>9, <3>1, DropsPop
    <2>10. CASE v = 10
        <3>1. DownScript[10] = DropGeoPricing /\ Height(10 - 1) = 30 /\ Height(10) = 34
            BY HeightsOf DEF DownScript
        <3> QED BY <2>10, <3>1, DropsPop
    <2>11. CASE v = 11
        <3>1. DownScript[11] = DropAudit /\ Height(11 - 1) = 34 /\ Height(11) = 36
            BY HeightsOf DEF DownScript
        <3> QED BY <2>11, <3>1, DropsPop
    <2> QED BY <2>1, <2>2, <2>3, <2>4, <2>5, <2>6, <2>7, <2>8, <2>9, <2>10, <2>11
<1>2. ASSUME NEW v \in 1 .. 11
      PROVE  /\ DownScript[v] \in Seq(Statements)
             /\ Lowered(v, Len(DownScript[v])) = Height(v - 1)
             /\ Lowers(DownScript[v], v)
    <2> DEFINE h == Height(v - 1)
               g == Height(v)
               d == DownScript[v]
    <2>1. v - 1 \in 0 .. 12 /\ v \in 0 .. 12
        OBVIOUS
    <2>2. h \in 0 .. 50 /\ g \in 0 .. 50
        BY Zenon, <2>1, HeightType
    <2>3. Pops(d, g) /\ Len(d) = g - h
        BY Zenon, <1>1
    <2> HIDE DEF h, g, d
    <2>4. \A k \in Nat : g - k + (IF v = 12 /\ k >= 15 THEN 1 ELSE 0) = g - k
        BY <2>2
    <2>5. \A k \in Nat : Lowered(v, k) = g - k
        BY Zenon, <2>4 DEF Lowered, g
    <2>6. d \in Seq(Statements) /\ Lowered(v, g - h) = h
        BY <2>2, <2>3, <2>5 DEF Pops
    <2>7. ASSUME NEW k \in 1 .. Len(d)
          PROVE  k - 1 \in Nat /\ ~(v = 12 /\ k = 15)
        OBVIOUS
    <2>8. Lowers(d, v)
        BY Zenon, <2>3, <2>5, <2>7 DEF Lowers, Pops
    <2> QED BY Zenon, <2>3, <2>6, <2>8 DEF h, d
<1>3. /\ DownScript[12] \in Seq(Statements)
      /\ Lowered(12, Len(DownScript[12])) = Height(12 - 1)
      /\ Lowers(DownScript[12], 12)
    <2>1. DownScript[12] = DropApprovalWorkflow
        BY DEF DownScript
    <2>2. Lowered(12, 15) = 36 /\ Height(12 - 1) = 36
        BY HeightsOf DEF Lowered
    <2> QED BY <2>1, <2>2, WorkflowLowers
<1>4. \A v \in 1 .. 12 : v \in 1 .. 11 \/ v = 12
    OBVIOUS
<1> QED BY Zenon, <1>2, <1>3, <1>4

(* The tables of the first n places. *)
Stack(n) == {t \in Named : Rank[t] <= n}

(* No table refers to one created after it. *)
Ordered(pairs) ==
    \A t, u \in Named : <<t, u>> \in pairs => Rank[u] <= Rank[t]

Added(yes) == IF yes THEN {"vehicles"} \X EligibilityColumns ELSE {}

Script == IF running = "up" THEN UpScript[applied + 1] ELSE DownScript[applied]
Done == Len(Script) - Len(rest)

(* How many tables there are, and whether the columns are. *)
Reached ==
    IF running = "up" THEN Raised(applied + 1, Done)
    ELSE IF running = "down" THEN Lowered(applied, Done) ELSE Height(applied)
Widened ==
    IF running = "up" THEN applied + 1 = 12 /\ Done >= 9
    ELSE IF running = "down" THEN applied = 12 /\ Done < 15 ELSE applied = 12

(* Scripts that go up end where the next ones begin, and those that go     *)
(* down drop the tables in the opposite order: the tables that exist are   *)
(* always the first ones.                                                  *)
ScriptsInv ==
    /\ transact \in BOOLEAN
    /\ applied \in 0 .. 12
    /\ running \in {"none", "up", "down"}
    /\ running = "none" => rest = <<>>
    /\ running = "up" => applied < 12
    /\ running = "down" => applied > 0
    /\ running # "none" =>
          /\ rest \in Seq(Statements)
          /\ Len(rest) <= Len(Script)
          /\ \A i \in 1 .. Len(rest) : rest[i] = Script[Done + i]
          /\ saved.tables = Stack(Height(applied))
          /\ saved.columns = Added(applied = 12)
    /\ tables = Stack(Reached)
    /\ columns = Added(Widened)
    /\ Ordered(refs)
    /\ Ordered(saved.refs)
    /\ ScriptsRun

(* What the k-th statement s of a script does to n tables. *)
Creates(s, v, k, n) ==
    \/ /\ v = 12 /\ k = 9
       /\ s = AddColumns("vehicles", EligibilityColumns)
       /\ n = 44 /\ Raised(v, k) = n
    \/ /\ ~(v = 12 /\ k = 9)
       /\ s.op = "create"
       /\ s.table \in Named /\ Rank[s.table] = n + 1
       /\ \A t \in s.names : t \in Named /\ Rank[t] <= n + 1
       /\ Raised(v, k) = n + 1

Drops(s, v, k, n) ==
    \/ /\ v = 12 /\ k = 15
       /\ s = DropColumns("vehicles", EligibilityColumns)
       /\ n = 36 /\ Lowered(v, k) = n
    \/ /\ ~(v = 12 /\ k = 15)
       /\ v = 12 => k < 15 /\ n >= 37
       /\ s.op \in {"drop", "dropIndexed"}
       /\ s.table \in Named /\ Rank[s.table] = n
       /\ Lowered(v, k) = n - 1

LEMMA NextCreates ==
    ASSUME NEW v \in 1 .. 12, NEW k \in 1 .. Len(UpScript[v]),
           NEW n, n = Raised(v, k - 1), NEW s, s = UpScript[v][k]
    PROVE  n \in Nat /\ Creates(s, v, k, n)
<1> DEFINE h == Height(v - 1)
<1>1. h \in 0 .. 50
    <2>1. v - 1 \in 0 .. 12
        OBVIOUS
    <2> QED BY Zenon, <2>1, HeightType
<1>2. v = 12 => h = 36
    BY HeightsOf
<1>3. /\ UpScript[v] \in Seq(Statements)
      /\ Raises(UpScript[v], v, 0)
    BY Zenon, UpScriptsRaise
<1>4. k \in Nat \ {0}
    OBVIOUS
<1>5. IF v = 12 /\ k = 9
      THEN s = AddColumns("vehicles", EligibilityColumns)
      ELSE /\ s.op = "create"
           /\ s.table \in Named
           /\ Rank[s.table] = Raised(v, k)
           /\ \A t \in s.names : t \in Named /\ Rank[t] <= Raised(v, k)
    <2>1. 0 + k = k
        OBVIOUS
    <2> QED BY Zenon, <1>3, <2>1 DEF Raises, Fits
<1> HIDE DEF h
<1>6. /\ n = h + (k - 1) - (IF v = 12 /\ k - 1 >= 9 THEN 1 ELSE 0)
      /\ Raised(v, k) = h + k - (IF v = 12 /\ k >= 9 THEN 1 ELSE 0)
    BY Zenon DEF Raised, h
<1>7. n \in Nat
    BY <1>1, <1>4, <1>6
<1>8. CASE v = 12 /\ k = 9
    <2>1. n = 44 /\ Raised(v, k) = 44
        BY <1>2, <1>6, <1>8
    <2> QED BY Zenon, <1>5, <1>7, <1>8, <2>1 DEF Creates
<1>9. CASE ~(v = 12 /\ k = 9)
    <2>1. Raised(v, k) = n + 1
        BY <1>1, <1>4, <1>6, <1>9
    <2> QED BY Zenon, <1>5, <1>7, <1>9, <2>1 DEF Creates
<1> QED BY <1>8, <1>9

(* The same for a down script. *)
LEMMA NextDrops ==
    ASSUME NEW v \in 1 .. 12, NEW k \in 1 .. Len(DownScript[v]),
           NEW n, n = Lowered(v, k - 1), NEW s, s = DownScript[v][k]
    PROVE  n \in Int /\ Drops(s, v, k, n)
<1> DEFINE h == Height(v)
<1>1. h \in 0 .. 50
    <2>1. v \in 0 .. 12
        OBVIOUS
    <2> QED BY Zenon, <2>1, HeightType
<1>2. v = 12 => h = 50
    BY HeightsOf
<1>3. /\ DownScript[v] \in Seq(Statements)
      /\ Lowers(DownScript[v], v)
    BY Zenon, DownScriptsLower
<1>4. k \in Nat \ {0}
    OBVIOUS
<1>5. v = 12 => k <= 15
    <2>1. Len(DownScript[12]) = 15
        BY WorkflowLowers DEF DownScript
    <2>2. v = 12 => Len(DownScript[v]) = 15
        BY Zenon, <2>1
    <2> QED BY <2>2
<1>6. IF v = 12 /\ k = 15
      THEN s = DropColumns("vehicles", EligibilityColumns)
      ELSE /\ s.op \in {"drop", "dropIndexed"}
           /\ s.table \in Named
           /\ Rank[s.table] = n
    BY Zenon, <1>3 DEF Lowers
<1> HIDE DEF h
<1>7. /\ n = h - (k - 1) + (IF v = 12 /\ k - 1 >= 15 THEN 1 ELSE 0)
      /\ Lowered(v, k) = h - k + (IF v = 12 /\ k >= 15 THEN 1 ELSE 0)
    BY Zenon DEF Lowered, h
<1>8. n \in Int
    BY <1>1, <1>4, <1>7
<1>9. CASE v = 12 /\ k = 15
    <2>1. n = 36 /\ Lowered(v, k) = 36
        BY <1>2, <1>7, <1>9
    <2> QED BY Zenon, <1>6, <1>8, <1>9, <2>1 DEF Drops
<1>10. CASE ~(v = 12 /\ k = 15)
    <2>1. Lowered(v, k) = n - 1 /\ (v = 12 => k < 15 /\ n >= 37)
        BY <1>1, <1>2, <1>4, <1>5, <1>7, <1>10
    <2> QED BY Zenon, <1>6, <1>8, <1>10, <2>1 DEF Drops
<1> QED BY <1>9, <1>10

(* Where the next statement is in its script. *)
LEMMA Position ==
    ASSUME ScriptsInv, running # "none"
    PROVE  /\ Script \in Seq(Statements)
           /\ running = "up" => Script = UpScript[applied + 1] /\ applied + 1 \in 1 .. 12
           /\ running = "down" => Script = DownScript[applied] /\ applied \in 1 .. 12
           /\ Done \in Nat
           /\ rest # <<>> =>
                 /\ Done + 1 \in 1 .. Len(Script)
                 /\ Head(rest) = Script[Done + 1]
                 /\ Tail(rest) \in Seq(Statements)
                 /\ Len(Tail(rest)) <= Len(Script)
                 /\ Len(Script) - Len(Tail(rest)) = Done + 1
                 /\ \A i \in 1 .. Len(Tail(rest)) : Tail(rest)[i] = Script[(Done + 1) + i]
<1>1. running = "up" => Script = UpScript[applied + 1] /\ applied + 1 \in 1 .. 12
    BY DEF ScriptsInv, Script
<1>2. running = "down" => Script = DownScript[applied] /\ applied \in 1 .. 12
    BY DEF ScriptsInv, Script
<1>3. Script \in Seq(Statements)
    BY Zenon, <1>1, <1>2, UpScriptsRaise, DownScriptsLower DEF ScriptsInv
<1>4. /\ rest \in Seq(Statements)
      /\ Len(rest) <= Len(Script)
      /\ \A i \in 1 .. Len(rest) : rest[i] = Script[Done + i]
    BY Zenon DEF ScriptsInv
<1>5. Done \in Nat
    BY <1>3, <1>4 DEF Done
<1>6. ASSUME rest # <<>>
      PROVE  /\ Done + 1 \in 1 .. Len(Script)
             /\ Head(rest) = Script[Done + 1]
             /\ Tail(rest) \in Seq(Statements)
             /\ Len(Tail(rest)) <= Len(Script)
             /\ Len(Script) - Len(Tail(rest)) = Done + 1
             /\ \A i \in 1 .. Len(Tail(rest)) : Tail(rest)[i] = Script[(Done + 1) + i]
    <2>1. /\ Len(rest) \in Nat \ {0} /\ Len(Script) \in Nat
          /\ Tail(rest) \in Seq(Statements) /\ Len(Tail(rest)) = Len(rest) - 1
          /\ Head(rest) = rest[1]
          /\ \A i \in 1 .. Len(Tail(rest)) : Tail(rest)[i] = rest[i + 1]
        BY <1>3, <1>4, <1>6
    <2>2. Done = Len(Script) - Len(rest)
        BY DEF Done
    <2>3. Done + 1 \in 1 .. Len(Script) /\ Len(Script) - Len(Tail(rest)) = Done + 1
        BY <1>4, <2>1, <2>2
    <2>4. ASSUME NEW i \in 1 .. Len(Tail(rest))
          PROVE  i + 1 \in 1 .. Len(rest) /\ Done + (i + 1) = (Done + 1) + i
        BY <1>5, <2>1
    <2>5. 1 \in 1 .. Len(rest)
        BY <2>1
    <2> QED BY <1>4, <2>1, <2>3, <2>4, <2>5
<1> QED BY <1>1, <1>2, <1>3, <1>5, <1>6

(* The rules of the database, by kind of statement. *)
LEMMA CreateRules ==
    ASSUME NEW s, s.op = "create"
    PROVE  /\ s.table \notin tables /\ s.names \subseteq tables \cup {s.table}
                 => Succeeds(s)
           /\ Effect(s) => /\ tables' = tables \cup {s.table}
                           /\ refs' = refs \cup ({s.table} \X s.names)
                           /\ columns' = columns
BY DEF Succeeds, Effect

LEMMA AddRules ==
    ASSUME NEW s, s.op = "addColumns"
    PROVE  /\ s.table \in tables /\ columns = {} => Succeeds(s)
           /\ Effect(s) => /\ tables' = tables
                           /\ refs' = refs
                           /\ columns' = columns \cup ({s.table} \X s.names)
BY DEF Succeeds, Effect

Removes(s) == s.op \in {"drop", "dropIndexed"}

LEMMA DropRules ==
    ASSUME NEW s, Removes(s)
    PROVE  /\ (\A t \in tables \ {s.table} : <<t, s.table>> \notin refs) /\ ~transact
                 => Succeeds(s)
           /\ Effect(s) => /\ tables' = tables \ {s.table}
                           /\ refs' = {r \in refs : r[1] # s.table}
                           /\ columns' = {c \in columns : c[1] # s.table}
BY DEF Succeeds, Effect, Removes

LEMMA DropColumnsRules ==
    ASSUME NEW s, s.op = "dropColumns"
    PROVE  /\ s.table \in tables /\ ~transact => Succeeds(s)
           /\ Effect(s) => /\ tables' = tables
                           /\ refs' = refs
                           /\ columns' = columns \ ({s.table} \X s.names)
BY DEF Succeeds, Effect

LEMMA VehiclesThere == "vehicles" \in Named /\ Rank["vehicles"] = 3
BY DEF Named, Rank

(* Statements of an up script succeed, and put the next table on top. *)
LEMMA UpStatement ==
    ASSUME ScriptsInv, running = "up", rest # <<>>
    PROVE  /\ Succeeds(Head(rest))
           /\ Effect(Head(rest)) =>
                 /\ tables' = Stack(Raised(applied + 1, Done + 1))
                 /\ columns' = Added(applied + 1 = 12 /\ Done + 1 >= 9)
                 /\ Ordered(refs')
<1> DEFINE v == applied + 1
           k == Done + 1
           n == Raised(v, Done)
           s == Head(rest)
<1>1. /\ v \in 1 .. 12 /\ k \in 1 .. Len(UpScript[v])
      /\ s = UpScript[v][k] /\ Done \in Nat
    <2>1. running # "none"
        OBVIOUS
    <2> QED BY Zenon, <2>1, Position
<1>2. tables = Stack(n) /\ columns = Added(v = 12 /\ Done >= 9) /\ Ordered(refs)
    BY Zenon DEF ScriptsInv, Reached, Widened
<1> HIDE DEF v, s, n
<1>3. k - 1 = Done /\ k = Done + 1
    BY <1>1
<1> HIDE DEF k
<1>4. n = Raised(v, k - 1)
    BY Zenon, <1>3 DEF n
<1>5. n \in Nat /\ Creates(s, v, k, n)
    <2>1. v \in 1 .. 12 /\ k \in 1 .. Len(UpScript[v]) /\ s = UpScript[v][k]
        BY Zenon, <1>1
    <2> QED BY Zenon, <2>1, <1>4, NextCreates
<1>6. ASSUME Succeeds(s),
             Effect(s) => /\ tables' = Stack(Raised(v, k))
                          /\ columns' = Added(v = 12 /\ k >= 9)
                          /\ Ordered(refs')
      PROVE  /\ Succeeds(Head(rest))
             /\ Effect(Head(rest)) =>
                   /\ tables' = Stack(Raised(applied + 1, Done + 1))
                   /\ columns' = Added(applied + 1 = 12 /\ Done + 1 >= 9)
                   /\ Ordered(refs')
    BY Zenon, <1>3, <1>6 DEF v, s
<1>7. CASE v = 12 /\ k = 9
    <2>1. s.op = "addColumns" /\ s.table = "vehicles" /\ s.names = EligibilityColumns
        BY <1>5, <1>7 DEF Creates, AddColumns
    <2>2. n = 44 /\ Raised(v, k) = n
        BY <1>5, <1>7 DEF Creates
    <2>3. "vehicles" \in tables
        BY <1>2, <2>2, VehiclesThere DEF Stack
    <2>4. columns = {}
        BY <1>2, <1>3, <1>7 DEF Added
    <2>5. Succeeds(s)
        BY Zenon, <2>1, <2>3, <2>4, AddRules
    <2>6. ASSUME Effect(s)
          PROVE  /\ tables' = tables /\ refs' = refs
                 /\ columns' = {"vehicles"} \X EligibilityColumns
        <3>1. columns' = {} \cup ({"vehicles"} \X EligibilityColumns)
            BY Zenon, <2>1, <2>4, <2>6, AddRules
        <3>2. tables' = tables /\ refs' = refs
            BY Zenon, <2>1, <2>6, AddRules
        <3> QED BY <3>1, <3>2
    <2>7. ASSUME Effect(s) PROVE columns' = Added(v = 12 /\ k >= 9)
        BY <1>7, <2>6, <2>7 DEF Added
    <2> QED BY Zenon, <1>2, <1>6, <2>2, <2>5, <2>6, <2>7
<1>8. CASE ~(v = 12 /\ k = 9)
    <2>1. /\ s.op = "create"
          /\ s.table \in Named /\ Rank[s.table] = n + 1
          /\ \A t \in s.names : t \in Named /\ Rank[t] <= n + 1
          /\ Raised(v, k) = n + 1
        BY Zenon, <1>5, <1>8 DEF Creates
    <2>2. s.table \notin tables
        BY <1>2, <1>5, <2>1 DEF Stack
    <2>3. ASSUME NEW t \in Named, Rank[t] <= n + 1
          PROVE  t \in tables \/ t = s.table
        <3> DEFINE r == Rank[t]
        <3>0. r \in 1 .. 50 /\ r <= n + 1
            BY Zenon, <2>3, PlaceType
        <3> HIDE DEF r
        <3>2. r <= n \/ r = n + 1
            BY <3>0, <1>5
        <3>1. Rank[t] <= n \/ Rank[t] = Rank[s.table]
            BY Zenon, <3>2, <2>1 DEF r
        <3> QED BY Zenon, <1>2, <2>1, <2>3, <3>1, PlacesDiffer DEF Stack
    <2>4. Succeeds(s)
        <3>1. s.names \subseteq tables \cup {s.table}
            BY Zenon, <2>1, <2>3
        <3> QED BY Zenon, <2>1, <2>2, <3>1, CreateRules
    <2>5. ASSUME Effect(s)
          PROVE  tables' = tables \cup {s.table} /\ refs' = refs \cup ({s.table} \X s.names)
                 /\ columns' = columns
        BY Zenon, <2>1, <2>5, CreateRules
    <2>6. tables \cup {s.table} = Stack(n + 1)
        <3>1. \A t \in Named : Rank[t] <= n => Rank[t] <= n + 1
            <4>1. \A r \in 1 .. 50 : r <= n => r <= n + 1
                BY <1>5
            <4> QED BY Zenon, <4>1, PlaceType
        <3>2. Rank[s.table] <= n + 1
            BY <1>5, <2>1
        <3> QED BY <1>2, <2>1, <2>3, <3>1, <3>2 DEF Stack
    <2>7. columns = Added(v = 12 /\ k >= 9)
        <3>1. (v = 12 /\ Done >= 9) <=> (v = 12 /\ k >= 9)
            BY <1>1, <1>3, <1>8
        <3> QED BY Zenon, <1>2, <3>1 DEF Added
    <2>8. Ordered(refs \cup ({s.table} \X s.names))
        <3> SUFFICES ASSUME NEW t \in Named, NEW u \in Named,
                            <<t, u>> \in refs \cup ({s.table} \X s.names)
                     PROVE  Rank[u] <= Rank[t]
            BY DEF Ordered
        <3>1. CASE <<t, u>> \in refs
            BY <1>2, <3>1 DEF Ordered
        <3>2. CASE t = s.table /\ u \in s.names
            BY <2>1, <3>2
        <3> QED BY <3>1, <3>2
    <2> QED BY Zenon, <1>6, <2>1, <2>4, <2>5, <2>6, <2>7, <2>8
<1> QED BY <1>7, <1>8

(* Statements of a down script succeed, unless it is SQL Server that        *)
(* refuses them, and take the last table off.                              *)
LEMMA DownStatement ==
    ASSUME ScriptsInv, running = "down", rest # <<>>
    PROVE  /\ ~transact => Succeeds(Head(rest))
           /\ Effect(Head(rest)) =>
                 /\ tables' = Stack(Lowered(applied, Done + 1))
                 /\ columns' = Added(applied = 12 /\ Done + 1 < 15)
                 /\ Ordered(refs')
<1> DEFINE v == applied
           k == Done + 1
           n == Lowered(v, Done)
           s == Head(rest)
<1>1. /\ v \in 1 .. 12 /\ k \in 1 .. Len(DownScript[v])
      /\ s = DownScript[v][k] /\ Done \in Nat
    <2>1. running # "none"
        OBVIOUS
    <2> QED BY Zenon, <2>1, Position
<1>2. tables = Stack(n) /\ columns = Added(v = 12 /\ Done < 15) /\ Ordered(refs)
    <2>1. running # "up"
        OBVIOUS
    <2> QED BY Zenon, <2>1 DEF ScriptsInv, Reached, Widened
<1> HIDE DEF v, s, n
<1>3. k - 1 = Done /\ k = Done + 1
    BY <1>1
<1> HIDE DEF k
<1>4. n = Lowered(v, k - 1)
    BY Zenon, <1>3 DEF n
<1>5. n \in Int /\ Drops(s, v, k, n)
    <2>1. v \in 1 .. 12 /\ k \in 1 .. Len(DownScript[v]) /\ s = DownScript[v][k]
        BY Zenon, <1>1
    <2> QED BY Zenon, <2>1, <1>4, NextDrops
<1>6. ASSUME ~transact => Succeeds(s),
             Effect(s) => /\ tables' = Stack(Lowered(v, k))
                          /\ columns' = Added(v = 12 /\ k < 15)
                          /\ Ordered(refs')
      PROVE  /\ ~transact => Succeeds(Head(rest))
             /\ Effect(Head(rest)) =>
                   /\ tables' = Stack(Lowered(applied, Done + 1))
                   /\ columns' = Added(applied = 12 /\ Done + 1 < 15)
                   /\ Ordered(refs')
    BY Zenon, <1>3, <1>6 DEF v, s
<1>7. CASE v = 12 /\ k = 15
    <2>1. s.op = "dropColumns" /\ s.table = "vehicles" /\ s.names = EligibilityColumns
        BY <1>5, <1>7 DEF Drops, DropColumns
    <2>2. n = 36 /\ Lowered(v, k) = n
        BY <1>5, <1>7 DEF Drops
    <2>3. "vehicles" \in tables
        BY <1>2, <2>2, VehiclesThere DEF Stack
    <2>4. columns = {"vehicles"} \X EligibilityColumns
        BY <1>2, <1>3, <1>7 DEF Added
    <2>5. ~transact => Succeeds(s)
        BY Zenon, <2>1, <2>3, DropColumnsRules
    <2>6. ASSUME Effect(s)
          PROVE  tables' = tables /\ refs' = refs /\ columns' = {}
        <3>1. columns' = columns \ ({"vehicles"} \X EligibilityColumns)
            BY Zenon, <2>1, <2>6, DropColumnsRules
        <3>2. tables' = tables /\ refs' = refs
            BY Zenon, <2>1, <2>6, DropColumnsRules
        <3> QED BY <2>4, <3>1, <3>2
    <2>7. ASSUME Effect(s) PROVE columns' = Added(v = 12 /\ k < 15)
        BY <1>7, <2>6, <2>7 DEF Added
    <2> QED BY Zenon, <1>2, <1>6, <2>2, <2>5, <2>6, <2>7
<1>8. CASE ~(v = 12 /\ k = 15)
    <2>1. /\ s.op \in {"drop", "dropIndexed"}
          /\ s.table \in Named /\ Rank[s.table] = n
          /\ v = 12 => k < 15 /\ n >= 37
          /\ Lowered(v, k) = n - 1
        BY Zenon, <1>5, <1>8 DEF Drops
    <2>2. ASSUME NEW t \in tables, t # s.table
          PROVE  t \in Named /\ Rank[t] < n
        <3> DEFINE r == Rank[t]
        <3>1. t \in Named /\ r <= n
            BY Zenon, <1>2, <2>2 DEF Stack
        <3>2. r \in 1 .. 50
            BY Zenon, <3>1, PlaceType
        <3>3. r # n
            BY Zenon, <2>1, <2>2, <3>1, PlacesDiffer
        <3> HIDE DEF r
        <3>4. r < n
            BY <1>5, <3>1, <3>2, <3>3
        <3> QED BY Zenon, <3>1, <3>4 DEF r
    <2>3. \A t \in tables \ {s.table} : <<t, s.table>> \notin refs
        <3> SUFFICES ASSUME NEW t \in tables, t # s.table, <<t, s.table>> \in refs
                     PROVE  FALSE
            OBVIOUS
        <3> DEFINE r == Rank[t]
        <3>1. t \in Named /\ r < n
            BY Zenon, <2>2
        <3>2. n <= r
            BY Zenon, <1>2, <2>1, <3>1 DEF Ordered
        <3>3. r \in 1 .. 50
            BY Zenon, <3>1, PlaceType
        <3> HIDE DEF r
        <3> QED BY <1>5, <3>1, <3>2, <3>3
    <2>r. Removes(s)
        BY Zenon, <2>1 DEF Removes
    <2>4. ~transact => Succeeds(s)
        BY Zenon, <2>r, <2>3, DropRules
    <2>5. ASSUME Effect(s)
          PROVE  /\ tables' = tables \ {s.table}
                 /\ refs' = {r \in refs : r[1] # s.table}
                 /\ columns' = {c \in columns : c[1] # s.table}
        BY Zenon, <2>r, <2>5, DropRules
    <2>6. tables \ {s.table} = Stack(n - 1)
        <3>1. \A r \in 1 .. 50 : r < n <=> r <= n - 1
            BY <1>5
        <3>2. \A t \in Named : Rank[t] < n <=> Rank[t] <= n - 1
            BY Zenon, <3>1, PlaceType
        <3>3. \A r \in 1 .. 50 : r < n => r <= n /\ r # n
            BY <1>5
        <3>4. \A t \in Named : Rank[t] < n => Rank[t] <= n /\ t # s.table
            BY Zenon, <2>1, <3>3, PlaceType
        <3> QED BY <1>2, <2>2, <3>2, <3>4 DEF Stack
    <2>7. {c \in columns : c[1] # s.table} = Added(v = 12 /\ k < 15)
        <3>1. CASE v = 12
            <4>1. k < 15 /\ Done < 15 /\ s.table # "vehicles"
                BY <1>1, <1>3, <1>5, <2>1, <3>1, VehiclesThere
            <4>2. columns = {"vehicles"} \X EligibilityColumns
                BY Zenon, <1>2, <3>1, <4>1 DEF Added
            <4>3. {c \in columns : c[1] # s.table} = columns
                BY <4>1, <4>2
            <4> QED BY Zenon, <3>1, <4>1, <4>2, <4>3 DEF Added
        <3>2. CASE v # 12
            <4>1. columns = {}
                BY Zenon, <1>2, <3>2 DEF Added
            <4>2. Added(v = 12 /\ k < 15) = {}
                BY Zenon, <3>2 DEF Added
            <4> QED BY <4>1, <4>2
        <3> QED BY <3>1, <3>2
    <2>8. Ordered({r \in refs : r[1] # s.table})
        BY <1>2 DEF Ordered
    <2> QED BY Zenon, <1>6, <2>1, <2>4, <2>5, <2>6, <2>7, <2>8
<1> QED BY <1>7, <1>8

LEMMA StatementHolds ==
    ASSUME ScriptsInv, Statement, UNCHANGED transact
    PROVE  ScriptsInv'
<1>1. /\ rest # <<>> /\ Effect(Head(rest)) /\ rest' = Tail(rest)
      /\ UNCHANGED <<transact, applied, running, saved, failed>>
    BY DEF Statement
<1>2. running # "none" /\ running \in {"up", "down"}
    BY <1>1 DEF ScriptsInv
<1>3. Script' = Script
    BY <1>1 DEF Script
<1>4. Done' = Done + 1
    <2>1. Len(Script) - Len(Tail(rest)) = Done + 1
        BY Zenon, <1>1, <1>2, Position
    <2> QED BY Zenon, <1>1, <1>3, <2>1 DEF Done
<1>5. /\ rest' \in Seq(Statements)
      /\ Len(rest') <= Len(Script')
      /\ \A i \in 1 .. Len(rest') : rest'[i] = Script'[Done' + i]
    BY Zenon, <1>1, <1>2, <1>3, <1>4, Position
<1>6. /\ tables' = Stack(Reached)'
      /\ columns' = Added(Widened)'
      /\ Ordered(refs)'
    <2>1. CASE running = "up"
        <3>1. Reached' = Raised(applied + 1, Done + 1)
            BY Zenon, <1>1, <1>4, <2>1 DEF Reached, Raised, Height
        <3>2. Widened' = (applied + 1 = 12 /\ Done + 1 >= 9)
            BY Zenon, <1>1, <1>4, <2>1 DEF Widened
        <3>3. /\ tables' = Stack(Raised(applied + 1, Done + 1))
              /\ columns' = Added(applied + 1 = 12 /\ Done + 1 >= 9)
              /\ Ordered(refs')
            BY Zenon, <1>1, <2>1, UpStatement
        <3> QED BY Zenon, <3>1, <3>2, <3>3 DEF Stack, Added, Ordered
    <2>2. CASE running = "down"
        <3>0. running # "up"
            BY <2>2
        <3>1. Reached' = Lowered(applied, Done + 1)
            BY Zenon, <1>1, <1>4, <2>2, <3>0 DEF Reached, Lowered, Height
        <3>2. Widened' = (applied = 12 /\ Done + 1 < 15)
            BY Zenon, <1>1, <1>4, <2>2, <3>0 DEF Widened
        <3>3. /\ tables' = Stack(Lowered(applied, Done + 1))
              /\ columns' = Added(applied = 12 /\ Done + 1 < 15)
              /\ Ordered(refs')
            BY Zenon, <1>1, <2>2, DownStatement
        <3> QED BY Zenon, <3>1, <3>2, <3>3 DEF Stack, Added, Ordered
    <2> QED BY <1>2, <2>1, <2>2
<1>7. ScriptsRun'
    <2>1. ScriptsRun /\ failed' = failed /\ transact' = transact
        BY <1>1 DEF ScriptsInv
    <2> QED BY <2>1 DEF ScriptsRun
<1> QED BY Zenon, <1>1, <1>2, <1>5, <1>6, <1>7 DEF ScriptsInv

LEMMA BeginHolds ==
    ASSUME ScriptsInv, NEW direction \in {"up", "down"},
           Begin(direction), UNCHANGED transact
    PROVE  ScriptsInv'
<1>1. /\ running = "none" /\ running' = direction
      /\ UNCHANGED <<transact, tables, refs, columns, applied, failed>>
      /\ saved' = [tables |-> tables, refs |-> refs, columns |-> columns]
    BY DEF Begin
<1>2. /\ tables = Stack(Height(applied)) /\ columns = Added(applied = 12)
      /\ Ordered(refs) /\ ScriptsRun /\ transact \in BOOLEAN /\ applied \in 0 .. 12
    BY <1>1 DEF ScriptsInv, Reached, Widened
<1>3. Height(applied) \in 0 .. 50
    BY Zenon, <1>2, HeightType
<1>4. /\ direction = "up" => applied < 12 /\ rest' = UpScript[applied + 1]
      /\ direction = "down" => applied > 0 /\ rest' = DownScript[applied]
    <2>1. Len(UpScript) = 12
        BY DEF UpScript
    <2> QED BY <2>1 DEF Begin
<1>5. rest' = Script' /\ Script' \in Seq(Statements)
    <2>1. CASE direction = "up"
        <3>1. applied + 1 \in 1 .. 12
            BY <1>2, <1>4, <2>1
        <3>2. Script' = UpScript[applied + 1]
            BY Zenon, <1>1, <2>1 DEF Script
        <3> QED BY Zenon, <1>4, <2>1, <3>1, <3>2, UpScriptsRaise
    <2>2. CASE direction = "down"
        <3>1. applied \in 1 .. 12 /\ running' # "up"
            BY <1>1, <1>2, <1>4, <2>2
        <3>2. Script' = DownScript[applied]
            BY Zenon, <1>1, <3>1 DEF Script
        <3> QED BY Zenon, <1>4, <2>2, <3>1, <3>2, DownScriptsLower
    <2> QED BY <2>1, <2>2
<1>6. /\ Done' = 0
      /\ rest' \in Seq(Statements)
      /\ Len(rest') <= Len(Script')
      /\ \A i \in 1 .. Len(rest') : rest'[i] = Script'[Done' + i]
    <2> DEFINE s == Script'
    <2>1. s \in Seq(Statements) /\ rest' = s /\ Done' = Len(s) - Len(rest')
        BY Zenon, <1>5 DEF Done
    <2> HIDE DEF s
    <2>2. /\ Done' = 0
          /\ rest' \in Seq(Statements)
          /\ Len(rest') <= Len(s)
          /\ \A i \in 1 .. Len(rest') : rest'[i] = s[Done' + i]
        BY <2>1
    <2> QED BY Zenon, <2>2 DEF s
<1>7. Reached' = Height(applied) /\ Widened' = (applied = 12)
    <2>1. CASE direction = "up"
        <3>1. (applied + 1) - 1 = applied /\ ~(applied + 1 = 12 /\ 0 >= 9) /\ applied # 12
            BY <1>2, <1>4, <2>1
        <3>2. Height(applied) + 0 - 0 = Height(applied)
            BY <1>3
        <3>3. Raised(applied + 1, 0) = Height(applied)
            BY Zenon, <3>1, <3>2 DEF Raised
        <3>4. Reached' = Raised(applied + 1, 0) /\ Widened' = (applied + 1 = 12 /\ 0 >= 9)
            BY Zenon, <1>1, <1>6, <2>1 DEF Reached, Widened, Raised, Height
        <3> QED BY Zenon, <3>1, <3>3, <3>4
    <2>2. CASE direction = "down"
        <3>1. /\ Height(applied) - 0 + 0 = Height(applied)
              /\ ~(applied = 12 /\ 0 >= 15) /\ 0 < 15
            BY <1>3
        <3>2. Lowered(applied, 0) = Height(applied)
            BY Zenon, <3>1 DEF Lowered
        <3>3. running' = "down" /\ running' # "up"
            BY <1>1, <2>2
        <3>4. Reached' = Lowered(applied, 0) /\ Widened' = (applied = 12 /\ 0 < 15)
            BY Zenon, <1>1, <1>6, <3>3 DEF Reached, Widened, Lowered, Height
        <3> QED BY Zenon, <3>1, <3>2, <3>4
    <2> QED BY <2>1, <2>2
<1>8. /\ tables' = Stack(Reached)'
      /\ columns' = Added(Widened)'
      /\ Ordered(refs)' /\ Ordered(saved.refs)'
      /\ (saved.tables)' = Stack(Height(applied))'
      /\ (saved.columns)' = Added(applied = 12)'
    <2>1. /\ tables' = tables /\ columns' = columns /\ refs' = refs /\ applied' = applied
          /\ saved'.tables = tables /\ saved'.columns = columns /\ saved'.refs = refs
        BY <1>1
    <2> QED BY Zenon, <1>2, <1>7, <2>1 DEF Stack, Added, Ordered, Height
<1>9. ScriptsRun'
    <2>1. ScriptsRun /\ failed' = failed /\ transact' = transact
        BY <1>1, <1>2
    <2> QED BY <2>1 DEF ScriptsRun
<1>10. /\ running' \in {"none", "up", "down"} /\ running' # "none"
       /\ running' = "up" => applied' < 12
       /\ running' = "down" => applied' > 0
       /\ applied' \in 0 .. 12 /\ transact' \in BOOLEAN
    BY <1>1, <1>2, <1>4
<1> QED BY Zenon, <1>6, <1>8, <1>9, <1>10 DEF ScriptsInv

LEMMA RestoreHolds ==
    ASSUME ScriptsInv, running # "none", Restore, UNCHANGED transact, ScriptsRun'
    PROVE  ScriptsInv'
<1>1. /\ tables' = saved.tables /\ refs' = saved.refs /\ columns' = saved.columns
      /\ running' = "none" /\ rest' = <<>>
      /\ UNCHANGED <<applied, saved, transact>>
    BY DEF Restore
<1>2. /\ saved.tables = Stack(Height(applied)) /\ saved.columns = Added(applied = 12)
      /\ Ordered(saved.refs) /\ transact \in BOOLEAN /\ applied \in 0 .. 12
    BY Zenon DEF ScriptsInv
<1>3. running' # "up" /\ running' # "down" /\ running' \in {"none", "up", "down"}
    BY <1>1
<1>4. Reached' = Height(applied) /\ Widened' = (applied = 12)
    BY Zenon, <1>1, <1>3 DEF Reached, Widened, Height
<1>5. /\ tables' = Stack(Reached)'
      /\ columns' = Added(Widened)'
      /\ Ordered(refs)' /\ Ordered(saved.refs)'
    BY Zenon, <1>1, <1>2, <1>4 DEF Stack, Added, Ordered
<1> QED BY Zenon, <1>1, <1>2, <1>3, <1>5 DEF ScriptsInv

LEMMA CommitHolds ==
    ASSUME ScriptsInv, Commit, UNCHANGED transact
    PROVE  ScriptsInv'
<1>1. /\ running # "none" /\ rest = <<>> /\ running' = "none" /\ rest' = <<>>
      /\ applied' = IF running = "up" THEN applied + 1 ELSE applied - 1
      /\ UNCHANGED <<transact, tables, refs, columns, saved, failed>>
    BY DEF Commit
<1>2. /\ tables = Stack(Reached) /\ columns = Added(Widened)
      /\ Ordered(refs) /\ Ordered(saved.refs) /\ ScriptsRun
      /\ transact \in BOOLEAN /\ running \in {"none", "up", "down"}
    BY Zenon DEF ScriptsInv
<1>3. Done = Len(Script)
    <2>1. Len(Script) \in Nat
        BY <1>1, Position
    <2>2. Len(rest) = 0
        BY <1>1
    <2> QED BY <2>1, <2>2 DEF Done
<1>4. Reached = Height(applied') /\ Widened = (applied' = 12) /\ applied' \in 0 .. 12
    <2>1. CASE running = "up"
        <3>1. /\ Script = UpScript[applied + 1] /\ applied + 1 \in 1 .. 12
              /\ applied' = applied + 1
            BY Zenon, <1>1, <2>1, Position
        <3>2. Reached = Raised(applied + 1, Len(UpScript[applied + 1]))
            BY Zenon, <1>3, <2>1, <3>1 DEF Reached
        <3>3. Reached = Height(applied')
            BY Zenon, <3>1, <3>2, UpScriptsRaise
        <3>4. Len(UpScript[12]) = 15
            BY WorkflowRaises DEF UpScript
        <3>5. applied + 1 = 12 => Done = 15
            BY Zenon, <1>3, <3>1, <3>4
        <3>6. Widened = (applied + 1 = 12 /\ Done >= 9)
            BY Zenon, <2>1 DEF Widened
        <3>7. 15 >= 9
            OBVIOUS
        <3>8. applied' \in 0 .. 12
            BY <3>1
        <3> QED BY Zenon, <3>1, <3>3, <3>5, <3>6, <3>7, <3>8
    <2>2. CASE running = "down"
        <3>1. /\ Script = DownScript[applied] /\ applied \in 1 .. 12 /\ running # "up"
              /\ applied' = applied - 1
            BY <1>1, <2>2, Position
        <3>2. Reached = Lowered(applied, Len(DownScript[applied]))
            BY Zenon, <1>3, <2>2, <3>1 DEF Reached
        <3>3. Reached = Height(applied')
            BY Zenon, <3>1, <3>2, DownScriptsLower
        <3>4. Len(DownScript[12]) = 15
            BY WorkflowLowers DEF DownScript
        <3>5. applied = 12 => Done = 15
            BY Zenon, <1>3, <3>1, <3>4
        <3>6. Widened = (applied = 12 /\ Done < 15)
            BY Zenon, <2>2, <3>1 DEF Widened
        <3>7. ~(15 < 15) /\ applied' # 12 /\ applied' \in 0 .. 12
            BY <3>1
        <3> QED BY Zenon, <3>3, <3>5, <3>6, <3>7
    <2> QED BY <1>1, <1>2, <2>1, <2>2
<1>5. running' # "up" /\ running' # "down" /\ running' \in {"none", "up", "down"}
    BY <1>1
<1>6. Reached' = Height(applied') /\ Widened' = (applied' = 12)
    BY Zenon, <1>5 DEF Reached, Widened, Height
<1>7. /\ tables' = Stack(Reached)'
      /\ columns' = Added(Widened)'
      /\ Ordered(refs)' /\ Ordered(saved.refs)'
    BY Zenon, <1>1, <1>2, <1>4, <1>6 DEF Stack, Added, Ordered
<1>8. ScriptsRun'
    <2>1. ScriptsRun /\ failed' = failed /\ transact' = transact
        BY <1>1, <1>2
    <2> QED BY <2>1 DEF ScriptsRun
<1> QED BY Zenon, <1>1, <1>2, <1>4, <1>5, <1>7, <1>8 DEF ScriptsInv

LEMMA OnlyDownFails ==
    ASSUME ScriptsInv, StatementFails, UNCHANGED transact
    PROVE  ScriptsRun'
<1>1. /\ rest # <<>> /\ ~Succeeds(Head(rest)) /\ failed' = failed \cup {<<running, Current>>}
    BY DEF StatementFails
<1>2. running \in {"up", "down"} /\ ScriptsRun
    BY <1>1 DEF ScriptsInv
<1>3. running # "up"
    BY Zenon, <1>1, UpStatement
<1>4. running = "down"
    BY <1>2, <1>3
<1>5. transact
    BY Zenon, <1>1, <1>4, DownStatement
<1>6. transact'
    BY <1>5
<1> QED BY <1>1, <1>2, <1>4, <1>5, <1>6 DEF ScriptsRun

(* The tables that exist are always the first in the order of creation,    *)
(* for whatever is applied, under way or undone: runMigration runs each    *)
(* script in a transaction, one version after the other.                   *)
THEOREM TablesAreStacked == ScriptsSpec => []ScriptsInv
<1>1. ScriptsInit => ScriptsInv
    <2> SUFFICES ASSUME ScriptsInit PROVE ScriptsInv
        OBVIOUS
    <2>1. /\ transact \in BOOLEAN /\ applied = 0 /\ running = "none" /\ rest = <<>>
          /\ tables = {} /\ refs = {} /\ columns = {} /\ failed = {} /\ saved.refs = {}
        BY DEF ScriptsInit
    <2>2. Stack(Height(0)) = {}
        <3>1. \A r \in 1 .. 50 : ~(r <= 0)
            OBVIOUS
        <3>2. \A t \in Named : ~(Rank[t] <= 0)
            BY Zenon, <3>1, PlaceType
        <3> QED BY <3>2, HeightsOf DEF Stack
    <2>3. Reached = Height(0) /\ Widened = FALSE
        <3>1. 0 # 12 /\ running # "up" /\ running # "down"
            BY <2>1
        <3> QED BY Zenon, <2>1, <3>1 DEF Reached, Widened
    <2>4. tables = Stack(Reached) /\ columns = Added(Widened)
        BY Zenon, <2>1, <2>2, <2>3 DEF Added
    <2>5. Ordered(refs) /\ Ordered(saved.refs) /\ ScriptsRun
        BY <2>1 DEF Ordered, ScriptsRun
    <2>6. applied \in 0 .. 12 /\ running \in {"none", "up", "down"} /\ running # "up" /\ running # "down"
        BY <2>1
    <2> QED BY Zenon, <2>1, <2>4, <2>5, <2>6 DEF ScriptsInv
<1>2. ScriptsInv /\ [ScriptsNext]_scriptVars => ScriptsInv'
    <2> SUFFICES ASSUME ScriptsInv, [ScriptsNext]_scriptVars PROVE ScriptsInv'
        OBVIOUS
    <2>1. ASSUME NEW direction \in {"up", "down"}, Begin(direction), UNCHANGED transact
          PROVE  ScriptsInv'
        BY Zenon, <2>1, BeginHolds
    <2>2. CASE Statement /\ UNCHANGED transact
        BY Zenon, <2>2, StatementHolds
    <2>3. CASE StatementFails /\ UNCHANGED transact
        <3>1. Restore /\ running # "none"
            BY <2>3 DEF StatementFails, ScriptsInv
        <3> QED BY Zenon, <2>3, <3>1, OnlyDownFails, RestoreHolds
    <2>4. CASE Interrupted /\ UNCHANGED transact
        <3>1. Restore /\ running # "none" /\ failed' = failed /\ transact' = transact
            BY <2>4 DEF Interrupted
        <3>2. ScriptsRun
            BY DEF ScriptsInv
        <3>3. ScriptsRun'
            BY <3>1, <3>2 DEF ScriptsRun
        <3> QED BY Zenon, <2>4, <3>1, <3>3, RestoreHolds
    <2>5. CASE Commit /\ UNCHANGED transact
        BY Zenon, <2>5, CommitHolds
    <2>6. CASE UNCHANGED scriptVars
        BY Zenon, <2>6 DEF scriptVars, ScriptsInv, Script, Done, Reached, Widened, Raised,
           Lowered, Height, Stack, Added, Ordered, ScriptsRun
    <2> QED BY Zenon, <2>1, <2>2, <2>3, <2>4, <2>5, <2>6 DEF ScriptsNext
<1> QED BY <1>1, <1>2, PTL DEF ScriptsSpec

(* ScriptsRun (the scripts of database/migrations/sql): no statement fails *)
(* but those that SQL Server refuses in down scripts.                      *)
THEOREM ScriptsSucceed == ScriptsSpec => []ScriptsRun
<1>1. ScriptsInv => ScriptsRun
    BY DEF ScriptsInv
<1> QED BY <1>1, TablesAreStacked, PTL

LEMMA HeightsGrow ==
    ASSUME NEW v \in 0 .. 12, NEW w \in 0 .. 12, v <= w
    PROVE  Height(v) <= Height(w)
BY DEF Height, Heights

(* Every table is made by a version. *)
LEMMA SomeVersion ==
    ASSUME NEW r \in 1 .. 50
    PROVE  \E v \in 1 .. 12 : Height(v - 1) < r /\ r <= Height(v)
<1>1. CASE r \in 1 .. 2
    <2>1. 1 \in 1 .. 12 /\ Height(1 - 1) = 0 /\ Height(1) = 2
        BY HeightsOf
    <2>2. 0 < r /\ r <= 2
        BY <1>1
    <2> QED BY Zenon, <2>1, <2>2
<1>2. CASE r \in 3 .. 3
    <2>1. 2 \in 1 .. 12 /\ Height(2 - 1) = 2 /\ Height(2) = 3
        BY HeightsOf
    <2>2. 2 < r /\ r <= 3
        BY <1>2
    <2> QED BY Zenon, <2>1, <2>2
<1>3. CASE r \in 4 .. 6
    <2>1. 3 \in 1 .. 12 /\ Height(3 - 1) = 3 /\ Height(3) = 6
        BY HeightsOf
    <2>2. 3 < r /\ r <= 6
        BY <1>3
    <2> QED BY Zenon, <2>1, <2>2
<1>4. CASE r \in 7 .. 11
    <2>1. 4 \in 1 .. 12 /\ Height(4 - 1) = 6 /\ Height(4) = 11
        BY HeightsOf
    <2>2. 6 < r /\ r <= 11
        BY <1>4
    <2> QED BY Zenon, <2>1, <2>2
<1>5. CASE r \in 12 .. 16
    <2>1. 5 \in 1 .. 12 /\ Height(5 - 1) = 11 /\ Height(5) = 16
        BY HeightsOf
    <2>2. 11 < r /\ r <= 16
        BY <1>5
    <2> QED BY Zenon, <2>1, <2>2
<1>6. CASE r \in 17 .. 19
    <2>1. 6 \in 1 .. 12 /\ Height(6 - 1) = 16 /\ Height(6) = 19
        BY HeightsOf
    <2>2. 16 < r /\ r <= 19
        BY <1>6
    <2> QED BY Zenon, <2>1, <2>2
<1>7. CASE r \in 20 .. 23
    <2>1. 7 \in 1 .. 12 /\ Height(7 - 1) = 19 /\ Height(7) = 23
        BY HeightsOf
    <2>2. 19 < r /\ r <= 23
        BY <1>7
    <2> QED BY Zenon, <2>1, <2>2
<1>8. CASE r \in 24 .. 27
    <2>1. 8 \in 1 .. 12 /\ Height(8 - 1) = 23 /\ Height(8) = 27
        BY HeightsOf
    <2>2. 23 < r /\ r <= 27
        BY <1>8
    <2> QED BY Zenon, <2>1, <2>2
<1>9. CASE r \in 28 .. 30
    <2>1. 9 \in 1 .. 12 /\ Height(9 - 1) = 27 /\ Height(9) = 30
        BY HeightsOf
    <2>2. 27 < r /\ r <= 30
        BY <1>9
    <2> QED BY Zenon, <2>1, <2>2
<1>10. CASE r \in 31 .. 34
    <2>1. 10 \in 1 .. 12 /\ Height(10 - 1) = 30 /\ Height(10) = 34
        BY HeightsOf
    <2>2. 30 < r /\ r <= 34
        BY <1>10
    <2> QED BY Zenon, <2>1, <2>2
<1>11. CASE r \in 35 .. 36
    <2>1. 11 \in 1 .. 12 /\ Height(11 - 1) = 34 /\ Height(11) = 36
        BY HeightsOf
    <2>2. 34 < r /\ r <= 36
        BY <1>11
    <2> QED BY Zenon, <2>1, <2>2
<1>12. CASE r \in 37 .. 50
    <2>1. 12 \in 1 .. 12 /\ Height(12 - 1) = 36 /\ Height(12) = 50
        BY HeightsOf
    <2>2. 36 < r /\ r <= 50
        BY <1>12
    <2> QED BY Zenon, <2>1, <2>2
<1>13. \/ r \in 1 .. 2 \/ r \in 3 .. 3 \/ r \in 4 .. 6 \/ r \in 7 .. 11 \/ r \in 12 .. 16
       \/ r \in 17 .. 19 \/ r \in 20 .. 23 \/ r \in 24 .. 27 \/ r \in 28 .. 30
       \/ r \in 31 .. 34 \/ r \in 35 .. 36 \/ r \in 37 .. 50
    OBVIOUS
<1> QED BY Zenon, <1>1, <1>2, <1>3, <1>4, <1>5, <1>6, <1>7, <1>8, <1>9, <1>10, <1>11, <1>12, <1>13

(* The k-th statement of an up script that has reached Height(v) at its    *)
(* end, whose length is n.                                                 *)
LEMMA PlacesOfScript ==
    ASSUME NEW v \in 1 .. 12, NEW n \in Nat, Raised(v, n) = Height(v), v = 12 => n = 15
    PROVE  /\ \A k \in 1 .. n : ~(v = 12 /\ k = 9) =>
                 Height(v - 1) < Raised(v, k) /\ Raised(v, k) <= Height(v)
           /\ \A r \in 1 .. 50 : Height(v - 1) < r /\ r <= Height(v) =>
                 \E k \in 1 .. n : ~(v = 12 /\ k = 9) /\ Raised(v, k) = r
<1> DEFINE h == Height(v - 1)
           g == Height(v)
           R(k) == h + k - (IF v = 12 /\ k >= 9 THEN 1 ELSE 0)
<1>1. h \in 0 .. 50 /\ g \in 0 .. 50
    <2>1. v - 1 \in 0 .. 12 /\ v \in 0 .. 12
        OBVIOUS
    <2> QED BY Zenon, <2>1, HeightType
<1>2. g = R(n)
    BY Zenon DEF Raised
<1> HIDE DEF h, g
<1>3. ASSUME NEW k \in 1 .. n, ~(v = 12 /\ k = 9)
      PROVE  h < R(k) /\ R(k) <= g
    BY <1>1, <1>2, <1>3
<1>4. ASSUME NEW r \in 1 .. 50, h < r, r <= g
      PROVE  \E k \in 1 .. n : ~(v = 12 /\ k = 9) /\ R(k) = r
    <2>1. CASE v = 12 /\ r - h >= 9
        <3> DEFINE k == r - h + 1
        <3>1. k \in 1 .. n /\ k # 9 /\ R(k) = r
            BY <1>1, <1>2, <1>4, <2>1
        <3> QED BY Zenon, <3>1
    <2>2. CASE v = 12 /\ r - h < 9
        <3> DEFINE k == r - h
        <3>1. k \in 1 .. n /\ k # 9 /\ R(k) = r
            BY <1>1, <1>2, <1>4, <2>2
        <3> QED BY Zenon, <3>1
    <2>3. CASE v # 12
        <3> DEFINE k == r - h
        <3>1. k \in 1 .. n /\ R(k) = r
            BY <1>1, <1>2, <1>4, <2>3
        <3> QED BY Zenon, <2>3, <3>1
    <2>4. r - h >= 9 \/ r - h < 9
        BY <1>1
    <2> QED BY Zenon, <2>1, <2>2, <2>3, <2>4
<1>5. \A k : Raised(v, k) = R(k)
    BY Zenon DEF Raised, h
<1> HIDE DEF R
<1> QED BY Zenon, <1>3, <1>4, <1>5 DEF h, g

LEMMA MadeBy ==
    ASSUME NEW v \in 1 .. 12
    PROVE  CreatedBy(v) = {t \in Named : Height(v - 1) < Rank[t] /\ Rank[t] <= Height(v)}
<1> DEFINE u == UpScript[v]
<1>1. u \in Seq(Statements) /\ Raised(v, Len(u)) = Height(v) /\ Raises(u, v, 0)
    BY Zenon, UpScriptsRaise
<1>2. v = 12 => Len(u) = 15
    <2>1. Len(UpScript[12]) = 15
        BY WorkflowRaises DEF UpScript
    <2> QED BY Zenon, <2>1
<1>3. CreatedBy(v) = {u[i].table : i \in {j \in DOMAIN u : u[j].op = "create"}}
    BY Zenon DEF CreatedBy
<1> HIDE DEF u
<1>4. DOMAIN u = 1 .. Len(u) /\ Len(u) \in Nat
    BY <1>1
<1>5. /\ \A k \in 1 .. Len(u) : ~(v = 12 /\ k = 9) =>
            Height(v - 1) < Raised(v, k) /\ Raised(v, k) <= Height(v)
      /\ \A r \in 1 .. 50 : Height(v - 1) < r /\ r <= Height(v) =>
            \E k \in 1 .. Len(u) : ~(v = 12 /\ k = 9) /\ Raised(v, k) = r
    BY Zenon, <1>1, <1>2, <1>4, PlacesOfScript
<1>6. ASSUME NEW k \in 1 .. Len(u), ~(v = 12 /\ k = 9)
      PROVE  u[k].op = "create" /\ u[k].table \in Named /\ Rank[u[k].table] = Raised(v, k)
    <2>1. 0 + k = k
        OBVIOUS
    <2> QED BY Zenon, <1>1, <1>6, <2>1 DEF Raises, Fits
<1>7. ASSUME NEW k \in 1 .. Len(u), v = 12 /\ k = 9
      PROVE  u[k].op # "create"
    <2>1. 0 + k = 9
        BY <1>7
    <2>2. u[k] = AddColumns("vehicles", EligibilityColumns)
        BY Zenon, <1>1, <1>7, <2>1 DEF Raises, Fits
    <2> QED BY <2>2 DEF AddColumns
<1>8. ASSUME NEW t \in CreatedBy(v)
      PROVE  t \in Named /\ Height(v - 1) < Rank[t] /\ Rank[t] <= Height(v)
    <2>1. PICK k \in 1 .. Len(u) : u[k].op = "create" /\ t = u[k].table
        BY Zenon, <1>3, <1>4, <1>8
    <2>2. ~(v = 12 /\ k = 9)
        BY Zenon, <1>7, <2>1
    <2> QED BY Zenon, <1>5, <1>6, <2>1, <2>2
<1>9. ASSUME NEW t \in Named, Height(v - 1) < Rank[t], Rank[t] <= Height(v)
      PROVE  t \in CreatedBy(v)
    <2>1. PICK k \in 1 .. Len(u) : ~(v = 12 /\ k = 9) /\ Raised(v, k) = Rank[t]
        BY Zenon, <1>5, <1>9, PlaceType
    <2>2. u[k].op = "create" /\ u[k].table = t
        BY Zenon, <1>6, <1>9, <2>1, PlacesDiffer
    <2> QED BY Zenon, <1>3, <1>4, <2>2
<1> QED BY <1>8, <1>9

LEMMA AllMade ==
    ASSUME NEW a \in 0 .. 12
    PROVE  UNION {CreatedBy(v) : v \in 1 .. a} = Stack(Height(a))
<1>1. ASSUME NEW v \in 1 .. a, NEW t \in CreatedBy(v)
      PROVE  t \in Stack(Height(a))
    <2>1. v \in 1 .. 12 /\ v \in 0 .. 12 /\ v <= a
        OBVIOUS
    <2>2. t \in Named /\ Rank[t] <= Height(v)
        BY <1>1, <2>1, MadeBy
    <2>3. Height(v) <= Height(a)
        BY Zenon, <2>1, HeightsGrow
    <2>4. Height(v) \in 0 .. 50 /\ Height(a) \in 0 .. 50 /\ Rank[t] \in 1 .. 50
        BY Zenon, <2>1, <2>2, HeightType, PlaceType
    <2>5. Rank[t] <= Height(a)
        BY <2>2, <2>3, <2>4
    <2> QED BY <2>2, <2>5 DEF Stack
<1>2. ASSUME NEW t \in Stack(Height(a))
      PROVE  \E v \in 1 .. a : t \in CreatedBy(v)
    <2>1. t \in Named /\ Rank[t] <= Height(a) /\ Rank[t] \in 1 .. 50
        BY <1>2, PlaceType DEF Stack
    <2>2. PICK v \in 1 .. 12 : Height(v - 1) < Rank[t] /\ Rank[t] <= Height(v)
        BY Zenon, <2>1, SomeVersion
    <2>3. v - 1 \in 0 .. 12
        OBVIOUS
    <2>4. a <= v - 1 => Height(a) <= Height(v - 1)
        BY Zenon, <2>3, HeightsGrow
    <2>5. Height(v - 1) \in 0 .. 50 /\ Height(a) \in 0 .. 50
        BY Zenon, <2>3, HeightType
    <2>6. ~(a <= v - 1)
        BY <2>1, <2>2, <2>4, <2>5
    <2>7. v \in 1 .. a
        BY <2>6
    <2>8. t \in CreatedBy(v)
        BY <2>1, <2>2, MadeBy
    <2> QED BY <2>7, <2>8
<1> QED BY <1>1, <1>2

(* SchemaIsOfVersions (the same scripts): between scripts the tables are   *)
(* those that the versions on record create, and the columns are there     *)
(* from version 12 on.                                                     *)
THEOREM SchemaFollowsVersions == ScriptsSpec => []SchemaIsOfVersions
<1>1. ScriptsInv => SchemaIsOfVersions
    <2> SUFFICES ASSUME ScriptsInv, running = "none"
                 PROVE  /\ tables = UNION {CreatedBy(v) : v \in 1 .. applied}
                        /\ columns = IF applied < 12 THEN {} ELSE {"vehicles"} \X EligibilityColumns
        BY DEF SchemaIsOfVersions
    <2>1. /\ applied \in 0 .. 12 /\ tables = Stack(Height(applied))
          /\ columns = Added(applied = 12)
        BY DEF ScriptsInv, Reached, Widened
    <2>2. tables = UNION {CreatedBy(v) : v \in 1 .. applied}
        BY Zenon, <2>1, AllMade
    <2>3. applied < 12 <=> applied # 12
        BY <2>1
    <2> QED BY Zenon, <2>1, <2>2, <2>3 DEF Added
<1> QED BY <1>1, TablesAreStacked, PTL

===============================================================================
