--------------------------- MODULE MigrationScripts ---------------------------
(***************************************************************************)
(* The scripts of database/migrations/sql, run by a Migrator one version   *)
(* after the other, up and down.  A script is the sequence of its          *)
(* statements, and a statement is what it does to tables, foreign keys and *)
(* the columns that are added later; the columns a table is created with   *)
(* and the rows that are inserted are left out.                            *)
(*                                                                         *)
(* The rules of the database are the external part: a table is created     *)
(* after the tables it refers to and dropped before them, DROP INDEX names *)
(* its table in Transact-SQL, and a column with a default is not dropped   *)
(* before the default.  The last two rules hold in SQL Server; databases   *)
(* that do without them are modelled as well, to see what remains.         *)
(***************************************************************************)
EXTENDS Naturals, Sequences, FiniteSets

Create(t, refs) == [op |-> "create", table |-> t, names |-> refs]
AddColumns(t, cols) == [op |-> "addColumns", table |-> t, names |-> cols]
Drop(t) == [op |-> "drop", table |-> t, names |-> {}]
(* DROP INDEX for each index of a table, then DROP TABLE. *)
DropIndexed(t) == [op |-> "dropIndexed", table |-> t, names |-> {}]
DropColumns(t, cols) == [op |-> "dropColumns", table |-> t, names |-> cols]

------------------------------------------------------------------------------
(* 001 *)
(* Fault of a mutant run: profiles come before the users they belong to. *)
ProfilesFirst ==
    <<Create("driver_profiles", {"users"}), Create("users", {"users"})>>

CreateUsers ==
    <<Create("users", {"users"}), Create("driver_profiles", {"users"})>>
DropUsers == <<DropIndexed("driver_profiles"), DropIndexed("users")>>

(* 002 *)
CreateVehicles == <<Create("vehicles", {"users"})>>
DropVehicles == <<DropIndexed("vehicles")>>

(* 003 *)
CreateCompliance ==
    <<Create("documents", {"users"}),
      Create("background_checks", {"users"}),
      Create("driver_onboarding", {"users", "background_checks", "vehicles"})>>
DropCompliance ==
    <<DropIndexed("driver_onboarding"), DropIndexed("background_checks"),
      DropIndexed("documents")>>

(* 004 *)
CreatePayments ==
    <<Create("payment_methods", {"users"}),
      Create("payments", {"users", "payment_methods"}),
      Create("wallets", {"users"}),
      Create("wallet_transactions", {"users", "wallets"}),
      Create("driver_payouts", {"users"})>>

(* Fault of a mutant run: the script leaves a table behind. *)
DropPaymentsButOne ==
    <<DropIndexed("wallet_transactions"), DropIndexed("wallets"),
      DropIndexed("payments"), DropIndexed("payment_methods")>>

DropPayments ==
    <<DropIndexed("driver_payouts"), DropIndexed("wallet_transactions"),
      DropIndexed("wallets"), DropIndexed("payments"),
      DropIndexed("payment_methods")>>

(* 005 *)
CreatePromotions ==
    <<Create("promotions", {}),
      Create("promo_usage", {"users", "promotions"}),
      Create("user_promos", {"users", "promotions"}),
      Create("referrals", {"users"}),
      Create("wallet_credits", {"users"})>>
DropPromotions ==
    <<DropIndexed("wallet_credits"), DropIndexed("referrals"),
      DropIndexed("user_promos"), DropIndexed("promo_usage"),
      DropIndexed("promotions")>>

(* 006 *)
CreateRatings ==
    <<Create("ratings", {"users"}),
      Create("rating_responses", {"users", "ratings"}),
      Create("user_rating_summaries", {"users"})>>
DropRatings ==
    <<Drop("user_rating_summaries"), Drop("rating_responses"),
      DropIndexed("ratings")>>

(* 007 *)
CreateSupport ==
    <<Create("support_tickets", {"users"}),
      Create("ticket_messages", {"support_tickets"}),
      Create("ticket_attachments", {"support_tickets", "ticket_messages"}),
      Create("support_agents", {})>>
DropSupport ==
    <<DropIndexed("support_agents"), DropIndexed("ticket_attachments"),
      DropIndexed("ticket_messages"), DropIndexed("support_tickets")>>

(* 008 *)
CreateFraud ==
    <<Create("risk_assessments", {}), Create("fraud_alerts", {}),
      Create("fraud_rules", {}), Create("device_fingerprints", {"users"})>>
DropFraud ==
    <<DropIndexed("device_fingerprints"), DropIndexed("fraud_rules"),
      DropIndexed("fraud_alerts"), DropIndexed("risk_assessments")>>

(* 009 *)
CreateNotifications ==
    <<Create("device_tokens", {"users"}),
      Create("notification_preferences", {"users"}),
      Create("notifications", {"users"})>>
DropNotifications ==
    <<DropIndexed("notifications"), Drop("notification_preferences"),
      DropIndexed("device_tokens")>>

(* 010 *)
CreateGeoPricing ==
    <<Create("service_areas", {}), Create("geofences", {}),
      Create("rate_cards", {"service_areas"}),
      Create("surge_zones", {"service_areas", "geofences"})>>
DropGeoPricing ==
    <<DropIndexed("surge_zones"), DropIndexed("rate_cards"),
      DropIndexed("geofences"), DropIndexed("service_areas")>>

(* 011: schema_migrations is not the Migrator's own table, _migrations. *)
CreateAudit == <<Create("audit_logs", {}), Create("schema_migrations", {})>>
DropAudit == <<Drop("schema_migrations"), DropIndexed("audit_logs")>>

(* 012 *)
CreateCases ==
    <<Create("onboarding_step_definitions", {}),
      Create("driver_approval_cases", {"users"}),
      Create("driver_step_instances",
             {"users", "driver_approval_cases", "onboarding_step_definitions"})>>
CreateEvidence ==
    <<Create("onboarding_evidence", {"users", "driver_step_instances", "documents"}),
      Create("background_check_results", {"users", "driver_step_instances"}),
      Create("driving_history_results", {"users", "driver_step_instances"})>>

EligibilityColumns ==
    {"tnc_eligible", "eligibility_check_date", "eligibility_notes",
     "inspection_required", "inspection_expires_at", "inspection_document_id"}
WithDefault == {"tnc_eligible", "inspection_required"}

CreatePolicies ==
    <<Create("insurance_policies", {"users", "vehicles", "documents"}),
      Create("policy_acknowledgements", {"users", "driver_approval_cases"}),
      AddColumns("vehicles", EligibilityColumns),
      Create("recheck_schedules",
             {"users", "driver_approval_cases", "driver_step_instances"})>>
CreateAuditEvents ==
    <<Create("approval_audit_events", {}), Create("approval_reason_codes", {}),
      Create("jurisdictional_requirements", {})>>
CreateAppeals ==
    <<Create("driver_complaints", {"users"}),
      Create("driver_appeals",
             {"users", "driver_approval_cases", "driver_step_instances"})>>
CreateApprovalWorkflow ==
    CreateCases \o CreateEvidence \o CreatePolicies \o CreateAuditEvents \o CreateAppeals
DropApprovalWorkflow ==
    <<Drop("driver_appeals"), Drop("driver_complaints"),
      Drop("jurisdictional_requirements"), Drop("approval_reason_codes"),
      Drop("approval_audit_events"), Drop("recheck_schedules"),
      Drop("policy_acknowledgements"), Drop("insurance_policies"),
      Drop("driving_history_results"), Drop("background_check_results"),
      Drop("onboarding_evidence"), Drop("driver_step_instances"),
      Drop("driver_approval_cases"), Drop("onboarding_step_definitions"),
      DropColumns("vehicles", EligibilityColumns)>>

UpScript ==
    <<CreateUsers, CreateVehicles, CreateCompliance, CreatePayments,
      CreatePromotions, CreateRatings, CreateSupport, CreateFraud,
      CreateNotifications, CreateGeoPricing, CreateAudit, CreateApprovalWorkflow>>
DownScript ==
    <<DropUsers, DropVehicles, DropCompliance, DropPayments,
      DropPromotions, DropRatings, DropSupport, DropFraud,
      DropNotifications, DropGeoPricing, DropAudit, DropApprovalWorkflow>>

------------------------------------------------------------------------------
VARIABLES
    transact,   \* the database is SQL Server
    tables,     \* that exist
    refs,       \* the foreign keys, pairs of tables
    columns,    \* that were added, pairs of table and column
    applied,    \* the versions 1 .. applied are recorded
    running,    \* "none", "up" or "down"
    rest,       \* statements of the open transaction still to run
    saved,      \* what it rolls back to
    failed      \* scripts in which a statement failed

scriptVars ==
    <<transact, tables, refs, columns, applied, running, rest, saved, failed>>

ScriptsInit ==
    /\ transact \in BOOLEAN
    /\ tables = {}
    /\ refs = {}
    /\ columns = {}
    /\ applied = 0
    /\ running = "none"
    /\ rest = <<>>
    /\ saved = [tables |-> {}, refs |-> {}, columns |-> {}]
    /\ failed = {}

(* The version that the open transaction applies or rolls back. *)
Current == IF running = "up" THEN applied + 1 ELSE applied

Begin(direction) ==
    /\ running = "none"
    /\ \/ direction = "up" /\ applied < Len(UpScript) /\ rest' = UpScript[applied + 1]
       \/ direction = "down" /\ applied > 0 /\ rest' = DownScript[applied]
    /\ running' = direction
    /\ saved' = [tables |-> tables, refs |-> refs, columns |-> columns]
    /\ UNCHANGED <<tables, refs, columns, applied, failed>>

(* What the database says to a statement. *)
Succeeds(s) ==
    CASE s.op = "create" -> s.table \notin tables /\ s.names \subseteq tables \cup {s.table}
      [] s.op = "addColumns" -> s.table \in tables /\ \A c \in s.names : <<s.table, c>> \notin columns
      [] s.op \in {"drop", "dropIndexed"} ->
            /\ \A t \in tables \ {s.table} : <<t, s.table>> \notin refs
            /\ s.op = "dropIndexed" => ~transact
      [] s.op = "dropColumns" -> s.table \in tables /\ (transact => s.names \cap WithDefault = {})

Effect(s) ==
    /\ tables' = CASE s.op = "create" -> tables \cup {s.table}
                   [] s.op \in {"drop", "dropIndexed"} -> tables \ {s.table}
                   [] OTHER -> tables
    /\ refs' = CASE s.op = "create" -> refs \cup ({s.table} \X s.names)
                 [] s.op \in {"drop", "dropIndexed"} -> {r \in refs : r[1] # s.table}
                 [] OTHER -> refs
    /\ columns' = CASE s.op = "addColumns" -> columns \cup ({s.table} \X s.names)
                    [] s.op = "dropColumns" -> columns \ ({s.table} \X s.names)
                    [] s.op \in {"drop", "dropIndexed"} -> {c \in columns : c[1] # s.table}
                    [] OTHER -> columns

Statement ==
    /\ rest # <<>>
    /\ Succeeds(Head(rest))
    /\ Effect(Head(rest))
    /\ rest' = Tail(rest)
    /\ UNCHANGED <<applied, running, saved, failed>>

Restore ==
    /\ tables' = saved.tables
    /\ refs' = saved.refs
    /\ columns' = saved.columns
    /\ running' = "none"
    /\ rest' = <<>>
    /\ UNCHANGED <<applied, saved>>

(* A statement fails, and the transaction is rolled back. *)
StatementFails ==
    /\ rest # <<>>
    /\ ~Succeeds(Head(rest))
    /\ failed' = failed \cup {<<running, Current>>}
    /\ Restore

(* The connection or the process is lost, with the same effect. *)
Interrupted ==
    /\ running # "none"
    /\ Restore
    /\ UNCHANGED failed

Commit ==
    /\ running # "none"
    /\ rest = <<>>
    /\ applied' = IF running = "up" THEN applied + 1 ELSE applied - 1
    /\ running' = "none"
    /\ UNCHANGED <<tables, refs, columns, rest, saved, failed>>

ScriptsNext ==
    /\ \/ \E direction \in {"up", "down"} : Begin(direction)
       \/ Statement \/ StatementFails \/ Interrupted \/ Commit
    /\ UNCHANGED transact

ScriptsSpec == ScriptsInit /\ [][ScriptsNext]_scriptVars

------------------------------------------------------------------------------
CreatedBy(v) ==
    {UpScript[v][i].table : i \in {j \in DOMAIN UpScript[v] : UpScript[v][j].op = "create"}}

(* Run in the order the Migrator keeps, no script has a statement that     *)
(* fails: none uses a table another version makes, or drops one in use.    *)
(* SQL Server refuses down scripts for their syntax; it too runs every up  *)
(* script, also after down scripts that it refused and rolled back.        *)
ScriptsRun == \A f \in failed : transact /\ f[1] = "down"

(* Between scripts the schema is that of the versions on record: a down    *)
(* script takes back all its up script made and nothing else.              *)
SchemaIsOfVersions ==
    running = "none" =>
        /\ tables = UNION {CreatedBy(v) : v \in 1 .. applied}
        /\ columns = IF applied < 12 THEN {} ELSE {"vehicles"} \X EligibilityColumns

===============================================================================
