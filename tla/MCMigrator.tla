------------------------------ MODULE MCMigrator ------------------------------
(* Model values for the run of Migrator. *)
EXTENDS Migrator

CONSTANTS p1, p2
===============================================================================
