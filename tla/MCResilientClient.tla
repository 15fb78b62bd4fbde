--------------------------- MODULE MCResilientClient ---------------------------
(* Model values for the run of ResilientClient. *)
EXTENDS ResilientClient

CONSTANTS c1, c2, c3
================================================================================
