------------------------------ MODULE MCMapsClient ------------------------------
(* Model values for the run of MapsClient and its limiter. *)
EXTENDS MapsClient

CONSTANTS c1, c2
================================================================================
