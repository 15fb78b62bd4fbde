------------------------- MODULE MCResilientHTTPClient -------------------------
(* Model values for the run of ResilientHTTPClient. *)
EXTENDS ResilientHTTPClient

CONSTANTS c1, c2, c3
================================================================================
