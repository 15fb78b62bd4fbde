------------------------------- MODULE MCService -------------------------------
(* Model values for the run of Service. *)
EXTENDS Service

CONSTANTS c1, c2, r1, r2

MCDocs == {<<1, 1>>, <<1, 2>>, <<2, 1>>}
MCDoc == <<1, 1>>
MCPartitions == {1, 2}
MCContainers == <<"users", "trips">>
MCChecks == <<TRUE, FALSE, FALSE>>
================================================================================
