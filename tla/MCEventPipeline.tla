--------------------------- MODULE MCEventPipeline ---------------------------
(* Model values for the run of EventPipeline. *)
EXTENDS EventPipeline

CONSTANTS i1, i2
===============================================================================
