------------------------ MODULE MCServiceBusConsumer ------------------------
(* Model values for the run of ServiceBusConsumer. *)
EXTENDS ServiceBusConsumer

CONSTANTS c1, c2, m1
=============================================================================
