---------------------- MODULE MCProducerConsumerMonitor ----------------------
(***************************************************************************)
(* Small instances of ProducerConsumerMonitor for TLC.                     *)
(***************************************************************************)
EXTENDS ProducerConsumerMonitor
=============================================================================
