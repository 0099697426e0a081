--------------------- MODULE MCProducerConsumerSemaphore ---------------------
(***************************************************************************)
(* A small instance of ProducerConsumerSemaphore for TLC (semaphore.cfg):  *)
(* six values are produced and four consumed through a buffer of two.      *)
(***************************************************************************)
EXTENDS ProducerConsumerSemaphore
=============================================================================
