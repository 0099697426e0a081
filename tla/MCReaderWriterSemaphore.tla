----------------------- MODULE MCReaderWriterSemaphore -----------------------
(***************************************************************************)
(* Small instances of ReaderWriterSemaphore for TLC.                       *)
(***************************************************************************)
EXTENDS ReaderWriterSemaphore
=============================================================================
