------------------------- MODULE MCReaderWriterMutex -------------------------
(***************************************************************************)
(* Small instances of ReaderWriterMutex for TLC.                           *)
(***************************************************************************)
EXTENDS ReaderWriterMutex
=============================================================================
