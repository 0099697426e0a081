----------------------------- MODULE AtomicPair -----------------------------
(***************************************************************************)
(* What synchronised readers and writers promise of their shared buffer,   *)
(* which holds two copies of the last writer's identifier: both copies are *)
(* written in one step and read in one step, and no read is in error (the  *)
(* comments on `buffer', readerWriterSemaphore.c 47-52, and on reader(),   *)
(* 97-104).                                                                *)
(***************************************************************************)
CONSTANTS Writers, Readers,
          Nobody    \* the register before the first write

VARIABLES register,
          seen,     \* per reader: the pair it read and has not yet reported
          misread   \* an inconsistent read has been reported

pairVars == <<register, seen, misread>>

Copies(id) == [k \in {0, 1} |-> id]

Init ==
    /\ register = Copies(Nobody)
    /\ seen = [r \in Readers |-> <<>>]
    /\ misread = FALSE

Write ==
    /\ \E w \in Writers : register' = Copies(w)
    /\ UNCHANGED <<seen, misread>>

Read(r) ==
    /\ seen[r] = <<>>
    /\ seen' = [seen EXCEPT ![r] = <<register>>]
    /\ UNCHANGED <<register, misread>>

\* A reader only ever reports a successful read.
Report(r) ==
    /\ seen[r] # <<>>
    /\ seen' = [seen EXCEPT ![r] = <<>>]
    /\ UNCHANGED <<register, misread>>

Next == Write \/ \E r \in Readers : Read(r) \/ Report(r)

Spec == Init /\ [][Next]_pairVars
=============================================================================
