-------------------------- MODULE ReaderWriterMutex --------------------------
(***************************************************************************)
(* project2/readerWriterMutex.c: writers exclude each other by rw_mutex;   *)
(* readers read without it.  Each writer also clears stillWriting when it  *)
(* has finished, whatever the other writers do.                            *)
(*                                                                         *)
(* An operator whose comment starts with `Slip' is a plausible mistake in  *)
(* the definition that follows it, kept to show that a property can fail.  *)
(***************************************************************************)
EXTENDS ReadersWriters, Posix

ASSUME MutexAssumption == Unlocked \notin Writers

VARIABLE rw_mutex

vars == <<threadVars, sharedVars, rw_mutex>>

WriterLabels == {"w_lock", "w_store", "w_unlock", "w_flag", "w_finish"}
ReaderLabels == {"r_while", "r_load", "r_compare"}

TypeOK ==
    /\ ThreadTypeOK(WriterLabels, ReaderLabels)
    /\ rw_mutex \in Writers \cup {Unlocked}

Init == ThreadInit /\ rw_mutex = Unlocked

-----------------------------------------------------------------------------
(***************************************************************************)
(* writer()                                                                *)
(***************************************************************************)
\* Slip: the stores are made without the mutex.
WriterSkipsLock(w) == SyncStep(w, "w_lock", "w_store") /\ UNCHANGED rw_mutex

WriterLock(w) ==
    SyncStep(w, "w_lock", "w_store") /\ pthread_mutex_lock(rw_mutex, w)

WriterStore(w) == (\E k \in Indices : Store(w, k, "w_unlock")) /\ UNCHANGED rw_mutex

\* Slip: the mutex is kept.
WriterKeepsLock(w) == SyncStep(w, "w_unlock", "w_flag") /\ UNCHANGED rw_mutex

WriterUnlock(w) ==
    SyncStep(w, "w_unlock", "w_flag") /\ pthread_mutex_unlock(rw_mutex)

WriterFlag(w) == RaiseFlag(w, "w_lock", "w_finish") /\ UNCHANGED rw_mutex

\* Slip: the writer returns without clearing the flag.
WriterForgetsFlag(w) ==
    /\ Step(w, "w_finish", "done")
    /\ UNCHANGED <<i, touched, b, sharedVars, rw_mutex>>

\* stillWriting = false, after the loop of this writer.
WriterFinish(w) ==
    /\ Step(w, "w_finish", "done")
    /\ stillWriting' = FALSE
    /\ UNCHANGED <<i, touched, b, buffer, misread, rw_mutex>>

writer(w) ==
    \/ WriterLock(w) \/ WriterStore(w) \/ WriterUnlock(w)
    \/ WriterFlag(w) \/ WriterFinish(w)

(***************************************************************************)
(* reader()                                                                *)
(***************************************************************************)
ReaderWhile(r) == TestFlag(r, "r_load") /\ UNCHANGED rw_mutex

ReaderLoad(r) == (\E k \in Indices : Load(r, k)) /\ UNCHANGED rw_mutex

ReaderCompare(r) == Compare(r, "r_while") /\ UNCHANGED rw_mutex

reader(r) == ReaderWhile(r) \/ ReaderLoad(r) \/ ReaderCompare(r)

(***************************************************************************)
(* main()                                                                  *)
(***************************************************************************)
mainProgress ==
    /\ Launch("w_lock") \/ ThreadsInitialized \/ WritersComplete \/ ReadersComplete
    /\ UNCHANGED rw_mutex

Next ==
    \/ \E w \in Writers : writer(w)
    \/ \E r \in Readers : reader(r)
    \/ mainProgress
    \/ CreateFails /\ UNCHANGED rw_mutex
    \/ Ended /\ UNCHANGED vars

Spec == Init /\ [][Next]_vars

\* The kernel schedules every thread that can run; nothing is assumed of the
\* order in which blocked writers get the mutex.
Fairness ==
    /\ \A w \in Writers : WF_vars(writer(w))
    /\ \A r \in Readers : WF_vars(reader(r))
    /\ WF_vars(mainProgress)

FairSpec == Spec /\ Fairness

-----------------------------------------------------------------------------
(***************************************************************************)
(* Properties                                                              *)
(***************************************************************************)
\* rw_mutex is held by the one writer between lock and unlock, so that the two
\* stores of a write are never interleaved with those of another (lines 73-81).
WriterOwnership ==
    \A w \in Writers : pc[w] \in {"w_store", "w_unlock"} <=> rw_mutex = w

\* Whatever the order in which the writers set and clear the flag, it is false
\* once all of them have finished, before main() clears it: each writer's clearing
\* (line 91) comes after the last time it sets it (line 88).
FlagSettles == (Writers # {} /\ Writers \subseteq At({"done"})) => ~ stillWriting

\* A writer that has been through its critical section has left an identifier in
\* both halves of the buffer.
AfterStores == {"w_unlock", "w_flag", "w_finish", "done"}

Written ==
    (\E w \in Writers : pc[w] \in AfterStores) => \A k \in Indices : buffer[k] \in Writers

\* The inductive invariant from which BufferSettles follows.
IndInv == TypeOK /\ WriterOwnership /\ TouchedInPass /\ WritesWhole /\ Written
=============================================================================
