------------------------ MODULE ReaderWriterSemaphore ------------------------
(***************************************************************************)
(* project2/readerWriterSemaphore.c: any number of readers, or one writer, *)
(* in the critical section.  The first reader in takes wsem and the last   *)
(* one out gives it back; readcount, under readcount_update, tells which   *)
(* reader is which.                                                        *)
(*                                                                         *)
(* An operator whose comment starts with `Slip' is a plausible mistake in  *)
(* the definition that follows it, kept to show that a property can fail.  *)
(***************************************************************************)
EXTENDS ReadersWriters, Posix

VARIABLES readcount, readcount_update, wsem

syncVars == <<readcount, readcount_update, wsem>>
vars     == <<threadVars, sharedVars, syncVars>>

WriterLabels == {"w_wait", "w_store", "w_post", "w_flag"}
ReaderLabels == {"r_while", "r_enter", "r_inc", "r_if1", "r_first", "r_entered", "r_load",
                 "r_compare", "r_leave", "r_dec", "r_if0", "r_last", "r_left"}

TypeOK ==
    /\ ThreadTypeOK(WriterLabels, ReaderLabels)
    /\ readcount \in Nat
    /\ readcount_update \in Nat
    /\ wsem \in Nat

Init ==
    /\ ThreadInit
    /\ readcount = 0
    /\ readcount_update = 1
    /\ wsem = 1

-----------------------------------------------------------------------------
(***************************************************************************)
(* writer()                                                                *)
(***************************************************************************)
WriterWait(w) ==
    /\ SyncStep(w, "w_wait", "w_store")
    /\ sem_wait(wsem)
    /\ UNCHANGED <<readcount, readcount_update>>

WriterStore(w) == (\E k \in Indices : Store(w, k, "w_post")) /\ UNCHANGED syncVars

WriterPost(w) ==
    /\ SyncStep(w, "w_post", "w_flag")
    /\ sem_post(wsem)
    /\ UNCHANGED <<readcount, readcount_update>>

WriterFlag(w) == RaiseFlag(w, "w_wait", "done") /\ UNCHANGED syncVars

writer(w) == WriterWait(w) \/ WriterStore(w) \/ WriterPost(w) \/ WriterFlag(w)

(***************************************************************************)
(* reader()                                                                *)
(***************************************************************************)
ReaderWhile(r) == TestFlag(r, "r_enter") /\ UNCHANGED syncVars

WaitUpdate(r, from, to) ==
    /\ SyncStep(r, from, to)
    /\ sem_wait(readcount_update)
    /\ UNCHANGED <<readcount, wsem>>

PostUpdate(r, from, to) ==
    /\ SyncStep(r, from, to)
    /\ sem_post(readcount_update)
    /\ UNCHANGED <<readcount, wsem>>

\* Slip: readcount is incremented without waiting for readcount_update.
ReaderEntersUnguarded(r) == SyncStep(r, "r_enter", "r_inc") /\ UNCHANGED syncVars

ReaderEnter(r) == WaitUpdate(r, "r_enter", "r_inc")

\* Slip: the reader is not counted.
ReaderUncounted(r) == SyncStep(r, "r_inc", "r_if1") /\ UNCHANGED syncVars

ReaderIncrement(r) ==
    /\ SyncStep(r, "r_inc", "r_if1")
    /\ readcount' = readcount + 1
    /\ UNCHANGED <<readcount_update, wsem>>

\* if (readcount == 1)
ReaderTestsFirst(r) ==
    /\ SyncStep(r, "r_if1", IF readcount = 1 THEN "r_first" ELSE "r_entered")
    /\ UNCHANGED syncVars

\* The first reader blocks the writers, or waits for one, with the other readers
\* behind it: it still holds readcount_update.
ReaderFirst(r) ==
    /\ SyncStep(r, "r_first", "r_entered")
    /\ sem_wait(wsem)
    /\ UNCHANGED <<readcount, readcount_update>>

ReaderEntered(r) == PostUpdate(r, "r_entered", "r_load")

ReaderLoad(r) == (\E k \in Indices : Load(r, k)) /\ UNCHANGED syncVars

ReaderCompare(r) == Compare(r, "r_leave") /\ UNCHANGED syncVars

ReaderLeave(r) == WaitUpdate(r, "r_leave", "r_dec")

ReaderDecrement(r) ==
    /\ SyncStep(r, "r_dec", "r_if0")
    /\ readcount' = readcount - 1
    /\ UNCHANGED <<readcount_update, wsem>>

\* Slip: the last reader but one lets the writers in.
ReaderLeavesFirst(r) ==
    /\ SyncStep(r, "r_if0", IF readcount = 1 THEN "r_last" ELSE "r_left")
    /\ UNCHANGED syncVars

\* if (readcount == 0)
ReaderTestsLast(r) ==
    /\ SyncStep(r, "r_if0", IF readcount = 0 THEN "r_last" ELSE "r_left")
    /\ UNCHANGED syncVars

ReaderLast(r) ==
    /\ SyncStep(r, "r_last", "r_left")
    /\ sem_post(wsem)
    /\ UNCHANGED <<readcount, readcount_update>>

ReaderLeft(r) == PostUpdate(r, "r_left", "r_while")

reader(r) ==
    \/ ReaderWhile(r) \/ ReaderEnter(r) \/ ReaderIncrement(r) \/ ReaderTestsFirst(r)
    \/ ReaderFirst(r) \/ ReaderEntered(r) \/ ReaderLoad(r) \/ ReaderCompare(r)
    \/ ReaderLeave(r) \/ ReaderDecrement(r) \/ ReaderTestsLast(r) \/ ReaderLast(r)
    \/ ReaderLeft(r)

(***************************************************************************)
(* main()                                                                  *)
(***************************************************************************)
mainProgress ==
    /\ Launch("w_wait") \/ ThreadsInitialized \/ WritersComplete \/ ReadersComplete
    /\ UNCHANGED syncVars

Next ==
    \/ \E w \in Writers : writer(w)
    \/ \E r \in Readers : reader(r)
    \/ mainProgress
    \/ CreateFails /\ UNCHANGED syncVars
    \/ Ended /\ UNCHANGED vars

Spec == Init /\ [][Next]_vars

\* The kernel schedules every thread that can run; a blocked thread may be
\* overtaken whenever the semaphore is posted.
Fairness ==
    /\ \A w \in Writers : WF_vars(writer(w))
    /\ \A r \in Readers : WF_vars(reader(r))
    /\ WF_vars(mainProgress)

FairSpec == Spec /\ Fairness

\* The most that could be asked of the semaphores: no thread is overtaken at a
\* semaphore again and again.
StrongFairness ==
    /\ \A w \in Writers : SF_vars(writer(w))
    /\ \A r \in Readers : SF_vars(reader(r))

StronglyFairSpec == FairSpec /\ StrongFairness

-----------------------------------------------------------------------------
(***************************************************************************)
(* Properties                                                              *)
(***************************************************************************)
\* Threads between sem_wait and sem_post of readcount_update, readers counted
\* in readcount, writers and readers inside the section that wsem protects.
Updating == Count({"r_inc", "r_if1", "r_first", "r_entered", "r_dec", "r_if0", "r_last", "r_left"})
Counted  == Count({"r_if1", "r_first", "r_entered", "r_load", "r_compare", "r_leave", "r_dec"})
Writing  == At({"w_store", "w_post"})
Reading  == At({"r_entered", "r_load", "r_compare", "r_leave", "r_dec", "r_if0", "r_last"})

\* A writer in the critical section is alone there, while readers may share it
\* (lines 77-85 against 123-137; the comment on wsem, 30).
Exclusion ==
    /\ Writing # {} => Reading = {}
    /\ \A v, w \in Writing : v = w

\* readcount_update is held by at most one reader, readcount is the number of
\* readers between their two updates, and wsem is 0 exactly when a writer or the
\* group of readers owns the buffer: none of the three drifts as readers come and
\* go (lines 112-121, 140-148).
Accounting ==
    /\ readcount_update + Updating = 1
    /\ readcount = Counted
    /\ wsem + Cardinality(Writing) + (IF Reading = {} THEN 0 ELSE 1) = 1
    /\ At({"r_last"}) # {} => readcount = 0

\* A semaphore lets the thread through only when it has a unit.
Blocked(t) ==
    \/ pc[t] \in {"w_wait", "r_first"} /\ wsem = 0
    \/ pc[t] \in {"r_enter", "r_leave"} /\ readcount_update = 0

\* As long as main() waits for a thread, some thread can go on: the readers that
\* leave do not wait for the first reader to enter, which waits for the writer and
\* holds readcount_update meanwhile (lines 112-121, 140-148).
NoDeadlock ==
    main \in {"joining writers", "joining readers"} =>
        \/ At({"done"}) = Threads
        \/ \E t \in Threads \ At({"unborn", "done"}) : ~ Blocked(t)

\* What makes it so: the first reader is the only one counted while it waits.
FirstAlone == At({"r_first"}) # {} => readcount = 1

\* What a reader has loaded so far is what the buffer still holds.
LoadsCurrent ==
    /\ \A r \in At({"r_load"}) : \A k \in touched[r] : b[r][k] = buffer[k]
    /\ \A r \in At({"r_compare"}) : b[r] = buffer

\* The inductive invariant from which the others follow.
IndInv ==
    /\ TypeOK /\ Accounting
    /\ TouchedInPass /\ WritesWhole /\ LoadsCurrent /\ NoMisread
    /\ FlagCleared
=============================================================================
