--------------------- MODULE ReaderWriterSemaphore_proofs ---------------------
(***************************************************************************)
(* Safety of ReaderWriterSemaphore, for any finite sets of writers and     *)
(* readers and any number of writes: mutual exclusion, the accounting of   *)
(* the semaphores, no misread, and the refinement of AtomicPair.           *)
(***************************************************************************)
EXTENDS ReaderWriterSemaphore, FiniteSetTheorems, TLAPS

-----------------------------------------------------------------------------
(***************************************************************************)
(* Counting threads by label                                               *)
(***************************************************************************)
One(label, labels) == IF label \in labels THEN 1 ELSE 0

\* Counts are natural numbers, and a count is positive iff some thread is there.
LEMMA CountType ==
    ASSUME NEW labels
    PROVE  /\ IsFiniteSet(At(labels))
           /\ Count(labels) \in Nat
           /\ Count(labels) = 0 <=> At(labels) = {}
<1>1. IsFiniteSet(Threads)
  BY ThreadAssumption, FS_Union DEF Threads
<1>2. At(labels) \in SUBSET Threads
  BY DEF At
<1> QED
  BY <1>1, <1>2, FS_Subset, FS_CardinalityType, FS_EmptySet DEF Count

\* At most one thread is counted by a count of at most 1.
LEMMA CountAtMostOne ==
    ASSUME NEW labels, Count(labels) <= 1
    PROVE  \A s, t \in At(labels) : s = t
<1>1. CASE Count(labels) = 0
  BY <1>1, CountType
<1>2. CASE Count(labels) = 1
  BY <1>2, CountType, FS_Singleton DEF Count
<1> QED
  BY <1>1, <1>2, CountType

\* Thread t goes from label `from' to label `to'.
Moves(t, from, to) ==
    /\ pc = [s \in Threads |-> pc[s]]
    /\ pc[t] = from
    /\ pc' = [pc EXCEPT ![t] = to]

\* When one thread moves, a set of threads gains or loses that thread at most,
\* and its size changes by what the thread contributes.
LEMMA MoveAt ==
    ASSUME NEW t \in Threads, NEW from, NEW to, Moves(t, from, to)
    PROVE  \A labels :
              /\ t \in At(labels) <=> from \in labels
              /\ At(labels)' = (At(labels) \ {t}) \cup (IF to \in labels THEN {t} ELSE {})
              /\ (from \in labels <=> to \in labels) => At(labels)' = At(labels)
              /\ Count(labels)' = Count(labels) - One(from, labels) + One(to, labels)
<1> SUFFICES ASSUME NEW labels
             PROVE  /\ t \in At(labels) <=> from \in labels
                    /\ At(labels)' = (At(labels) \ {t}) \cup (IF to \in labels THEN {t} ELSE {})
                    /\ (from \in labels <=> to \in labels) => At(labels)' = At(labels)
                    /\ Count(labels)' = Count(labels) - One(from, labels) + One(to, labels)
  OBVIOUS
<1> DEFINE Others == At(labels) \ {t}
<1>1. IsFiniteSet(Others) /\ t \notin Others
  BY CountType, FS_RemoveElement
<1>2. At(labels) = IF from \in labels THEN Others \cup {t} ELSE Others
  BY DEF At, Moves
<1>3. At(labels)' = IF to \in labels THEN Others \cup {t} ELSE Others
  BY DEF At, Moves
<1>4. Cardinality(Others \cup {t}) = Cardinality(Others) + 1 /\ Cardinality(Others) \in Nat
  BY <1>1, FS_AddElement, FS_CardinalityType
<1>5. t \in At(labels) <=> from \in labels
  BY DEF At, Moves
<1>6. At(labels)' = Others \cup (IF to \in labels THEN {t} ELSE {})
  BY <1>3
<1>9. (from \in labels <=> to \in labels) => At(labels)' = At(labels)
  BY <1>2, <1>3
<1> HIDE DEF Others
<1>7. Count(labels) = Cardinality(Others) + One(from, labels)
  BY <1>2, <1>4 DEF Count, One
<1>8. Count(labels)' = Cardinality(Others) + One(to, labels)
  BY <1>3, <1>4 DEF Count, One
<1> QED
  BY <1>4, <1>5, <1>6, <1>7, <1>8, <1>9 DEF One, Others

\* Nothing changes when pc does not.
LEMMA StillAt ==
    ASSUME pc' = pc
    PROVE  \A labels : At(labels)' = At(labels) /\ Count(labels)' = Count(labels)
<1>1. \A labels : At(labels)' = At(labels)
  BY DEF At
<1> QED
  BY <1>1 DEF Count
-----------------------------------------------------------------------------
(***************************************************************************)
(* What every step of a thread has in common                               *)
(***************************************************************************)
\* The labels between which a thread may move: a writer stays among its own,
\* and so does a reader.
Proper(t, to, WL, RL) ==
    /\ to \in WL \cup RL \cup {"unborn", "done"}
    /\ t \in Writers => to \notin RL
    /\ t \in Readers => to \notin WL

\* A move of one thread keeps the types of main and pc.
LEMMA MoveType ==
    ASSUME NEW WL, NEW RL, ThreadTypeOK(WL, RL), NEW t \in Threads, NEW to,
           Proper(t, to, WL, RL), UNCHANGED main, pc' = [pc EXCEPT ![t] = to],
           i' \in [Writers -> Nat], buffer' \in Pair, stillWriting' \in BOOLEAN,
           touched' \in [Threads -> SUBSET Indices], b' \in [Readers -> Pair],
           misread' \in BOOLEAN
    PROVE  ThreadTypeOK(WL, RL)'
BY ThreadAssumption DEF ThreadTypeOK, Threads, Proper

\* A synchronisation call leaves the data alone.
LEMMA SyncType ==
    ASSUME NEW WL, NEW RL, ThreadTypeOK(WL, RL), NEW t \in Threads, NEW from, NEW to,
           SyncStep(t, from, to), Proper(t, to, WL, RL)
    PROVE  ThreadTypeOK(WL, RL)'
BY MoveType DEF SyncStep, Step, sharedVars, ThreadTypeOK

\* An access to the buffer, the first or the second of its pass.
LEMMA AccessType ==
    ASSUME NEW WL, NEW RL, ThreadTypeOK(WL, RL), NEW t \in Threads, NEW from, NEW to,
           NEW k \in Indices, Access(t, k, from, to)
    PROVE  /\ main' = main /\ pc[t] = from /\ k \notin touched[t]
           /\ touched' \in [Threads -> SUBSET Indices]
           /\ \A s \in Threads \ {t} : touched'[s] = touched[s]
           /\ \/ /\ touched[t] \cup {k} = Indices
                 /\ Moves(t, from, to)
                 /\ touched'[t] = {}
              \/ /\ touched[t] \cup {k} # Indices
                 /\ Moves(t, from, from)
                 /\ touched'[t] = touched[t] \cup {k}
<1>1. /\ touched \in [Threads -> SUBSET Indices] /\ k \notin touched[t]
      /\ pc = [s \in Threads |-> pc[s]]
  BY DEF ThreadTypeOK, Access
<1>2. CASE touched[t] \cup {k} = Indices
  <2>1. Step(t, from, to) /\ touched' = [touched EXCEPT ![t] = {}]
    BY <1>2 DEF Access
  <2> QED
    BY <1>1, <1>2, <2>1 DEF Step, Moves
<1>3. CASE touched[t] \cup {k} # Indices
  <2>1. Step(t, from, from) /\ touched' = [touched EXCEPT ![t] = touched[t] \cup {k}]
    BY <1>3 DEF Access
  <2>2. touched[t] \cup {k} \in SUBSET Indices
    BY <1>1
  <2> QED
    BY <1>1, <1>3, <2>1, <2>2 DEF Step, Moves
<1> QED
  BY <1>2, <1>3

\* Threads that are not inside a pass over the buffer may move freely.
LEMMA TouchedKept ==
    ASSUME NEW WL, NEW RL, ThreadTypeOK(WL, RL), TouchedInPass,
           NEW t \in Threads, NEW from, NEW to, Moves(t, from, to),
           from \notin {"w_store", "r_load"}, UNCHANGED touched
    PROVE  TouchedInPass' /\ touched[t] = {}
BY DEF ThreadTypeOK, TouchedInPass, Moves

-----------------------------------------------------------------------------
(***************************************************************************)
(* The buffer                                                              *)
(***************************************************************************)
\* A step that makes no access to the buffer keeps what is known of it.
LEMMA WholeKept ==
    ASSUME NEW WL, NEW RL, ThreadTypeOK(WL, RL), TouchedInPass, WritesWhole,
           NEW t \in Threads, NEW from, NEW to, Moves(t, from, to),
           from \notin {"w_store", "r_load"}, UNCHANGED <<buffer, touched>>
    PROVE  WritesWhole'
<1>1. touched[t] = {}
  BY TouchedKept
<1>2. t \notin At({"w_store"})
  BY DEF At, Moves
<1>3. At({"w_store"})' = At({"w_store"}) \cup (IF to = "w_store" THEN {t} ELSE {})
  BY <1>2, MoveAt
<1> QED
  BY <1>1, <1>3 DEF WritesWhole

\* A store keeps the buffer whole when no other writer is at its stores.
LEMMA StoreStep ==
    ASSUME NEW WL, NEW RL, ThreadTypeOK(WL, RL), TouchedInPass, WritesWhole,
           NEW w \in Writers, NEW k \in Indices, NEW to, Store(w, k, to),
           Proper(w, to, WL, RL), Proper(w, "w_store", WL, RL), to \notin {"w_store", "r_load"},
           At({"w_store"}) \subseteq {w}
    PROVE  ThreadTypeOK(WL, RL)' /\ TouchedInPass' /\ WritesWhole'
<1>1. w \in Threads /\ Access(w, k, "w_store", to) /\ buffer' = [buffer EXCEPT ![k] = w]
      /\ UNCHANGED <<i, b, stillWriting, misread>>
  BY DEF Store, Threads
<1>2. /\ main' = main /\ pc[w] = "w_store" /\ k \notin touched[w]
      /\ touched' \in [Threads -> SUBSET Indices]
      /\ \A s \in Threads \ {w} : touched'[s] = touched[s]
      /\ \/ /\ touched[w] \cup {k} = Indices
            /\ Moves(w, "w_store", to)
            /\ touched'[w] = {}
         \/ /\ touched[w] \cup {k} # Indices
            /\ Moves(w, "w_store", "w_store")
            /\ touched'[w] = touched[w] \cup {k}
  BY <1>1, AccessType
<1>3. buffer \in Pair /\ buffer' \in Pair /\ w \in Ids
  BY <1>1 DEF ThreadTypeOK, Pair, Ids
<1>4. buffer'[k] = w /\ \A j \in Indices \ {k} : buffer'[j] = buffer[j]
  BY <1>1, <1>3 DEF Pair
<1>5. pc \in [Threads -> WL \cup RL \cup {"unborn", "done"}]
  BY DEF ThreadTypeOK
<1>6. w \in At({"w_store"}) /\ \A j \in touched[w] : buffer[j] = w
  BY <1>1, <1>2 DEF At, WritesWhole
<1>7. touched[w] \subseteq Indices
  BY <1>1 DEF ThreadTypeOK
<1>8. CASE touched[w] \cup {k} = Indices /\ Moves(w, "w_store", to) /\ touched'[w] = {}
  <2>1. ThreadTypeOK(WL, RL)'
    BY <1>1, <1>2, <1>3, <1>8, MoveType DEF ThreadTypeOK, Moves
  <2>2. TouchedInPass'
    BY <1>1, <1>2, <1>5, <1>8 DEF TouchedInPass, Moves
  <2>3. At({"w_store"})' = {}
    BY <1>1, <1>6, <1>8, MoveAt
  <2>4. buffer'[0] = w /\ buffer'[1] = w
    BY <1>4, <1>6, <1>8 DEF Indices
  <2> QED
    BY <2>1, <2>2, <2>3, <2>4 DEF WritesWhole
<1>9. CASE /\ touched[w] \cup {k} # Indices /\ Moves(w, "w_store", "w_store")
           /\ touched'[w] = touched[w] \cup {k}
  <2>1. ThreadTypeOK(WL, RL)'
    BY <1>1, <1>2, <1>3, <1>9, MoveType DEF ThreadTypeOK, Moves
  <2>2. TouchedInPass'
    BY <1>1, <1>2, <1>5, <1>9 DEF TouchedInPass, Moves
  <2>3. At({"w_store"})' = {w}
    BY <1>1, <1>6, <1>9, MoveAt
  <2>4. \A j \in touched'[w] : buffer'[j] = w
    BY <1>4, <1>6, <1>7, <1>9
  <2> QED
    BY <2>1, <2>2, <2>3, <2>4 DEF WritesWhole
<1> QED
  BY <1>2, <1>8, <1>9

\* A load leaves the buffer as it is and copies one half of it.
LEMMA LoadStep ==
    ASSUME NEW WL, NEW RL, ThreadTypeOK(WL, RL), TouchedInPass, WritesWhole,
           NEW r \in Readers, NEW k \in Indices, Load(r, k),
           Proper(r, "r_load", WL, RL), Proper(r, "r_compare", WL, RL)
    PROVE  /\ ThreadTypeOK(WL, RL)' /\ TouchedInPass' /\ WritesWhole'
           /\ b'[r][k] = buffer[k]
           /\ \A j \in Indices \ {k} : b'[r][j] = b[r][j]
           /\ \A q \in Readers \ {r} : b'[q] = b[q]
<1>1. r \in Threads /\ Access(r, k, "r_load", "r_compare") /\ b' = [b EXCEPT ![r][k] = buffer[k]]
      /\ UNCHANGED <<i, buffer, stillWriting, misread>>
  BY DEF Load, Threads, sharedVars
<1>2. /\ main' = main /\ pc[r] = "r_load" /\ k \notin touched[r]
      /\ touched' \in [Threads -> SUBSET Indices]
      /\ \A s \in Threads \ {r} : touched'[s] = touched[s]
      /\ \/ /\ touched[r] \cup {k} = Indices
            /\ Moves(r, "r_load", "r_compare")
            /\ touched'[r] = {}
         \/ /\ touched[r] \cup {k} # Indices
            /\ Moves(r, "r_load", "r_load")
            /\ touched'[r] = touched[r] \cup {k}
  BY <1>1, AccessType
<1>3. buffer \in Pair /\ b \in [Readers -> Pair]
  BY DEF ThreadTypeOK
<1>4. /\ b' \in [Readers -> Pair] /\ b'[r][k] = buffer[k]
      /\ \A j \in Indices \ {k} : b'[r][j] = b[r][j]
      /\ \A q \in Readers \ {r} : b'[q] = b[q]
  BY <1>1, <1>3 DEF Pair
<1>5. pc \in [Threads -> WL \cup RL \cup {"unborn", "done"}]
  BY DEF ThreadTypeOK
<1>6. ThreadTypeOK(WL, RL)'
  BY <1>1, <1>2, <1>3, <1>4, MoveType DEF ThreadTypeOK, Moves
<1>7. TouchedInPass'
  BY <1>1, <1>2, <1>5 DEF TouchedInPass, Moves
<1>8. At({"w_store"})' = At({"w_store"}) /\ r \notin At({"w_store"})
  BY <1>1, <1>2, MoveAt
<1>9. WritesWhole'
  BY <1>1, <1>2, <1>8 DEF WritesWhole, At
<1> QED
  BY <1>4, <1>6, <1>7, <1>9

-----------------------------------------------------------------------------
(***************************************************************************)
(* The flag                                                                *)
(***************************************************************************)
\* A thread that has not ended may leave the flag alone or raise it.
LEMMA FlagKept ==
    ASSUME FlagCleared, NEW t \in Threads, NEW from, NEW to, Moves(t, from, to),
           from # "done", UNCHANGED main, stillWriting' \in {TRUE, stillWriting}
    PROVE  FlagCleared'
<1>1. CASE main \in {"joining readers", "returned"}
  <2>1. Writers \subseteq At({"done"}) /\ t \notin At({"done"})
    BY <1>1 DEF FlagCleared, At, Moves
  <2>2. At({"done"}) \subseteq At({"done"})'
    BY <2>1, MoveAt
  <2> QED
    BY <1>1, <2>1, <2>2 DEF FlagCleared
<1>2. CASE main \notin {"joining readers", "returned"}
  BY <1>2 DEF FlagCleared
<1> QED
  BY <1>1, <1>2

\* The steps of main() after the launch.
LEMMA MainKept ==
    ASSUME NEW WL, NEW RL, ThreadTypeOK(WL, RL), FlagCleared,
           CreateFails \/ ThreadsInitialized \/ WritersComplete \/ ReadersComplete
    PROVE  /\ ThreadTypeOK(WL, RL)' /\ FlagCleared'
           /\ UNCHANGED <<pc, i, touched, b, buffer, misread>>
<1>1. UNCHANGED <<pc, i, touched, b, buffer, misread>>
  BY DEF CreateFails, ThreadsInitialized, WritersComplete, ReadersComplete, MainMoves
<1>2. At({"done"})' = At({"done"})
  BY <1>1, StillAt
<1>3. ThreadTypeOK(WL, RL)'
  BY <1>1 DEF ThreadTypeOK, CreateFails, ThreadsInitialized, WritersComplete,
              ReadersComplete, MainMoves
<1>4. FlagCleared'
  BY <1>2 DEF FlagCleared, ThreadTypeOK, CreateFails, ThreadsInitialized, WritersComplete,
              ReadersComplete, MainMoves
<1> QED
  BY <1>1, <1>3, <1>4

\* The flag is up while a writer is between its creation and its end.
LEMMA FlagImplied == ASSUME FlagCleared PROVE FlagWhileWriting
BY DEF FlagCleared, FlagWhileWriting, At

-----------------------------------------------------------------------------
(***************************************************************************)
(* The accounting of the semaphores                                        *)
(***************************************************************************)

UpdatingLabels == {"r_inc", "r_if1", "r_first", "r_entered", "r_dec", "r_if0", "r_last", "r_left"}
CountedLabels  == {"r_if1", "r_first", "r_entered", "r_load", "r_compare", "r_leave", "r_dec"}
WritingLabels  == {"w_store", "w_post"}
ReadingLabels  == {"r_entered", "r_load", "r_compare", "r_leave", "r_dec", "r_if0", "r_last"}

\* The sets and counts of the accounting, by their labels.
LEMMA ByLabels ==
    /\ Updating = Count(UpdatingLabels) /\ Counted = Count(CountedLabels)
    /\ Writing = At(WritingLabels) /\ Cardinality(Writing) = Count(WritingLabels)
    /\ Reading = At(ReadingLabels)
    /\ Updating \in Nat /\ Counted \in Nat /\ Cardinality(Writing) \in Nat
    /\ Cardinality(Writing) = 0 <=> Writing = {}
BY CountType DEF Updating, Counted, Writing, Reading, UpdatingLabels, CountedLabels,
                 WritingLabels, ReadingLabels, Count

\* What one move of one thread does to them.
LEMMA MoveCounts ==
    ASSUME NEW t \in Threads, NEW from, NEW to, Moves(t, from, to)
    PROVE  /\ Updating' = Updating - One(from, UpdatingLabels) + One(to, UpdatingLabels)
           /\ Counted' = Counted - One(from, CountedLabels) + One(to, CountedLabels)
           /\ Cardinality(Writing)' =
                 Cardinality(Writing) - One(from, WritingLabels) + One(to, WritingLabels)
           /\ Reading' = (Reading \ {t}) \cup (IF to \in ReadingLabels THEN {t} ELSE {})
           /\ At({"r_last"})' = (At({"r_last"}) \ {t}) \cup (IF to = "r_last" THEN {t} ELSE {})
           /\ t \in Reading <=> from \in ReadingLabels
           /\ t \in At({"r_last"}) <=> from = "r_last"
           /\ (from \in ReadingLabels <=> to \in ReadingLabels) => Reading' = Reading
           /\ (from = "r_last" <=> to = "r_last") => At({"r_last"})' = At({"r_last"})
<1>1. /\ Count(UpdatingLabels)' =
            Count(UpdatingLabels) - One(from, UpdatingLabels) + One(to, UpdatingLabels)
      /\ Count(CountedLabels)' =
            Count(CountedLabels) - One(from, CountedLabels) + One(to, CountedLabels)
      /\ Count(WritingLabels)' =
            Count(WritingLabels) - One(from, WritingLabels) + One(to, WritingLabels)
  BY MoveAt
<1>2. /\ At(ReadingLabels)' =
            (At(ReadingLabels) \ {t}) \cup (IF to \in ReadingLabels THEN {t} ELSE {})
      /\ t \in At(ReadingLabels) <=> from \in ReadingLabels
  BY MoveAt
<1>3. /\ At({"r_last"})' = (At({"r_last"}) \ {t}) \cup (IF to \in {"r_last"} THEN {t} ELSE {})
      /\ t \in At({"r_last"}) <=> from \in {"r_last"}
  BY MoveAt
<1>4. /\ Updating' = Count(UpdatingLabels)' /\ Counted' = Count(CountedLabels)'
      /\ Cardinality(Writing)' = Count(WritingLabels)' /\ Reading' = At(ReadingLabels)'
  BY DEF Updating, Counted, Writing, Reading, UpdatingLabels, CountedLabels,
         WritingLabels, ReadingLabels, Count
<1>5. (from \in ReadingLabels <=> to \in ReadingLabels) => Reading' = Reading
  <2>1. CASE from \in ReadingLabels /\ to \in ReadingLabels
    BY <1>2, <1>4, <2>1, ByLabels
  <2>2. CASE from \notin ReadingLabels /\ to \notin ReadingLabels
    BY <1>2, <1>4, <2>2, ByLabels
  <2> QED
    BY <2>1, <2>2
<1>6. (from = "r_last" <=> to = "r_last") => At({"r_last"})' = At({"r_last"})
  <2>1. CASE from = "r_last" /\ to = "r_last"
    BY <1>3, <2>1
  <2>2. CASE from # "r_last" /\ to # "r_last"
    BY <1>3, <2>2
  <2> QED
    BY <2>1, <2>2
<1>7. /\ Updating' = Updating - One(from, UpdatingLabels) + One(to, UpdatingLabels)
      /\ Counted' = Counted - One(from, CountedLabels) + One(to, CountedLabels)
      /\ Cardinality(Writing)' =
            Cardinality(Writing) - One(from, WritingLabels) + One(to, WritingLabels)
  BY <1>1, <1>4, ByLabels
<1>8. /\ Reading' = (Reading \ {t}) \cup (IF to \in ReadingLabels THEN {t} ELSE {})
      /\ At({"r_last"})' = (At({"r_last"}) \ {t}) \cup (IF to = "r_last" THEN {t} ELSE {})
      /\ t \in Reading <=> from \in ReadingLabels
      /\ t \in At({"r_last"}) <=> from = "r_last"
  BY <1>2, <1>3, <1>4, ByLabels
<1> QED
  BY <1>5, <1>6, <1>7, <1>8

\* At most one reader is inside an update of readcount.
LEMMA UpdatingAlone ==
    ASSUME TypeOK, Accounting
    PROVE  \A s, t \in At(UpdatingLabels) : s = t
<1>1. Count(UpdatingLabels) <= 1
  BY ByLabels DEF Accounting, TypeOK
<1> QED
  BY <1>1, CountAtMostOne

\* A writer in its section is alone there.
LEMMA ExclusionHolds ==
    ASSUME TypeOK, Accounting
    PROVE  Exclusion
<1>1. Writing # {} => Reading = {}
  BY ByLabels DEF Accounting, TypeOK
<1>2. Count(WritingLabels) <= 1
  BY ByLabels DEF Accounting, TypeOK
<1>3. \A v, w \in Writing : v = w
  BY <1>2, CountAtMostOne, ByLabels
<1> QED
  BY <1>1, <1>3 DEF Exclusion

\* Readers that are counted and not waiting for the writers are reading; while
\* one reader updates readcount, no other reader waits for the writers.
LEMMA CountedAreReading ==
    ASSUME TypeOK, Accounting, NEW t \in At(UpdatingLabels), NEW s \in At(CountedLabels), s # t
    PROVE  s \in Reading
<1>1. s \notin At(UpdatingLabels)
  BY UpdatingAlone
<1> QED
  BY <1>1 DEF At, CountedLabels, UpdatingLabels, Reading

\* A reader that is counted, and is not the only one, has company.
LEMMA AnotherCounted ==
    ASSUME NEW t \in At(CountedLabels), Counted # 1
    PROVE  \E s \in At(CountedLabels) : s # t
<1> SUFFICES ASSUME At(CountedLabels) \subseteq {t} PROVE FALSE
  OBVIOUS
<1>1. At(CountedLabels) = {t}
  OBVIOUS
<1>2. Count(CountedLabels) = 1
  BY <1>1, FS_Singleton DEF Count
<1> QED
  BY <1>2, ByLabels

\* The part of the invariant that concerns the data.
DataInv == TouchedInPass /\ WritesWhole /\ LoadsCurrent /\ NoMisread /\ FlagCleared

LEMMA InitIndInv == Init => IndInv
<1> SUFFICES ASSUME Init PROVE IndInv
  OBVIOUS
<1>1. \A labels : "unborn" \notin labels => At(labels) = {} /\ Count(labels) = 0
  BY CountType DEF Init, ThreadInit, At
<1>2. /\ Updating = 0 /\ Counted = 0 /\ Cardinality(Writing) = 0
      /\ Reading = {} /\ At({"r_last"}) = {} /\ At({"r_load"}) = {}
      /\ At({"r_compare"}) = {} /\ At({"w_store"}) = {}
  BY <1>1, ByLabels DEF UpdatingLabels, CountedLabels, WritingLabels, ReadingLabels
<1>3. TypeOK
  <2>1. Empty \in Pair
    BY DEF Empty, Pair, Ids
  <2>2. i \in [Writers -> 0 .. WRITE_ACTIONS]
    BY LimitAssumption DEF Init, ThreadInit
  <2> QED
    BY <2>1, <2>2 DEF Init, ThreadInit, TypeOK, ThreadTypeOK, Threads, WriterLabels, ReaderLabels
<1>4. Accounting
  BY <1>2 DEF Init, Accounting
<1>5. TouchedInPass /\ WritesWhole /\ LoadsCurrent /\ NoMisread /\ FlagCleared
  BY <1>2 DEF Init, ThreadInit, TouchedInPass, WritesWhole, LoadsCurrent, NoMisread,
              FlagCleared, Empty, Indices
<1> QED
  BY <1>3, <1>4, <1>5 DEF IndInv
-----------------------------------------------------------------------------
(***************************************************************************)
(* Every step preserves the inductive invariant                            *)
(***************************************************************************)

\* Calls on the semaphores, and the other moves of a thread that leave the
\* buffer and the locals alone, keep what is known of the data.
LEMMA DataKept ==
    ASSUME IndInv, NEW t \in Threads, NEW from, NEW to, Moves(t, from, to), UNCHANGED main,
           UNCHANGED <<buffer, touched, b, misread>>, stillWriting' \in {TRUE, stillWriting},
           from \notin {"w_store", "r_load", "done"}, to # "r_compare"
    PROVE  DataInv'
<1>1. /\ ThreadTypeOK(WriterLabels, ReaderLabels) /\ TouchedInPass /\ WritesWhole
      /\ LoadsCurrent /\ FlagCleared
  BY DEF IndInv, TypeOK
<1>2. TouchedInPass' /\ touched[t] = {}
  BY <1>1, TouchedKept
<1>3. WritesWhole'
  BY <1>1, WholeKept
<1>4. LoadsCurrent'
  <2>1. /\ At({"r_load"})' \subseteq At({"r_load"}) \cup {t}
        /\ At({"r_compare"})' \subseteq At({"r_compare"})
    BY MoveAt
  <2> QED
    BY <1>1, <1>2, <2>1 DEF LoadsCurrent
<1>5. FlagCleared'
  BY <1>1, FlagKept
<1> QED
  BY <1>2, <1>3, <1>4, <1>5 DEF DataInv, IndInv, NoMisread

\* The labels of a thread decide whether it is a writer or a reader.
LEMMA Kind ==
    ASSUME TypeOK, NEW t \in Threads
    PROVE  /\ pc[t] \in WriterLabels => t \in Writers
           /\ pc[t] \in ReaderLabels => t \in Readers
           /\ pc = [s \in Threads |-> pc[s]]
BY DEF TypeOK, ThreadTypeOK, Threads

\* A synchronisation step keeps everything but, perhaps, the accounting.
LEMMA SyncKept ==
    ASSUME IndInv, NEW t \in Threads, NEW from, NEW to, SyncStep(t, from, to),
           Proper(t, to, WriterLabels, ReaderLabels),
           from \notin {"w_store", "r_load", "done"}, to # "r_compare"
    PROVE  /\ ThreadTypeOK(WriterLabels, ReaderLabels)' /\ DataInv'
           /\ Moves(t, from, to)
<1>1. ThreadTypeOK(WriterLabels, ReaderLabels)
  BY DEF IndInv, TypeOK
<1>2. Moves(t, from, to) /\ UNCHANGED <<main, buffer, touched, b, misread, stillWriting>>
  BY <1>1 DEF SyncStep, Step, Moves, sharedVars, ThreadTypeOK
<1>3. ThreadTypeOK(WriterLabels, ReaderLabels)'
  BY <1>1, SyncType
<1>4. DataInv'
  BY <1>2, DataKept
<1> QED
  BY <1>2, <1>3, <1>4

\* The calls on the semaphores and the updates of readcount, one by one.
LEMMA SyncSteps ==
    ASSUME IndInv, NEW t \in Threads,
           \/ WriterWait(t) \/ WriterPost(t) \/ ReaderWhile(t)
           \/ ReaderEnter(t) \/ ReaderIncrement(t) \/ ReaderTestsFirst(t) \/ ReaderFirst(t)
           \/ ReaderEntered(t) \/ ReaderLeave(t) \/ ReaderDecrement(t) \/ ReaderTestsLast(t)
           \/ ReaderLast(t) \/ ReaderLeft(t)
    PROVE  IndInv'
<1> USE DEF One, UpdatingLabels, CountedLabels, WritingLabels, ReadingLabels
<1>1. /\ TypeOK /\ ThreadTypeOK(WriterLabels, ReaderLabels) /\ Accounting
      /\ pc[t] \in WriterLabels => t \in Writers
      /\ pc[t] \in ReaderLabels => t \in Readers
  BY Kind DEF IndInv, TypeOK
<1>2. CASE WriterWait(t)
  <2>1. SyncStep(t, "w_wait", "w_store")
    BY <1>2 DEF WriterWait
  <2>2. t \in Writers
    BY <1>1, <2>1 DEF SyncStep, Step, WriterLabels, ReaderLabels
  <2>3. Proper(t, "w_store", WriterLabels, ReaderLabels)
    BY <2>2, ThreadAssumption DEF Proper, WriterLabels, ReaderLabels
  <2>4. /\ ThreadTypeOK(WriterLabels, ReaderLabels)' /\ DataInv'
        /\ Moves(t, "w_wait", "w_store")
    BY <2>1, <2>2, <2>3, SyncKept
  <2>5. /\ Updating' = Updating /\ Counted' = Counted
        /\ Cardinality(Writing)' = Cardinality(Writing) + 1
        /\ Reading' = Reading
        /\ At({"r_last"})' = At({"r_last"})
    BY <2>4, MoveCounts, ByLabels
  <2> QED
    BY <1>1, <1>2, <2>4, <2>5, ByLabels
       DEF IndInv, DataInv, TypeOK, Accounting, WriterWait, sem_wait
<1>3. CASE WriterPost(t)
  <2>1. SyncStep(t, "w_post", "w_flag")
    BY <1>3 DEF WriterPost
  <2>2. t \in Writers
    BY <1>1, <2>1 DEF SyncStep, Step, WriterLabels, ReaderLabels
  <2>3. Proper(t, "w_flag", WriterLabels, ReaderLabels)
    BY <2>2, ThreadAssumption DEF Proper, WriterLabels, ReaderLabels
  <2>4. /\ ThreadTypeOK(WriterLabels, ReaderLabels)' /\ DataInv'
        /\ Moves(t, "w_post", "w_flag")
    BY <2>1, <2>2, <2>3, SyncKept
  <2>5. /\ Updating' = Updating /\ Counted' = Counted
        /\ Cardinality(Writing)' = Cardinality(Writing) - 1
        /\ Reading' = Reading
        /\ At({"r_last"})' = At({"r_last"})
    BY <2>4, MoveCounts, ByLabels
  <2> QED
    BY <1>1, <1>3, <2>4, <2>5, ByLabels
       DEF IndInv, DataInv, TypeOK, Accounting, WriterPost, sem_post
<1>4. CASE ReaderWhile(t)
  <2> DEFINE next == IF stillWriting THEN "r_enter" ELSE "done"
  <2>1. SyncStep(t, "r_while", next)
    BY <1>4 DEF ReaderWhile, TestFlag
  <2>2. next \in {"r_enter", "done"}
    OBVIOUS
  <2>3. Proper(t, next, WriterLabels, ReaderLabels)
    BY <1>1, <2>1, <2>2, ThreadAssumption DEF SyncStep, Step, Proper, WriterLabels, ReaderLabels
  <2>4. /\ ThreadTypeOK(WriterLabels, ReaderLabels)' /\ DataInv'
        /\ Moves(t, "r_while", next)
    BY <2>1, <2>2, <2>3, SyncKept
  <2>5. /\ Updating' = Updating /\ Counted' = Counted
        /\ Cardinality(Writing)' = Cardinality(Writing)
        /\ Reading' = Reading /\ At({"r_last"})' = At({"r_last"})
    BY <2>2, <2>4, MoveCounts, ByLabels
  <2> QED
    BY <1>1, <1>4, <2>4, <2>5, ByLabels
       DEF IndInv, DataInv, TypeOK, Accounting, ReaderWhile, syncVars
<1>5. CASE ReaderEnter(t)
  <2>1. SyncStep(t, "r_enter", "r_inc")
    BY <1>5 DEF ReaderEnter, WaitUpdate
  <2>2. t \in Readers
    BY <1>1, <2>1 DEF SyncStep, Step, WriterLabels, ReaderLabels
  <2>3. Proper(t, "r_inc", WriterLabels, ReaderLabels)
    BY <2>2, ThreadAssumption DEF Proper, WriterLabels, ReaderLabels
  <2>4. /\ ThreadTypeOK(WriterLabels, ReaderLabels)' /\ DataInv'
        /\ Moves(t, "r_enter", "r_inc")
    BY <2>1, <2>2, <2>3, SyncKept
  <2>5. /\ Updating' = Updating + 1 /\ Counted' = Counted
        /\ Cardinality(Writing)' = Cardinality(Writing)
        /\ Reading' = Reading
        /\ At({"r_last"})' = At({"r_last"})
    BY <2>4, MoveCounts, ByLabels
  <2> QED
    BY <1>1, <1>5, <2>4, <2>5, ByLabels
       DEF IndInv, DataInv, TypeOK, Accounting, ReaderEnter, WaitUpdate, sem_wait
<1>6. CASE ReaderIncrement(t)
  <2>1. SyncStep(t, "r_inc", "r_if1")
    BY <1>6 DEF ReaderIncrement
  <2>2. t \in Readers
    BY <1>1, <2>1 DEF SyncStep, Step, WriterLabels, ReaderLabels
  <2>3. Proper(t, "r_if1", WriterLabels, ReaderLabels)
    BY <2>2, ThreadAssumption DEF Proper, WriterLabels, ReaderLabels
  <2>4. /\ ThreadTypeOK(WriterLabels, ReaderLabels)' /\ DataInv'
        /\ Moves(t, "r_inc", "r_if1")
    BY <2>1, <2>2, <2>3, SyncKept
  <2>5. readcount \in Nat /\ readcount' = readcount + 1 /\ UNCHANGED <<readcount_update, wsem>>
    BY <1>1, <1>6 DEF ReaderIncrement, TypeOK
  <2>6. At({"r_last"}) = {}
    <3>1. t \in At(UpdatingLabels) /\ t \notin At({"r_last"})
      BY <2>4, MoveAt
    <3>2. At({"r_last"}) \subseteq At(UpdatingLabels)
      BY DEF At
    <3> QED
      BY <1>1, <3>1, <3>2, UpdatingAlone
  <2>7. /\ Updating' = Updating /\ Counted' = Counted + 1
        /\ Cardinality(Writing)' = Cardinality(Writing)
        /\ Reading' = Reading /\ At({"r_last"})' = {}
    BY <2>4, <2>6, MoveCounts, ByLabels
  <2> QED
    BY <1>1, <2>4, <2>5, <2>7, ByLabels DEF IndInv, DataInv, TypeOK, Accounting
<1>13. CASE ReaderTestsFirst(t)
  <2> DEFINE next == IF readcount = 1 THEN "r_first" ELSE "r_entered"
  <2>1. SyncStep(t, "r_if1", next) /\ UNCHANGED <<readcount, readcount_update, wsem>>
    BY <1>13 DEF ReaderTestsFirst, syncVars
  <2>2. next \in {"r_first", "r_entered"}
    OBVIOUS
  <2>3. Proper(t, next, WriterLabels, ReaderLabels)
    BY <1>1, <2>1, <2>2, ThreadAssumption DEF SyncStep, Step, Proper, WriterLabels, ReaderLabels
  <2>4. /\ ThreadTypeOK(WriterLabels, ReaderLabels)' /\ DataInv'
        /\ Moves(t, "r_if1", next)
    BY <2>1, <2>2, <2>3, SyncKept
  <2>5. t \in At(UpdatingLabels) /\ t \in At(CountedLabels)
    BY <2>4, MoveAt
  <2>6. CASE readcount = 1
    <3>1. Moves(t, "r_if1", "r_first")
      BY <2>4, <2>6
    <3>2. /\ Updating' = Updating /\ Counted' = Counted
          /\ Cardinality(Writing)' = Cardinality(Writing)
          /\ Reading' = Reading /\ At({"r_last"})' = At({"r_last"})
      BY <3>1, MoveCounts, ByLabels
    <3> QED
      BY <1>1, <2>1, <2>4, <3>2, ByLabels DEF IndInv, DataInv, TypeOK, Accounting
  <2>7. CASE readcount # 1
    <3>1. Moves(t, "r_if1", "r_entered")
      BY <2>4, <2>7
    <3>2. /\ Updating' = Updating /\ Counted' = Counted
          /\ Cardinality(Writing)' = Cardinality(Writing)
          /\ Reading' = Reading \cup {t} /\ At({"r_last"})' = At({"r_last"})
      BY <3>1, MoveCounts, ByLabels
    <3>3. Reading # {}
      <4>1. Counted # 1
        BY <1>1, <2>7 DEF Accounting
      <4>2. PICK s \in At(CountedLabels) : s # t
        BY <2>5, <4>1, AnotherCounted
      <4> QED
        BY <1>1, <2>5, <4>2, CountedAreReading
    <3> QED
      BY <1>1, <2>1, <2>4, <3>2, <3>3, ByLabels DEF IndInv, DataInv, TypeOK, Accounting
  <2> QED
    BY <2>6, <2>7
<1>7. CASE ReaderFirst(t)
  <2>1. SyncStep(t, "r_first", "r_entered")
    BY <1>7 DEF ReaderFirst
  <2>2. t \in Readers
    BY <1>1, <2>1 DEF SyncStep, Step, WriterLabels, ReaderLabels
  <2>3. Proper(t, "r_entered", WriterLabels, ReaderLabels)
    BY <2>2, ThreadAssumption DEF Proper, WriterLabels, ReaderLabels
  <2>4. /\ ThreadTypeOK(WriterLabels, ReaderLabels)' /\ DataInv'
        /\ Moves(t, "r_first", "r_entered")
    BY <2>1, <2>2, <2>3, SyncKept
  <2>5. /\ Updating' = Updating /\ Counted' = Counted
        /\ Cardinality(Writing)' = Cardinality(Writing)
        /\ Reading' = Reading \cup {t}
        /\ At({"r_last"})' = At({"r_last"})
    BY <2>4, MoveCounts, ByLabels
  <2> QED
    BY <1>1, <1>7, <2>4, <2>5, ByLabels
       DEF IndInv, DataInv, TypeOK, Accounting, ReaderFirst, sem_wait
<1>8. CASE ReaderEntered(t)
  <2>1. SyncStep(t, "r_entered", "r_load")
    BY <1>8 DEF ReaderEntered, PostUpdate
  <2>2. t \in Readers
    BY <1>1, <2>1 DEF SyncStep, Step, WriterLabels, ReaderLabels
  <2>3. Proper(t, "r_load", WriterLabels, ReaderLabels)
    BY <2>2, ThreadAssumption DEF Proper, WriterLabels, ReaderLabels
  <2>4. /\ ThreadTypeOK(WriterLabels, ReaderLabels)' /\ DataInv'
        /\ Moves(t, "r_entered", "r_load")
    BY <2>1, <2>2, <2>3, SyncKept
  <2>5. /\ Updating' = Updating - 1 /\ Counted' = Counted
        /\ Cardinality(Writing)' = Cardinality(Writing)
        /\ Reading' = Reading
        /\ At({"r_last"})' = At({"r_last"})
    BY <2>4, MoveCounts, ByLabels
  <2> QED
    BY <1>1, <1>8, <2>4, <2>5, ByLabels
       DEF IndInv, DataInv, TypeOK, Accounting, ReaderEntered, PostUpdate, sem_post
<1>9. CASE ReaderLeave(t)
  <2>1. SyncStep(t, "r_leave", "r_dec")
    BY <1>9 DEF ReaderLeave, WaitUpdate
  <2>2. t \in Readers
    BY <1>1, <2>1 DEF SyncStep, Step, WriterLabels, ReaderLabels
  <2>3. Proper(t, "r_dec", WriterLabels, ReaderLabels)
    BY <2>2, ThreadAssumption DEF Proper, WriterLabels, ReaderLabels
  <2>4. /\ ThreadTypeOK(WriterLabels, ReaderLabels)' /\ DataInv'
        /\ Moves(t, "r_leave", "r_dec")
    BY <2>1, <2>2, <2>3, SyncKept
  <2>5. /\ Updating' = Updating + 1 /\ Counted' = Counted
        /\ Cardinality(Writing)' = Cardinality(Writing)
        /\ Reading' = Reading
        /\ At({"r_last"})' = At({"r_last"})
    BY <2>4, MoveCounts, ByLabels
  <2> QED
    BY <1>1, <1>9, <2>4, <2>5, ByLabels
       DEF IndInv, DataInv, TypeOK, Accounting, ReaderLeave, WaitUpdate, sem_wait
<1>10. CASE ReaderDecrement(t)
  <2>1. SyncStep(t, "r_dec", "r_if0")
    BY <1>10 DEF ReaderDecrement
  <2>2. t \in Readers
    BY <1>1, <2>1 DEF SyncStep, Step, WriterLabels, ReaderLabels
  <2>3. Proper(t, "r_if0", WriterLabels, ReaderLabels)
    BY <2>2, ThreadAssumption DEF Proper, WriterLabels, ReaderLabels
  <2>4. /\ ThreadTypeOK(WriterLabels, ReaderLabels)' /\ DataInv'
        /\ Moves(t, "r_dec", "r_if0")
    BY <2>1, <2>2, <2>3, SyncKept
  <2>5. readcount \in Nat /\ readcount' = readcount - 1 /\ UNCHANGED <<readcount_update, wsem>>
    BY <1>1, <1>10 DEF ReaderDecrement, TypeOK
  <2>6. At({"r_last"}) = {} /\ Counted > 0
    <3>1. t \in At(UpdatingLabels) /\ t \notin At({"r_last"}) /\ t \in At(CountedLabels)
      BY <2>4, MoveAt
    <3>2. At({"r_last"}) \subseteq At(UpdatingLabels)
      BY DEF At
    <3>3. Count(CountedLabels) # 0
      BY <3>1, CountType
    <3> QED
      BY <1>1, <3>1, <3>2, <3>3, UpdatingAlone, ByLabels
  <2>7. /\ Updating' = Updating /\ Counted' = Counted - 1
        /\ Cardinality(Writing)' = Cardinality(Writing)
        /\ Reading' = Reading /\ At({"r_last"})' = {}
    BY <2>4, <2>6, MoveCounts, ByLabels
  <2> QED
    BY <1>1, <2>4, <2>5, <2>6, <2>7, ByLabels DEF IndInv, DataInv, TypeOK, Accounting
<1>14. CASE ReaderTestsLast(t)
  <2> DEFINE next == IF readcount = 0 THEN "r_last" ELSE "r_left"
  <2>1. SyncStep(t, "r_if0", next) /\ UNCHANGED <<readcount, readcount_update, wsem>>
    BY <1>14 DEF ReaderTestsLast, syncVars
  <2>2. next \in {"r_last", "r_left"}
    OBVIOUS
  <2>3. Proper(t, next, WriterLabels, ReaderLabels)
    BY <1>1, <2>1, <2>2, ThreadAssumption DEF SyncStep, Step, Proper, WriterLabels, ReaderLabels
  <2>4. /\ ThreadTypeOK(WriterLabels, ReaderLabels)' /\ DataInv'
        /\ Moves(t, "r_if0", next)
    BY <2>1, <2>2, <2>3, SyncKept
  <2>5. t \in At(UpdatingLabels) /\ t \in Reading /\ t \notin At(CountedLabels)
    BY <2>4, MoveAt, MoveCounts
  <2>6. CASE readcount = 0
    <3>1. Moves(t, "r_if0", "r_last")
      BY <2>4, <2>6
    <3>2. /\ Updating' = Updating /\ Counted' = Counted
          /\ Cardinality(Writing)' = Cardinality(Writing)
          /\ Reading' = Reading
      BY <3>1, MoveCounts, ByLabels
    <3> QED
      BY <1>1, <2>1, <2>4, <2>6, <3>2, ByLabels DEF IndInv, DataInv, TypeOK, Accounting
  <2>7. CASE readcount # 0
    <3>1. Moves(t, "r_if0", "r_left")
      BY <2>4, <2>7
    <3>2. /\ Updating' = Updating /\ Counted' = Counted
          /\ Cardinality(Writing)' = Cardinality(Writing)
          /\ Reading' = Reading \ {t} /\ At({"r_last"})' = At({"r_last"})
      BY <3>1, MoveCounts, ByLabels
    <3>3. Reading \ {t} # {}
      <4>1. Count(CountedLabels) # 0
        BY <1>1, <2>7, ByLabels DEF Accounting
      <4>2. PICK s \in At(CountedLabels) : TRUE
        BY <4>1, CountType
      <4> QED
        BY <1>1, <2>5, <4>2, CountedAreReading
    <3> QED
      BY <1>1, <2>1, <2>4, <2>5, <3>2, <3>3, ByLabels DEF IndInv, DataInv, TypeOK, Accounting
  <2> QED
    BY <2>6, <2>7
<1>11. CASE ReaderLast(t)
  <2>1. SyncStep(t, "r_last", "r_left")
    BY <1>11 DEF ReaderLast
  <2>2. t \in Readers
    BY <1>1, <2>1 DEF SyncStep, Step, WriterLabels, ReaderLabels
  <2>3. Proper(t, "r_left", WriterLabels, ReaderLabels)
    BY <2>2, ThreadAssumption DEF Proper, WriterLabels, ReaderLabels
  <2>4. /\ ThreadTypeOK(WriterLabels, ReaderLabels)' /\ DataInv'
        /\ Moves(t, "r_last", "r_left")
    BY <2>1, <2>2, <2>3, SyncKept
  <2>5. /\ Updating' = Updating /\ Counted' = Counted
        /\ Cardinality(Writing)' = Cardinality(Writing)
        /\ Reading' = Reading \ {t} /\ At({"r_last"})' = At({"r_last"}) \ {t}
    BY <2>4, MoveCounts, ByLabels
  <2>6. Reading = {t} /\ t \in At({"r_last"})
    <3>1. t \in At({"r_last"}) /\ t \in At(UpdatingLabels) /\ t \in Reading
      BY <2>4, MoveAt, MoveCounts
    <3>2. At(CountedLabels) = {}
      BY <1>1, <3>1, CountType, ByLabels DEF Accounting
    <3>3. \A s \in Reading : s \in At(CountedLabels) \/ s \in At(UpdatingLabels)
      BY DEF Reading, At
    <3> QED
      BY <1>1, <3>1, <3>2, <3>3, UpdatingAlone
  <2> QED
    BY <1>1, <1>11, <2>4, <2>5, <2>6, ByLabels
       DEF IndInv, DataInv, TypeOK, Accounting, ReaderLast, sem_post
<1>12. CASE ReaderLeft(t)
  <2>1. SyncStep(t, "r_left", "r_while")
    BY <1>12 DEF ReaderLeft, PostUpdate
  <2>2. t \in Readers
    BY <1>1, <2>1 DEF SyncStep, Step, WriterLabels, ReaderLabels
  <2>3. Proper(t, "r_while", WriterLabels, ReaderLabels)
    BY <2>2, ThreadAssumption DEF Proper, WriterLabels, ReaderLabels
  <2>4. /\ ThreadTypeOK(WriterLabels, ReaderLabels)' /\ DataInv'
        /\ Moves(t, "r_left", "r_while")
    BY <2>1, <2>2, <2>3, SyncKept
  <2>5. /\ Updating' = Updating - 1 /\ Counted' = Counted
        /\ Cardinality(Writing)' = Cardinality(Writing)
        /\ Reading' = Reading
        /\ At({"r_last"})' = At({"r_last"})
    BY <2>4, MoveCounts, ByLabels
  <2> QED
    BY <1>1, <1>12, <2>4, <2>5, ByLabels
       DEF IndInv, DataInv, TypeOK, Accounting, ReaderLeft, PostUpdate, sem_post
<1> QED
  BY <1>2, <1>3, <1>4, <1>5, <1>6, <1>7, <1>8, <1>9, <1>10, <1>11, <1>12, <1>13, <1>14

\* A step that moves a thread inside one class of labels, or outside all of
\* them, keeps the accounting.
LEMMA AccountingKept ==
    ASSUME TypeOK, Accounting, NEW t \in Threads, NEW from, NEW to, Moves(t, from, to),
           UNCHANGED syncVars,
           \A labels \in {UpdatingLabels, CountedLabels, WritingLabels, ReadingLabels, {"r_last"}} :
              from \in labels <=> to \in labels
    PROVE  Accounting'
<1>1. /\ Updating' = Updating /\ Counted' = Counted
      /\ Cardinality(Writing)' = Cardinality(Writing)
      /\ Reading' = Reading /\ At({"r_last"})' = At({"r_last"})
  BY MoveCounts, ByLabels DEF One
<1> QED
  BY <1>1 DEF Accounting, syncVars

\* A store is made by the only thread in the section: no reader sees it.
LEMMA WriterStoreStep ==
    ASSUME IndInv, NEW w \in Writers, NEW k \in Indices, Store(w, k, "w_post"), UNCHANGED syncVars
    PROVE  IndInv'
<1>1. /\ TypeOK /\ ThreadTypeOK(WriterLabels, ReaderLabels) /\ Accounting /\ w \in Threads
      /\ TouchedInPass /\ WritesWhole /\ LoadsCurrent /\ NoMisread /\ FlagCleared
      /\ Access(w, k, "w_store", "w_post") /\ UNCHANGED <<b, stillWriting, misread>>
  BY DEF IndInv, TypeOK, Store, Threads
<1>2. main' = main /\ (Moves(w, "w_store", "w_post") \/ Moves(w, "w_store", "w_store"))
  BY <1>1, AccessType
<1>3. pc[w] = "w_store" /\ w \in Writing
  BY <1>1, <1>2 DEF Moves, Writing, At
<1>4. Reading = {} /\ At({"w_store"}) \subseteq {w}
  BY <1>1, <1>3, ExclusionHolds DEF Exclusion, Writing, At
<1>5. ThreadTypeOK(WriterLabels, ReaderLabels)' /\ TouchedInPass' /\ WritesWhole'
  <2>1. Proper(w, "w_post", WriterLabels, ReaderLabels) /\ Proper(w, "w_store", WriterLabels, ReaderLabels)
    BY ThreadAssumption DEF Proper, WriterLabels, ReaderLabels
  <2> QED
    BY <1>1, <1>4, <2>1, StoreStep
<1>6. Accounting'
  <2> USE DEF UpdatingLabels, CountedLabels, WritingLabels, ReadingLabels
  <2>1. CASE Moves(w, "w_store", "w_post")
    BY <1>1, <2>1, AccountingKept
  <2>2. CASE Moves(w, "w_store", "w_store")
    BY <1>1, <2>2, AccountingKept
  <2> QED
    BY <1>2, <2>1, <2>2
<1>7. LoadsCurrent'
  <2>1. At({"r_load"}) = {} /\ At({"r_compare"}) = {}
    BY <1>4 DEF Reading, At
  <2>2. At({"r_load"})' = {} /\ At({"r_compare"})' = {}
    BY <1>1, <1>2, <2>1, MoveAt
  <2> QED
    BY <2>2 DEF LoadsCurrent
<1>8. FlagCleared'
  BY <1>1, <1>2, FlagKept
<1> QED
  BY <1>1, <1>5, <1>6, <1>7, <1>8 DEF IndInv, TypeOK, NoMisread, syncVars

\* A load is made while no writer is in the section.
LEMMA ReaderLoadStep ==
    ASSUME IndInv, NEW r \in Readers, NEW k \in Indices, Load(r, k), UNCHANGED syncVars
    PROVE  IndInv'
<1>1. /\ TypeOK /\ ThreadTypeOK(WriterLabels, ReaderLabels) /\ Accounting /\ r \in Threads
      /\ TouchedInPass /\ WritesWhole /\ LoadsCurrent /\ NoMisread /\ FlagCleared
      /\ Access(r, k, "r_load", "r_compare") /\ UNCHANGED <<buffer, stillWriting, misread>>
  BY DEF IndInv, TypeOK, Load, Threads, sharedVars
<1>2. /\ main' = main /\ pc[r] = "r_load" /\ k \notin touched[r]
      /\ \A s \in Threads \ {r} : touched'[s] = touched[s]
      /\ \/ touched[r] \cup {k} = Indices /\ Moves(r, "r_load", "r_compare") /\ touched'[r] = {}
         \/ Moves(r, "r_load", "r_load") /\ touched'[r] = touched[r] \cup {k}
  BY <1>1, AccessType
<1>3. /\ ThreadTypeOK(WriterLabels, ReaderLabels)' /\ TouchedInPass' /\ WritesWhole'
      /\ b'[r][k] = buffer[k]
      /\ \A j \in Indices \ {k} : b'[r][j] = b[r][j]
      /\ \A q \in Readers \ {r} : b'[q] = b[q]
  <2>1. Proper(r, "r_load", WriterLabels, ReaderLabels) /\ Proper(r, "r_compare", WriterLabels, ReaderLabels)
    BY ThreadAssumption DEF Proper, WriterLabels, ReaderLabels
  <2> QED
    BY <1>1, <2>1, LoadStep
<1>4. r \in At({"r_load"}) /\ \A j \in touched[r] : b[r][j] = buffer[j]
  BY <1>1, <1>2 DEF LoadsCurrent, At
<1>5. \A q \in At({"r_load"}) \cup At({"r_compare"}) : q \in Readers
  BY <1>1 DEF At, TypeOK, ThreadTypeOK, Threads, ReaderLabels
<1>6. Accounting'
  <2> USE DEF UpdatingLabels, CountedLabels, WritingLabels, ReadingLabels
  <2>1. CASE Moves(r, "r_load", "r_compare")
    BY <1>1, <2>1, AccountingKept
  <2>2. CASE Moves(r, "r_load", "r_load")
    BY <1>1, <2>2, AccountingKept
  <2> QED
    BY <1>2, <2>1, <2>2
<1>7. LoadsCurrent'
  <2>1. CASE touched[r] \cup {k} = Indices /\ Moves(r, "r_load", "r_compare") /\ touched'[r] = {}
    <3>1. /\ At({"r_load"})' = At({"r_load"}) \ {r}
          /\ At({"r_compare"})' = At({"r_compare"}) \cup {r}
      <4>1. r \notin At({"r_compare"})
        BY <1>1, <2>1, MoveAt
      <4> QED
        BY <1>1, <2>1, <4>1, MoveAt
    <3>2. b'[r] = buffer
      <4>1. b'[r][0] = buffer[0] /\ b'[r][1] = buffer[1]
        BY <1>3, <1>4, <2>1 DEF Indices
      <4>2. b'[r] \in Pair /\ buffer \in Pair
        BY <1>1, <1>3 DEF ThreadTypeOK
      <4> QED
        BY <4>1, <4>2 DEF Pair, Indices
    <3> QED
      BY <1>1, <1>2, <1>3, <1>5, <3>1, <3>2 DEF LoadsCurrent, At
  <2>2. CASE Moves(r, "r_load", "r_load") /\ touched'[r] = touched[r] \cup {k}
    <3>1. At({"r_load"})' = At({"r_load"}) /\ At({"r_compare"})' = At({"r_compare"})
      BY <1>1, <2>2, MoveAt
    <3>2. \A j \in touched'[r] : b'[r][j] = buffer[j]
      BY <1>1, <1>3, <1>4, <2>2 DEF ThreadTypeOK
    <3>3. r \notin At({"r_compare"})
      BY <1>2 DEF At
    <3> QED
      BY <1>1, <1>2, <1>3, <1>5, <3>1, <3>2, <3>3 DEF LoadsCurrent, At
  <2> QED
    BY <1>2, <2>1, <2>2
<1>8. FlagCleared'
  BY <1>1, <1>2, FlagKept
<1> QED
  BY <1>1, <1>3, <1>6, <1>7, <1>8 DEF IndInv, TypeOK, NoMisread, syncVars

\* The two values compared come from one write, as no writer is in the section.
LEMMA ReaderCompareStep ==
    ASSUME IndInv, NEW r \in Readers, Compare(r, "r_leave"), UNCHANGED syncVars
    PROVE  IndInv'
<1>1. /\ TypeOK /\ ThreadTypeOK(WriterLabels, ReaderLabels) /\ Accounting /\ r \in Threads
      /\ TouchedInPass /\ WritesWhole /\ LoadsCurrent /\ NoMisread /\ FlagCleared
      /\ main' = main /\ pc[r] = "r_compare" /\ pc' = [pc EXCEPT ![r] = "r_leave"]
      /\ misread' = (misread \/ b[r][0] # b[r][1]) /\ b' = [b EXCEPT ![r] = Empty]
      /\ UNCHANGED <<i, touched, buffer, stillWriting>>
  BY DEF IndInv, TypeOK, Compare, Step, Threads
<1>2. Moves(r, "r_compare", "r_leave")
  BY <1>1 DEF Moves, ThreadTypeOK
<1>3. buffer[0] = buffer[1] /\ b[r] = buffer
  <2>1. r \in At({"r_compare"}) /\ r \in Reading
    BY <1>1 DEF At, Reading
  <2>2. At({"w_store"}) = {}
    BY <1>1, <2>1, ExclusionHolds DEF Exclusion, Writing, At
  <2> QED
    BY <1>1, <2>1, <2>2 DEF WritesWhole, LoadsCurrent
<1>4. misread = FALSE /\ misread' = FALSE
  BY <1>1, <1>3 DEF NoMisread, ThreadTypeOK
<1>5. b' \in [Readers -> Pair]
  <2>1. Empty \in Pair
    BY DEF Empty, Pair, Ids
  <2> QED
    BY <1>1, <2>1 DEF ThreadTypeOK
<1>6. ThreadTypeOK(WriterLabels, ReaderLabels)'
  <2>1. Proper(r, "r_leave", WriterLabels, ReaderLabels)
    BY ThreadAssumption DEF Proper, WriterLabels, ReaderLabels
  <2> QED
    BY <1>1, <1>4, <1>5, <2>1, MoveType DEF ThreadTypeOK
<1>7. TouchedInPass' /\ WritesWhole'
  BY <1>1, <1>2, TouchedKept, WholeKept
<1>8. Accounting'
  BY <1>1, <1>2, AccountingKept
     DEF UpdatingLabels, CountedLabels, WritingLabels, ReadingLabels
<1>9. LoadsCurrent'
  <2>1. At({"r_load"})' = At({"r_load"}) /\ At({"r_compare"})' = At({"r_compare"}) \ {r}
    <3>1. At({"r_load"})' = At({"r_load"})
      BY <1>1, <1>2, MoveAt
    <3>2. At({"r_compare"})' = At({"r_compare"}) \ {r}
      BY <1>1, <1>2, MoveAt
    <3> QED
      BY <3>1, <3>2
  <2>2. r \notin At({"r_load"})
    BY <1>1 DEF At
  <2>3. \A q \in Readers \ {r} : b'[q] = b[q]
    BY <1>1 DEF ThreadTypeOK
  <2>4. \A q \in At({"r_load"}) \cup At({"r_compare"}) : q \in Readers
    BY <1>1 DEF At, TypeOK, ThreadTypeOK, Threads, ReaderLabels
  <2> QED
    BY <1>1, <2>1, <2>2, <2>3, <2>4 DEF LoadsCurrent
<1>10. FlagCleared'
  BY <1>1, <1>2, FlagKept
<1> QED
  BY <1>1, <1>4, <1>6, <1>7, <1>8, <1>9, <1>10 DEF IndInv, TypeOK, NoMisread, syncVars

\* The writer's loop ends or goes round.
LEMMA WriterFlagStep ==
    ASSUME IndInv, NEW w \in Writers, RaiseFlag(w, "w_wait", "done"), UNCHANGED syncVars
    PROVE  IndInv'
<1> DEFINE next == IF i[w] + 1 < WRITE_ACTIONS THEN "w_wait" ELSE "done"
<1>1. /\ TypeOK /\ ThreadTypeOK(WriterLabels, ReaderLabels) /\ Accounting /\ w \in Threads
      /\ main' = main /\ pc[w] = "w_flag" /\ pc' = [pc EXCEPT ![w] = next]
      /\ i' = [i EXCEPT ![w] = i[w] + 1] /\ stillWriting' = TRUE
      /\ UNCHANGED <<touched, b, buffer, misread>>
  BY DEF IndInv, TypeOK, RaiseFlag, Step, Threads
<1>2. next \in {"w_wait", "done"}
  OBVIOUS
<1> HIDE DEF next
<1>3. Moves(w, "w_flag", next) /\ i' \in [Writers -> Nat]
  <2>1. Moves(w, "w_flag", next)
    BY <1>1 DEF Moves, ThreadTypeOK
  <2>2. i \in [Writers -> Nat] /\ i' = [i EXCEPT ![w] = i[w] + 1]
    BY <1>1 DEF ThreadTypeOK
  <2>3. i' \in [Writers -> Nat]
    BY <2>2
  <2> QED
    BY <2>1, <2>3
<1>4. ThreadTypeOK(WriterLabels, ReaderLabels)'
  <2>1. Proper(w, next, WriterLabels, ReaderLabels)
    BY <1>2, ThreadAssumption DEF Proper, WriterLabels, ReaderLabels
  <2> QED
    BY <1>1, <1>3, <2>1, MoveType DEF ThreadTypeOK
<1>5. DataInv'
  BY <1>1, <1>2, <1>3, DataKept
<1>6. Accounting'
  BY <1>1, <1>2, <1>3, AccountingKept
     DEF UpdatingLabels, CountedLabels, WritingLabels, ReadingLabels
<1> QED
  BY <1>1, <1>4, <1>5, <1>6 DEF IndInv, DataInv, TypeOK, syncVars

\* A new thread is outside every section.
LEMMA CreateStep ==
    ASSUME IndInv, NEW t \in Threads, NEW entry, Create(t, entry), UNCHANGED syncVars,
           \/ t \in Writers /\ entry = "w_wait"
           \/ t \in Readers /\ entry = "r_while"
    PROVE  IndInv'
<1>1. /\ TypeOK /\ ThreadTypeOK(WriterLabels, ReaderLabels) /\ Accounting
      /\ SyncStep(t, "unborn", entry)
  BY DEF IndInv, TypeOK, Create, SyncStep, Step
<1>2. Proper(t, entry, WriterLabels, ReaderLabels)
  BY ThreadAssumption DEF Proper, WriterLabels, ReaderLabels
<1>3. ThreadTypeOK(WriterLabels, ReaderLabels)' /\ DataInv' /\ Moves(t, "unborn", entry)
  BY <1>1, <1>2, SyncKept
<1>4. Accounting'
  BY <1>1, <1>3, AccountingKept
     DEF UpdatingLabels, CountedLabels, WritingLabels, ReadingLabels
<1> QED
  BY <1>1, <1>3, <1>4 DEF IndInv, DataInv, TypeOK, syncVars

\* The other steps of main(), and stuttering, move no thread.
LEMMA StillStep ==
    ASSUME IndInv, UNCHANGED <<pc, touched, b, buffer, misread, syncVars>>,
           ThreadTypeOK(WriterLabels, ReaderLabels)', FlagCleared'
    PROVE  IndInv'
<1>1. \A labels : At(labels)' = At(labels) /\ Count(labels)' = Count(labels)
  BY StillAt
<1>2. Accounting'
  <2>1. /\ Updating' = Updating /\ Counted' = Counted
        /\ Writing' = Writing /\ Reading' = Reading
    BY <1>1 DEF Updating, Counted, Writing, Reading
  <2> QED
    BY <1>1, <2>1 DEF IndInv, Accounting, syncVars
<1>3. TouchedInPass' /\ WritesWhole' /\ LoadsCurrent' /\ NoMisread'
  BY <1>1 DEF IndInv, TouchedInPass, WritesWhole, LoadsCurrent, NoMisread
<1> QED
  BY <1>2, <1>3 DEF IndInv, TypeOK, syncVars

\* One step per disjunct of Next.
LEMMA NextIndInv == IndInv /\ [Next]_vars => IndInv'
<1> SUFFICES ASSUME IndInv, [Next]_vars PROVE IndInv'
  OBVIOUS
<1>1. ThreadTypeOK(WriterLabels, ReaderLabels) /\ FlagCleared
  BY DEF IndInv, TypeOK
<1>2. ASSUME NEW w \in Writers, writer(w) PROVE IndInv'
  <2>1. w \in Threads
    BY DEF Threads
  <2>2. CASE WriterWait(w) \/ WriterPost(w)
    BY <2>1, <2>2, SyncSteps
  <2>3. CASE WriterStore(w)
    BY <2>3, WriterStoreStep DEF WriterStore
  <2>4. CASE WriterFlag(w)
    BY <2>4, WriterFlagStep DEF WriterFlag
  <2> QED
    BY <1>2, <2>2, <2>3, <2>4 DEF writer
<1>3. ASSUME NEW r \in Readers, reader(r) PROVE IndInv'
  <2>1. r \in Threads
    BY DEF Threads
  <2>2. CASE \/ ReaderWhile(r) \/ ReaderEnter(r) \/ ReaderIncrement(r) \/ ReaderFirst(r)
             \/ ReaderEntered(r) \/ ReaderLeave(r) \/ ReaderDecrement(r) \/ ReaderLast(r)
             \/ ReaderLeft(r) \/ ReaderTestsFirst(r) \/ ReaderTestsLast(r)
    BY <2>1, <2>2, SyncSteps
  <2>3. CASE ReaderLoad(r)
    BY <2>3, ReaderLoadStep DEF ReaderLoad
  <2>4. CASE ReaderCompare(r)
    BY <2>4, ReaderCompareStep DEF ReaderCompare
  <2> QED
    BY <1>3, <2>2, <2>3, <2>4 DEF reader
<1>4. CASE Launch("w_wait") /\ UNCHANGED syncVars
  <2>1. ASSUME NEW w \in Writers, Create(w, "w_wait") PROVE IndInv'
    BY <1>4, <2>1, CreateStep DEF Threads
  <2>2. ASSUME NEW r \in Readers, Create(r, "r_while") PROVE IndInv'
    BY <1>4, <2>2, CreateStep DEF Threads
  <2> QED
    BY <1>4, <2>1, <2>2 DEF Launch
<1>5. CASE /\ CreateFails \/ ThreadsInitialized \/ WritersComplete \/ ReadersComplete
           /\ UNCHANGED syncVars
  <2>1. /\ ThreadTypeOK(WriterLabels, ReaderLabels)' /\ FlagCleared'
        /\ UNCHANGED <<pc, i, touched, b, buffer, misread>>
    BY <1>1, <1>5, MainKept
  <2> QED
    BY <1>5, <2>1, StillStep
<1>6. CASE UNCHANGED vars
  <2>1. UNCHANGED <<main, pc, i, touched, b, buffer, stillWriting, misread, syncVars>>
    BY <1>6 DEF vars, threadVars, sharedVars
  <2>2. ThreadTypeOK(WriterLabels, ReaderLabels)' /\ FlagCleared'
    <3>1. At({"done"})' = At({"done"})
      BY <2>1, StillAt
    <3> QED
      BY <1>1, <2>1, <3>1 DEF ThreadTypeOK, FlagCleared
  <2> QED
    BY <2>1, <2>2, StillStep
<1> QED
  BY <1>2, <1>3, <1>4, <1>5, <1>6 DEF Next, mainProgress

-----------------------------------------------------------------------------
(***************************************************************************)
(* Some thread can always go on                                            *)
(***************************************************************************)
\* main() joins no thread that it has not created.
AllLaunched == main \in {"joining writers", "joining readers", "returned"} => At({"unborn"}) = {}

WaitInv == FirstAlone /\ AllLaunched

\* A thread creates no other one; readcount is 1 when its step leads to r_first, and
\* only those that hold readcount_update change it.
LEMMA ThreadMoves ==
    ASSUME TypeOK, NEW t \in Threads, writer(t) \/ reader(t)
    PROVE  \E from, to :
              /\ Moves(t, from, to) /\ main' = main /\ to # "unborn"
              /\ to = "r_first" => readcount' = 1
              /\ readcount' = readcount \/ from \in UpdatingLabels
<1> USE DEF Step, SyncStep, syncVars
<1>1. /\ pc = [s \in Threads |-> pc[s]] /\ readcount \in Nat
  BY DEF TypeOK, ThreadTypeOK
<1>2. CASE WriterWait(t) \/ WriterPost(t) \/ ReaderEnter(t) \/ ReaderFirst(t) \/ ReaderEntered(t)
           \/ ReaderLeave(t) \/ ReaderLast(t) \/ ReaderLeft(t)
  BY <1>1, <1>2 DEF Moves, WriterWait, WriterPost, ReaderEnter, ReaderFirst, ReaderEntered,
                    ReaderLeave, ReaderLast, ReaderLeft, WaitUpdate, PostUpdate
<1>3. CASE ReaderIncrement(t) \/ ReaderDecrement(t) \/ ReaderTestsFirst(t) \/ ReaderTestsLast(t)
  BY <1>1, <1>3 DEF Moves, ReaderIncrement, ReaderDecrement, ReaderTestsFirst, ReaderTestsLast,
                    UpdatingLabels
<1>4. CASE WriterFlag(t) \/ ReaderWhile(t) \/ ReaderCompare(t)
  BY <1>1, <1>4 DEF Moves, WriterFlag, RaiseFlag, ReaderWhile, TestFlag, ReaderCompare, Compare
<1>5. CASE WriterStore(t)
  <2>1. PICK k \in Indices : Store(t, k, "w_post") /\ UNCHANGED syncVars
    BY <1>5 DEF WriterStore
  <2> QED
    BY <1>1, <2>1 DEF Moves, Store, Access
<1>6. CASE ReaderLoad(t)
  <2>1. PICK k \in Indices : Load(t, k) /\ UNCHANGED syncVars
    BY <1>6 DEF ReaderLoad
  <2> QED
    BY <1>1, <2>1 DEF Moves, Load, Access
<1> QED
  BY <1>2, <1>3, <1>4, <1>5, <1>6 DEF writer, reader

LEMMA NextWaitInv == IndInv /\ WaitInv /\ [Next]_vars => WaitInv'
<1> SUFFICES ASSUME IndInv, WaitInv, [Next]_vars PROVE WaitInv'
  OBVIOUS
<1>1. TypeOK /\ Accounting /\ FirstAlone /\ AllLaunched
  BY DEF IndInv, WaitInv
<1>2. ASSUME NEW t \in Threads, writer(t) \/ reader(t) PROVE WaitInv'
  <2>1. PICK from, to : /\ Moves(t, from, to) /\ main' = main /\ to # "unborn"
                        /\ to = "r_first" => readcount' = 1
                        /\ readcount' = readcount \/ from \in UpdatingLabels
    BY <1>1, <1>2, ThreadMoves
  <2>2. \A labels : /\ t \in At(labels) <=> from \in labels
                    /\ At(labels)' = (At(labels) \ {t}) \cup (IF to \in labels THEN {t} ELSE {})
    BY <2>1, MoveAt
  <2>3. AllLaunched'
    <3>1. At({"unborn"})' \subseteq At({"unborn"})
      BY <2>1, <2>2
    <3> QED
      BY <1>1, <2>1, <3>1 DEF AllLaunched
  <2>4. FirstAlone'
    <3> SUFFICES ASSUME NEW s \in At({"r_first"})' PROVE readcount' = 1
      BY DEF FirstAlone
    <3>1. CASE to = "r_first"
      BY <2>1, <3>1
    <3>2. CASE to # "r_first"
      <4>1. s \in At({"r_first"}) /\ s # t
        BY <2>2, <3>2
      <4>2. s \in At(UpdatingLabels)
        BY <4>1 DEF At, UpdatingLabels
      <4>3. from \notin UpdatingLabels
        BY <1>1, <2>2, <4>1, <4>2, UpdatingAlone
      <4> QED
        BY <1>1, <2>1, <4>1, <4>3 DEF FirstAlone
    <3> QED
      BY <3>1, <3>2
  <2> QED
    BY <2>3, <2>4 DEF WaitInv
<1>3. ASSUME NEW t \in Threads, NEW entry \in {"w_wait", "r_while"}, Create(t, entry),
             UNCHANGED syncVars
      PROVE  WaitInv'
  <2>1. AllLaunched'
    BY <1>3 DEF Create, AllLaunched
  <2>2. At({"r_first"})' \subseteq At({"r_first"})
    BY <1>1, <1>3 DEF Create, At, TypeOK, ThreadTypeOK
  <2> QED
    BY <1>1, <1>3, <2>1, <2>2 DEF WaitInv, FirstAlone, syncVars
<1>4. CASE UNCHANGED <<pc, syncVars>> /\ (main' = main \/ main' = "failed"
                                            \/ main \in {"joining writers", "joining readers"}
                                            \/ At({"unborn"}) = {})
  BY <1>1, <1>4, StillAt DEF WaitInv, FirstAlone, AllLaunched, syncVars
<1>5. CASE mainProgress
  <2>1. CASE Launch("w_wait")
    BY <1>3, <1>5, <2>1 DEF mainProgress, Launch, Threads
  <2>2. CASE ThreadsInitialized \/ WritersComplete \/ ReadersComplete
    BY <1>4, <1>5, <2>2
       DEF mainProgress, ThreadsInitialized, WritersComplete, ReadersComplete, MainMoves
  <2> QED
    BY <1>5, <2>1, <2>2 DEF mainProgress
<1>6. CASE CreateFails /\ UNCHANGED syncVars
  BY <1>4, <1>6 DEF CreateFails, MainMoves
<1>7. CASE UNCHANGED vars
  BY <1>4, <1>7 DEF vars, threadVars
<1> QED
  BY <1>2, <1>5, <1>6, <1>7 DEF Next, Threads

\* The first reader waits for a writer only, as no other reader is counted; and when
\* there is no first reader, readcount_update is free.
LEMMA SomeUnblocked ==
    ASSUME IndInv, FirstAlone, At({"unborn"}) = {}, At({"done"}) # Threads
    PROVE  \E t \in Threads \ At({"unborn", "done"}) : ~ Blocked(t)
<1> SUFFICES ASSUME \A t \in Threads \ At({"unborn", "done"}) : Blocked(t)
             PROVE  FALSE
  OBVIOUS
<1>1. TypeOK /\ Accounting
  BY DEF IndInv
<1>2. \A t \in Threads : pc[t] = "done" \/ Blocked(t)
  BY <1>1 DEF At
<1>3. /\ Writing = {} /\ At({"r_inc", "r_if1", "r_entered"}) = {}
      /\ At({"r_load", "r_compare"}) = {} /\ At({"r_dec", "r_if0", "r_last", "r_left"}) = {}
  BY <1>2 DEF At, Blocked, Writing
<1>4. Reading = {} => wsem = 1
  <2>1. Cardinality(Writing) = 0
    BY <1>3, ByLabels
  <2> QED
    BY <1>1, <2>1 DEF Accounting, TypeOK
<1>5. CASE At({"r_first"}) # {}
  <2>1. readcount = 1
    BY <1>5 DEF FirstAlone
  <2>2. \A s, t \in At(CountedLabels) : s = t
    <3>1. Count(CountedLabels) <= 1
      <4>1. Count(CountedLabels) = 1
        BY ONLY <1>1, <2>1, ByLabels, Zenon DEF Accounting
      <4> QED
        BY <4>1
    <3> QED
      BY <3>1, CountAtMostOne
  <2>3. PICK r : r \in At({"r_first"}) /\ r \in Threads
    BY <1>5 DEF At
  <2>4. At({"r_leave"}) = {}
    <3>1. r \in At(CountedLabels) /\ At({"r_leave"}) \subseteq At(CountedLabels)
          /\ r \notin At({"r_leave"})
      BY <2>3 DEF At, CountedLabels
    <3> QED
      BY <2>2, <3>1
  <2>5. Reading = {}
    BY <1>3, <2>4 DEF At, Reading
  <2>6. wsem = 1
    BY <2>5, <1>4
  <2>7. pc[r] = "r_first" /\ Blocked(r)
    BY <1>2, <2>3 DEF At
  <2> QED
    BY <2>6, <2>7 DEF Blocked
<1>6. CASE At({"r_first"}) = {}
  <2>1. At(UpdatingLabels) = {}
    BY <1>3, <1>6 DEF At, UpdatingLabels
  <2>2. readcount_update = 1
    <3>1. Count(UpdatingLabels) = 0
      BY <2>1, CountType
    <3> QED
      BY <1>1, <3>1, ByLabels DEF Accounting, TypeOK
  <2>3. At({"r_enter", "r_leave"}) = {}
    BY <1>2, <2>2 DEF At, Blocked
  <2>4. Reading = {}
    BY <1>3, <2>3 DEF At, Reading
  <2>5. wsem = 1
    BY <2>4, <1>4
  <2>6. PICK t \in Threads : pc[t] # "done"
    BY DEF At
  <2> QED
    BY <1>2, <2>2, <2>5, <2>6 DEF Blocked
<1> QED
  BY <1>5, <1>6

LEMMA NotAllBlocked == IndInv /\ WaitInv => NoDeadlock
BY SomeUnblocked DEF WaitInv, AllLaunched, NoDeadlock

-----------------------------------------------------------------------------
(***************************************************************************)
(* The theorems                                                            *)
(***************************************************************************)
\* The inductive invariant holds in every state of the program.
THEOREM Invariance == Spec => []IndInv
<1>1. Init => IndInv
  BY InitIndInv
<1>2. IndInv /\ [Next]_vars => IndInv'
  BY NextIndInv
<1> QED
  BY <1>1, <1>2, PTL DEF Spec

\* Every variable keeps its type.
THEOREM TypeCorrectness == Spec => []TypeOK
<1>1. IndInv => TypeOK
  BY DEF IndInv
<1> QED
  BY <1>1, Invariance, PTL

\* wsem keeps a writer apart from the readers and from the other writers.
THEOREM Exclusive == Spec => []Exclusion
<1>1. IndInv => Exclusion
  BY ExclusionHolds DEF IndInv
<1> QED
  BY <1>1, Invariance, PTL

\* The semaphores and readcount agree with what the threads are doing.
THEOREM Accounted == Spec => []Accounting
<1>1. IndInv => Accounting
  BY DEF IndInv
<1> QED
  BY <1>1, Invariance, PTL

\* "Error reading buffer" is never printed.
THEOREM ReadsSucceed == Spec => []NoMisread
<1>1. IndInv => NoMisread
  BY DEF IndInv
<1> QED
  BY <1>1, Invariance, PTL

\* No reader is told that writing has finished while a writer is active.
THEOREM FlagTruthful == Spec => []FlagWhileWriting
<1>1. IndInv => FlagWhileWriting
  BY FlagImplied DEF IndInv
<1> QED
  BY <1>1, Invariance, PTL

\* The threads that main() waits for never all sleep on the two semaphores, whatever
\* the numbers of readers, writers and passes.
THEOREM DeadlockFree == Spec => []NoDeadlock
<1>1. Init => WaitInv
  BY DEF Init, ThreadInit, WaitInv, FirstAlone, AllLaunched, At
<1> QED
  BY <1>1, Invariance, NextWaitInv, NotAllBlocked, PTL DEF Spec

-----------------------------------------------------------------------------
(***************************************************************************)
(* The buffer implements the register of AtomicPair                        *)
(***************************************************************************)
\* The variables of the register, seen through the mapping.
View == <<Latest, [r \in Readers |-> ReadOf(r)], misread>>

\* A step that makes no access to the buffer and ends no comparison is not seen.
LEMMA ViewKept ==
    ASSUME UNCHANGED <<buffer, misread>>, Storing' = Storing,
           \A r \in Readers : ReadOf(r)' = ReadOf(r)
    PROVE  UNCHANGED View
BY DEF View, Latest

LEMMA MoveView ==
    ASSUME IndInv, NEW t \in Threads, NEW from, NEW to, Moves(t, from, to),
           UNCHANGED <<buffer, touched, b, misread>>,
           from \notin {"w_store", "r_load", "r_compare"}, to # "r_compare"
    PROVE  UNCHANGED View
<1>1. touched[t] = {}
  BY DEF IndInv, TouchedInPass, Moves
<1>2. Storing' = Storing
  <2>1. At({"w_store"})' = At({"w_store"}) \cup (IF to = "w_store" THEN {t} ELSE {})
    <3>1. t \notin At({"w_store"})
      BY DEF At, Moves
    <3> QED
      BY <3>1, MoveAt
  <2> QED
    BY <1>1, <2>1 DEF Storing
<1>3. \A r \in Readers : ReadOf(r)' = ReadOf(r)
  BY DEF ReadOf, Moves, Threads
<1> QED
  BY <1>2, <1>3, ViewKept

\* The synchronisation calls are not seen.
LEMMA SyncView ==
    ASSUME IndInv, NEW t \in Threads,
           \/ WriterWait(t) \/ WriterPost(t) \/ ReaderWhile(t)
           \/ ReaderEnter(t) \/ ReaderIncrement(t) \/ ReaderTestsFirst(t) \/ ReaderFirst(t)
           \/ ReaderEntered(t) \/ ReaderLeave(t) \/ ReaderDecrement(t) \/ ReaderTestsLast(t)
           \/ ReaderLast(t) \/ ReaderLeft(t)
    PROVE  UNCHANGED View
<1>1. PICK from, to : /\ SyncStep(t, from, to)
                      /\ from \notin {"w_store", "r_load", "r_compare"} /\ to # "r_compare"
  BY DEF WriterWait, WriterPost, ReaderWhile, TestFlag, ReaderEnter, WaitUpdate, ReaderIncrement,
         ReaderTestsFirst, ReaderFirst, ReaderEntered, PostUpdate, ReaderLeave, ReaderDecrement,
         ReaderTestsLast, ReaderLast, ReaderLeft
<1>2. Moves(t, from, to) /\ UNCHANGED <<buffer, touched, b, misread>>
  BY <1>1 DEF SyncStep, Step, Moves, sharedVars, IndInv, TypeOK, ThreadTypeOK
<1> QED
  BY <1>1, <1>2, MoveView

\* The first store of a write is Write, the second is not seen.
LEMMA StoreView ==
    ASSUME IndInv, NEW w \in Writers, NEW k \in Indices, Store(w, k, "w_post")
    PROVE  [Register!Next]_View
<1>1. /\ TypeOK /\ ThreadTypeOK(WriterLabels, ReaderLabels) /\ Accounting /\ w \in Threads
      /\ WritesWhole /\ Access(w, k, "w_store", "w_post")
      /\ UNCHANGED <<b, misread>> /\ buffer' = [buffer EXCEPT ![k] = w] /\ buffer \in Pair
  BY DEF IndInv, TypeOK, ThreadTypeOK, Store, Threads
<1>2. /\ pc[w] = "w_store"
      /\ \/ touched[w] \cup {k} = Indices /\ Moves(w, "w_store", "w_post") /\ touched'[w] = {}
         \/ /\ touched[w] \cup {k} # Indices
            /\ Moves(w, "w_store", "w_store") /\ touched'[w] = touched[w] \cup {k}
  BY <1>1, AccessType
<1>3. At({"w_store"}) = {w}
  <2>1. w \in At({"w_store"}) /\ w \in Writing
    BY <1>1, <1>2 DEF At, Writing
  <2>2. At({"w_store"}) \subseteq Writing
    BY DEF At, Writing
  <2> QED
    BY <1>1, <2>1, <2>2, ExclusionHolds DEF Exclusion
<1>4. \A r \in Readers : ReadOf(r)' = ReadOf(r)
  <2>1. \A r \in Readers : pc'[r] = pc[r]
    BY <1>1, <1>2, ThreadAssumption DEF Moves, Threads
  <2> QED
    BY <1>1, <2>1 DEF ReadOf
<1>5. Latest' = [j \in Indices |-> w]
  <2>1. CASE touched[w] \cup {k} = Indices /\ Moves(w, "w_store", "w_post") /\ touched'[w] = {}
    <3>1. At({"w_store"})' = {}
      BY <1>1, <1>3, <2>1, MoveAt
    <3>2. \A j \in Indices : j = k \/ buffer[j] = w
      BY <1>1, <1>3, <2>1 DEF WritesWhole
    <3>3. buffer' = [j \in Indices |-> w]
      BY <1>1, <3>2 DEF Pair
    <3> QED
      BY <3>1, <3>3 DEF Latest, Storing
  <2>2. CASE Moves(w, "w_store", "w_store") /\ touched'[w] = touched[w] \cup {k}
    <3>1. At({"w_store"})' = {w}
      BY <1>1, <1>3, <2>2, MoveAt
    <3> QED
      BY <2>2, <3>1 DEF Latest, Storing
  <2> QED
    BY <1>2, <2>1, <2>2
<1>6. Register!Write
  BY <1>1, <1>4, <1>5 DEF Register!Write, Register!Copies, Indices
<1> QED
  BY <1>6 DEF Register!Next

\* The second load of a read is Read, the first is not seen.
LEMMA LoadView ==
    ASSUME IndInv, NEW r \in Readers, NEW k \in Indices, Load(r, k), IndInv'
    PROVE  [Register!Next]_View
<1>1. /\ TypeOK /\ ThreadTypeOK(WriterLabels, ReaderLabels) /\ Accounting /\ r \in Threads
      /\ Access(r, k, "r_load", "r_compare") /\ UNCHANGED <<buffer, misread>>
      /\ b' = [b EXCEPT ![r][k] = buffer[k]] /\ b \in [Readers -> Pair]
  BY DEF IndInv, TypeOK, ThreadTypeOK, Load, Threads, sharedVars
<1>2. /\ pc[r] = "r_load"
      /\ \A s \in Threads \ {r} : touched'[s] = touched[s]
      /\ Moves(r, "r_load", "r_compare") \/ Moves(r, "r_load", "r_load")
  BY <1>1, AccessType
<1>3. At({"w_store"}) = {} /\ At({"w_store"})' = {}
  <2>1. r \in Reading
    BY <1>1, <1>2 DEF Reading, At
  <2>2. At({"w_store"}) = {}
    BY <1>1, <2>1, ExclusionHolds DEF Exclusion, Writing, At
  <2>3. At({"w_store"})' = At({"w_store"})
    BY <1>1, <1>2, MoveAt
  <2> QED
    BY <2>2, <2>3
<1>4. Latest = buffer /\ Latest' = Latest
  BY <1>1, <1>3 DEF Latest, Storing
<1>5. \A q \in Readers \ {r} : ReadOf(q)' = ReadOf(q)
  <2>1. \A q \in Readers \ {r} : pc'[q] = pc[q] /\ b'[q] = b[q]
    BY <1>1, <1>2 DEF Moves, Threads
  <2> QED
    BY <2>1 DEF ReadOf
<1>6. CASE Moves(r, "r_load", "r_compare")
  <2>1. pc'[r] = "r_compare" /\ pc[r] = "r_load"
    BY <1>1, <1>6 DEF Moves, Threads
  <2>2. b'[r] = buffer'
    BY <1>1, <2>1 DEF IndInv, LoadsCurrent, At
  <2>3. ReadOf(r) = <<>> /\ ReadOf(r)' = <<Latest>>
    BY <1>1, <1>4, <2>1, <2>2 DEF ReadOf
  <2>4. Register!Read(r)
    BY <1>1, <1>4, <1>5, <2>3 DEF Register!Read
  <2> QED
    BY <2>4 DEF Register!Next
<1>7. CASE Moves(r, "r_load", "r_load")
  <2>1. ReadOf(r)' = ReadOf(r)
    BY <1>1, <1>7 DEF ReadOf, Moves, Threads
  <2> QED
    BY <1>1, <1>4, <1>5, <2>1 DEF View
<1> QED
  BY <1>2, <1>6, <1>7

\* The comparison is Report: as no error has been printed after it either, the two
\* values were the same.
LEMMA CompareView ==
    ASSUME IndInv, NEW r \in Readers, Compare(r, "r_leave"), IndInv'
    PROVE  [Register!Next]_View
<1>1. /\ pc[r] = "r_compare" /\ pc' = [pc EXCEPT ![r] = "r_leave"] /\ r \in Threads
      /\ b' = [b EXCEPT ![r] = Empty] /\ UNCHANGED <<touched, buffer>>
      /\ misread \in BOOLEAN /\ misread' \in BOOLEAN /\ ~ misread /\ ~ misread'
      /\ pc = [s \in Threads |-> pc[s]] /\ b \in [Readers -> Pair]
  BY DEF IndInv, TypeOK, ThreadTypeOK, Compare, Step, Threads, NoMisread
<1>2. Moves(r, "r_compare", "r_leave")
  BY <1>1 DEF Moves
<1>3. Latest' = Latest
  <2>1. At({"w_store"})' = At({"w_store"})
    BY <1>1, <1>2, MoveAt
  <2>2. Storing' = Storing
    BY <1>1, <2>1 DEF Storing
  <2> QED
    BY <1>1, <2>2 DEF Latest
<1>4. \A q \in Readers \ {r} : ReadOf(q)' = ReadOf(q)
  BY <1>1 DEF ReadOf, Threads
<1>5. ReadOf(r) # <<>> /\ ReadOf(r)' = <<>>
  BY <1>1 DEF ReadOf
<1>6. Register!Report(r)
  BY <1>1, <1>3, <1>4, <1>5 DEF Register!Report
<1> QED
  BY <1>6 DEF Register!Next

\* Every step of the program is a step of the register or is not seen.
LEMMA NextView == IndInv /\ IndInv' /\ [Next]_vars => [Register!Next]_View
<1> SUFFICES ASSUME IndInv, IndInv', [Next]_vars PROVE [Register!Next]_View
  OBVIOUS
<1>1. ASSUME NEW w \in Writers, writer(w) PROVE [Register!Next]_View
  <2>1. w \in Threads
    BY DEF Threads
  <2>2. CASE WriterWait(w) \/ WriterPost(w)
    BY <2>1, <2>2, SyncView
  <2>3. CASE WriterStore(w)
    BY <2>3, StoreView DEF WriterStore
  <2>4. CASE WriterFlag(w)
    <3> DEFINE next == IF i[w] + 1 < WRITE_ACTIONS THEN "w_wait" ELSE "done"
    <3>1. Moves(w, "w_flag", next) /\ UNCHANGED <<buffer, touched, b, misread>>
      BY <2>4 DEF WriterFlag, RaiseFlag, Step, Moves, IndInv, TypeOK, ThreadTypeOK
    <3>2. next # "r_compare"
      OBVIOUS
    <3> QED
      BY <2>1, <3>1, <3>2, MoveView
  <2> QED
    BY <1>1, <2>2, <2>3, <2>4 DEF writer
<1>2. ASSUME NEW r \in Readers, reader(r) PROVE [Register!Next]_View
  <2>1. r \in Threads
    BY DEF Threads
  <2>2. CASE \/ ReaderWhile(r) \/ ReaderEnter(r) \/ ReaderIncrement(r) \/ ReaderFirst(r)
             \/ ReaderEntered(r) \/ ReaderLeave(r) \/ ReaderDecrement(r) \/ ReaderLast(r)
             \/ ReaderLeft(r) \/ ReaderTestsFirst(r) \/ ReaderTestsLast(r)
    BY <2>1, <2>2, SyncView
  <2>3. CASE ReaderLoad(r)
    BY <2>3, LoadView DEF ReaderLoad
  <2>4. CASE ReaderCompare(r)
    BY <2>4, CompareView DEF ReaderCompare
  <2> QED
    BY <1>2, <2>2, <2>3, <2>4 DEF reader
<1>3. CASE Launch("w_wait") /\ UNCHANGED syncVars
  <2>1. PICK t \in Threads, entry \in {"w_wait", "r_while"} : Create(t, entry)
    BY <1>3 DEF Launch, Threads
  <2>2. Moves(t, "unborn", entry) /\ UNCHANGED <<buffer, touched, b, misread>>
    BY <2>1 DEF Create, Moves, sharedVars, IndInv, TypeOK, ThreadTypeOK
  <2> QED
    BY <2>2, MoveView
<1>4. CASE UNCHANGED <<pc, buffer, touched, b, misread>>
  <2>1. At({"w_store"})' = At({"w_store"})
    BY <1>4, StillAt
  <2>2. Storing' = Storing /\ \A r \in Readers : ReadOf(r)' = ReadOf(r)
    BY <1>4, <2>1 DEF Storing, ReadOf
  <2> QED
    BY <1>4, <2>2, ViewKept
<1>5. (CreateFails \/ ThreadsInitialized \/ WritersComplete \/ ReadersComplete \/ UNCHANGED vars)
          => UNCHANGED <<pc, buffer, touched, b, misread>>
  BY DEF CreateFails, ThreadsInitialized, WritersComplete, ReadersComplete, MainMoves,
         vars, threadVars, sharedVars
<1> QED
  BY <1>1, <1>2, <1>3, <1>4, <1>5 DEF Next, mainProgress

\* The two-element buffer behaves as one register: the program implements
\* AtomicPair, for any number of readers and writers.
THEOREM Refinement == Spec => ImplementsRegister
<1>1. Init => Register!Init
  <2> SUFFICES ASSUME Init PROVE Register!Init
    OBVIOUS
  <2>1. Storing = {} /\ \A r \in Readers : ReadOf(r) = <<>>
    BY DEF Init, ThreadInit, Storing, At, ReadOf, Threads
  <2>2. buffer = Register!Copies(Nobody) /\ misread = FALSE
    BY DEF Init, ThreadInit, Empty, Indices, Register!Copies
  <2> QED
    BY <2>1, <2>2 DEF Register!Init, Latest
<1>2. IndInv /\ IndInv' /\ [Next]_vars => [Register!Next]_(Register!pairVars)
  BY NextView DEF View, Register!pairVars
<1> QED
  BY <1>1, <1>2, Invariance, PTL DEF Spec, ImplementsRegister, Register!Spec
=============================================================================
