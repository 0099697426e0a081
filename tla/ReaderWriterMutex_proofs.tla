----------------------- MODULE ReaderWriterMutex_proofs -----------------------
(***************************************************************************)
(* Safety of ReaderWriterMutex, for any finite sets of writers and readers *)
(* and any number of writes: what the mutex does guarantee.                *)
(***************************************************************************)
EXTENDS ReaderWriterMutex, TLAPS

-----------------------------------------------------------------------------
(***************************************************************************)
(* Threads by label                                                        *)
(***************************************************************************)
\* Thread t goes from label `from' to label `to'.
Moves(t, from, to) ==
    /\ pc = [s \in Threads |-> pc[s]]
    /\ pc[t] = from
    /\ pc' = [pc EXCEPT ![t] = to]

\* When one thread moves, a set of threads gains or loses that thread at most.
LEMMA MoveAt ==
    ASSUME NEW t \in Threads, NEW from, NEW to, Moves(t, from, to)
    PROVE  \A labels :
              /\ At(labels)' = (At(labels) \ {t}) \cup (IF to \in labels THEN {t} ELSE {})
              /\ (from \in labels <=> to \in labels) => At(labels)' = At(labels)
BY DEF At, Moves

-----------------------------------------------------------------------------
(***************************************************************************)
(* What every step of a thread has in common                               *)
(***************************************************************************)
\* The labels between which a thread may move: a writer stays among its own,
\* and so does a reader.
Proper(t, to, WL, RL) ==
    /\ to \in WL \cup RL \cup {"unborn", "done"}
    /\ t \in Writers => to \notin RL
    /\ t \in Readers => to \notin WL

\* A move of one thread keeps the types of main and pc.
LEMMA MoveType ==
    ASSUME NEW WL, NEW RL, ThreadTypeOK(WL, RL), NEW t \in Threads, NEW to,
           Proper(t, to, WL, RL), UNCHANGED main, pc' = [pc EXCEPT ![t] = to],
           i' \in [Writers -> Nat], buffer' \in Pair, stillWriting' \in BOOLEAN,
           touched' \in [Threads -> SUBSET Indices], b' \in [Readers -> Pair],
           misread' \in BOOLEAN
    PROVE  ThreadTypeOK(WL, RL)'
BY ThreadAssumption DEF ThreadTypeOK, Threads, Proper

\* A synchronisation call leaves the data alone.
LEMMA SyncType ==
    ASSUME NEW WL, NEW RL, ThreadTypeOK(WL, RL), NEW t \in Threads, NEW from, NEW to,
           SyncStep(t, from, to), Proper(t, to, WL, RL)
    PROVE  ThreadTypeOK(WL, RL)'
BY MoveType DEF SyncStep, Step, sharedVars, ThreadTypeOK

\* An access to the buffer, the first or the second of its pass.
LEMMA AccessType ==
    ASSUME NEW WL, NEW RL, ThreadTypeOK(WL, RL), NEW t \in Threads, NEW from, NEW to,
           NEW k \in Indices, Access(t, k, from, to)
    PROVE  /\ main' = main /\ pc[t] = from /\ k \notin touched[t]
           /\ touched' \in [Threads -> SUBSET Indices]
           /\ \A s \in Threads \ {t} : touched'[s] = touched[s]
           /\ \/ /\ touched[t] \cup {k} = Indices
                 /\ Moves(t, from, to)
                 /\ touched'[t] = {}
              \/ /\ touched[t] \cup {k} # Indices
                 /\ Moves(t, from, from)
                 /\ touched'[t] = touched[t] \cup {k}
<1>1. /\ touched \in [Threads -> SUBSET Indices] /\ k \notin touched[t]
      /\ pc = [s \in Threads |-> pc[s]]
  BY DEF ThreadTypeOK, Access
<1>2. CASE touched[t] \cup {k} = Indices
  <2>1. Step(t, from, to) /\ touched' = [touched EXCEPT ![t] = {}]
    BY <1>2 DEF Access
  <2> QED
    BY <1>1, <1>2, <2>1 DEF Step, Moves
<1>3. CASE touched[t] \cup {k} # Indices
  <2>1. Step(t, from, from) /\ touched' = [touched EXCEPT ![t] = touched[t] \cup {k}]
    BY <1>3 DEF Access
  <2>2. touched[t] \cup {k} \in SUBSET Indices
    BY <1>1
  <2> QED
    BY <1>1, <1>3, <2>1, <2>2 DEF Step, Moves
<1> QED
  BY <1>2, <1>3

\* Threads that are not inside a pass over the buffer may move freely.
LEMMA TouchedKept ==
    ASSUME NEW WL, NEW RL, ThreadTypeOK(WL, RL), TouchedInPass,
           NEW t \in Threads, NEW from, NEW to, Moves(t, from, to),
           from \notin {"w_store", "r_load"}, UNCHANGED touched
    PROVE  TouchedInPass' /\ touched[t] = {}
BY DEF ThreadTypeOK, TouchedInPass, Moves

-----------------------------------------------------------------------------
(***************************************************************************)
(* The buffer                                                              *)
(***************************************************************************)
\* A step that makes no access to the buffer keeps what is known of it.
LEMMA WholeKept ==
    ASSUME NEW WL, NEW RL, ThreadTypeOK(WL, RL), TouchedInPass, WritesWhole,
           NEW t \in Threads, NEW from, NEW to, Moves(t, from, to),
           from \notin {"w_store", "r_load"}, UNCHANGED <<buffer, touched>>
    PROVE  WritesWhole'
<1>1. touched[t] = {}
  BY TouchedKept
<1>2. t \notin At({"w_store"})
  BY DEF At, Moves
<1>3. At({"w_store"})' = At({"w_store"}) \cup (IF to = "w_store" THEN {t} ELSE {})
  BY <1>2, MoveAt
<1> QED
  BY <1>1, <1>3 DEF WritesWhole

\* A store keeps the buffer whole when no other writer is at its stores.
LEMMA StoreStep ==
    ASSUME NEW WL, NEW RL, ThreadTypeOK(WL, RL), TouchedInPass, WritesWhole,
           NEW w \in Writers, NEW k \in Indices, NEW to, Store(w, k, to),
           Proper(w, to, WL, RL), Proper(w, "w_store", WL, RL), to \notin {"w_store", "r_load"},
           At({"w_store"}) \subseteq {w}
    PROVE  ThreadTypeOK(WL, RL)' /\ TouchedInPass' /\ WritesWhole'
<1>1. w \in Threads /\ Access(w, k, "w_store", to) /\ buffer' = [buffer EXCEPT ![k] = w]
      /\ UNCHANGED <<i, b, stillWriting, misread>>
  BY DEF Store, Threads
<1>2. /\ main' = main /\ pc[w] = "w_store" /\ k \notin touched[w]
      /\ touched' \in [Threads -> SUBSET Indices]
      /\ \A s \in Threads \ {w} : touched'[s] = touched[s]
      /\ \/ /\ touched[w] \cup {k} = Indices
            /\ Moves(w, "w_store", to)
            /\ touched'[w] = {}
         \/ /\ touched[w] \cup {k} # Indices
            /\ Moves(w, "w_store", "w_store")
            /\ touched'[w] = touched[w] \cup {k}
  BY <1>1, AccessType
<1>3. buffer \in Pair /\ buffer' \in Pair /\ w \in Ids
  BY <1>1 DEF ThreadTypeOK, Pair, Ids
<1>4. buffer'[k] = w /\ \A j \in Indices \ {k} : buffer'[j] = buffer[j]
  BY <1>1, <1>3 DEF Pair
<1>5. pc \in [Threads -> WL \cup RL \cup {"unborn", "done"}]
  BY DEF ThreadTypeOK
<1>6. w \in At({"w_store"}) /\ \A j \in touched[w] : buffer[j] = w
  BY <1>1, <1>2 DEF At, WritesWhole
<1>7. touched[w] \subseteq Indices
  BY <1>1 DEF ThreadTypeOK
<1>8. CASE touched[w] \cup {k} = Indices /\ Moves(w, "w_store", to) /\ touched'[w] = {}
  <2>1. ThreadTypeOK(WL, RL)'
    BY <1>1, <1>2, <1>3, <1>8, MoveType DEF ThreadTypeOK, Moves
  <2>2. TouchedInPass'
    BY <1>1, <1>2, <1>5, <1>8 DEF TouchedInPass, Moves
  <2>3. At({"w_store"})' = {}
    BY <1>1, <1>6, <1>8, MoveAt
  <2>4. buffer'[0] = w /\ buffer'[1] = w
    BY <1>4, <1>6, <1>8 DEF Indices
  <2> QED
    BY <2>1, <2>2, <2>3, <2>4 DEF WritesWhole
<1>9. CASE /\ touched[w] \cup {k} # Indices /\ Moves(w, "w_store", "w_store")
           /\ touched'[w] = touched[w] \cup {k}
  <2>1. ThreadTypeOK(WL, RL)'
    BY <1>1, <1>2, <1>3, <1>9, MoveType DEF ThreadTypeOK, Moves
  <2>2. TouchedInPass'
    BY <1>1, <1>2, <1>5, <1>9 DEF TouchedInPass, Moves
  <2>3. At({"w_store"})' = {w}
    BY <1>1, <1>6, <1>9, MoveAt
  <2>4. \A j \in touched'[w] : buffer'[j] = w
    BY <1>4, <1>6, <1>7, <1>9
  <2> QED
    BY <2>1, <2>2, <2>3, <2>4 DEF WritesWhole
<1> QED
  BY <1>2, <1>8, <1>9

\* A load leaves the buffer as it is and copies one half of it.
LEMMA LoadStep ==
    ASSUME NEW WL, NEW RL, ThreadTypeOK(WL, RL), TouchedInPass, WritesWhole,
           NEW r \in Readers, NEW k \in Indices, Load(r, k),
           Proper(r, "r_load", WL, RL), Proper(r, "r_compare", WL, RL)
    PROVE  /\ ThreadTypeOK(WL, RL)' /\ TouchedInPass' /\ WritesWhole'
           /\ b'[r][k] = buffer[k]
           /\ \A j \in Indices \ {k} : b'[r][j] = b[r][j]
           /\ \A q \in Readers \ {r} : b'[q] = b[q]
<1>1. r \in Threads /\ Access(r, k, "r_load", "r_compare") /\ b' = [b EXCEPT ![r][k] = buffer[k]]
      /\ UNCHANGED <<i, buffer, stillWriting, misread>>
  BY DEF Load, Threads, sharedVars
<1>2. /\ main' = main /\ pc[r] = "r_load" /\ k \notin touched[r]
      /\ touched' \in [Threads -> SUBSET Indices]
      /\ \A s \in Threads \ {r} : touched'[s] = touched[s]
      /\ \/ /\ touched[r] \cup {k} = Indices
            /\ Moves(r, "r_load", "r_compare")
            /\ touched'[r] = {}
         \/ /\ touched[r] \cup {k} # Indices
            /\ Moves(r, "r_load", "r_load")
            /\ touched'[r] = touched[r] \cup {k}
  BY <1>1, AccessType
<1>3. buffer \in Pair /\ b \in [Readers -> Pair]
  BY DEF ThreadTypeOK
<1>4. /\ b' \in [Readers -> Pair] /\ b'[r][k] = buffer[k]
      /\ \A j \in Indices \ {k} : b'[r][j] = b[r][j]
      /\ \A q \in Readers \ {r} : b'[q] = b[q]
  BY <1>1, <1>3 DEF Pair
<1>5. pc \in [Threads -> WL \cup RL \cup {"unborn", "done"}]
  BY DEF ThreadTypeOK
<1>6. ThreadTypeOK(WL, RL)'
  BY <1>1, <1>2, <1>3, <1>4, MoveType DEF ThreadTypeOK, Moves
<1>7. TouchedInPass'
  BY <1>1, <1>2, <1>5 DEF TouchedInPass, Moves
<1>8. At({"w_store"})' = At({"w_store"}) /\ r \notin At({"w_store"})
  BY <1>1, <1>2, MoveAt
<1>9. WritesWhole'
  BY <1>1, <1>2, <1>8 DEF WritesWhole, At
<1> QED
  BY <1>4, <1>6, <1>7, <1>9

-----------------------------------------------------------------------------
(***************************************************************************)
(* The inductive invariant                                                 *)
(***************************************************************************)
ThreadType == ThreadTypeOK(WriterLabels, ReaderLabels)

LEMMA InitIndInv == Init => IndInv
<1> SUFFICES ASSUME Init PROVE IndInv
  OBVIOUS
<1>1. TypeOK
  <2>1. Empty \in Pair
    BY DEF Empty, Pair, Ids
  <2>2. i \in [Writers -> Nat]
    BY DEF Init, ThreadInit
  <2> QED
    BY <2>1, <2>2 DEF Init, ThreadInit, TypeOK, ThreadTypeOK, Threads, WriterLabels, ReaderLabels
<1>2. \A t \in Threads : pc[t] = "unborn" /\ touched[t] = {}
  BY DEF Init, ThreadInit
<1>3. WriterOwnership /\ Written
  BY <1>2, MutexAssumption DEF Init, WriterOwnership, Written, AfterStores, Threads
<1>4. At({"w_store"}) = {}
  BY <1>2 DEF At
<1>5. TouchedInPass /\ WritesWhole
  BY <1>2, <1>4 DEF Init, ThreadInit, TouchedInPass, WritesWhole, Empty, Indices
<1> QED
  BY <1>1, <1>3, <1>5 DEF IndInv

\* A move that makes no access to the buffer and does not jump over the stores
\* keeps what is known of the buffer.
LEMMA BufferKept ==
    ASSUME IndInv, NEW t \in Threads, NEW from, NEW to, Moves(t, from, to),
           from \notin {"w_store", "r_load"}, UNCHANGED <<buffer, touched>>,
           t \in Writers /\ to \in AfterStores => from \in AfterStores
    PROVE  TouchedInPass' /\ WritesWhole' /\ Written'
<1>1. ThreadType /\ TouchedInPass /\ WritesWhole /\ Written
  BY DEF IndInv, TypeOK, ThreadType
<1>2. TouchedInPass' /\ WritesWhole'
  BY <1>1, TouchedKept, WholeKept DEF ThreadType
<1>3. Written'
  BY <1>1 DEF Written, Moves, Threads
<1> QED
  BY <1>2, <1>3

\* A move that neither enters nor leaves the section of the mutex.
LEMMA OwnershipKept ==
    ASSUME WriterOwnership, NEW t \in Threads, NEW from, NEW to, Moves(t, from, to),
           from \in {"w_store", "w_unlock"} <=> to \in {"w_store", "w_unlock"},
           UNCHANGED rw_mutex
    PROVE  WriterOwnership'
BY DEF WriterOwnership, Moves, Threads

\* The calls on the mutex and the test of the flag.
LEMMA SyncSteps ==
    ASSUME IndInv, NEW t \in Threads,
           \/ t \in Writers /\ (WriterLock(t) \/ WriterUnlock(t))
           \/ t \in Readers /\ ReaderWhile(t)
    PROVE  IndInv'
<1>1. ThreadType /\ TypeOK /\ WriterOwnership
  BY DEF IndInv, TypeOK, ThreadType
<1>2. CASE t \in Writers /\ WriterLock(t)
  <2>1. SyncStep(t, "w_lock", "w_store") /\ rw_mutex = Unlocked /\ rw_mutex' = t
    BY <1>2 DEF WriterLock, pthread_mutex_lock
  <2>2. Proper(t, "w_store", WriterLabels, ReaderLabels)
    BY <1>2, ThreadAssumption DEF Proper, WriterLabels, ReaderLabels
  <2>3. ThreadType'
    BY <1>1, <2>1, <2>2, SyncType DEF ThreadType
  <2>4. Moves(t, "w_lock", "w_store") /\ UNCHANGED <<buffer, touched>>
    BY <1>1, <2>1 DEF SyncStep, Step, Moves, sharedVars, ThreadType, ThreadTypeOK
  <2>5. TouchedInPass' /\ WritesWhole' /\ Written'
    BY <2>4, BufferKept DEF AfterStores
  <2>6. WriterOwnership'
    BY <1>1, <1>2, <2>1, <2>4, MutexAssumption DEF WriterOwnership, Moves, Threads
  <2> QED
    BY <1>2, <2>1, <2>3, <2>5, <2>6 DEF IndInv, TypeOK, ThreadType
<1>3. CASE t \in Writers /\ WriterUnlock(t)
  <2>1. SyncStep(t, "w_unlock", "w_flag") /\ rw_mutex' = Unlocked
    BY <1>3 DEF WriterUnlock, pthread_mutex_unlock
  <2>2. Proper(t, "w_flag", WriterLabels, ReaderLabels)
    BY <1>3, ThreadAssumption DEF Proper, WriterLabels, ReaderLabels
  <2>3. ThreadType'
    BY <1>1, <2>1, <2>2, SyncType DEF ThreadType
  <2>4. Moves(t, "w_unlock", "w_flag") /\ UNCHANGED <<buffer, touched>>
    BY <1>1, <2>1 DEF SyncStep, Step, Moves, sharedVars, ThreadType, ThreadTypeOK
  <2>5. TouchedInPass' /\ WritesWhole' /\ Written'
    BY <2>4, BufferKept DEF AfterStores
  <2>6. WriterOwnership'
    BY <1>1, <1>3, <2>1, <2>4, MutexAssumption DEF WriterOwnership, Moves, Threads
  <2> QED
    BY <2>1, <2>3, <2>5, <2>6 DEF IndInv, TypeOK, ThreadType
<1>4. CASE t \in Readers /\ ReaderWhile(t)
  <2> DEFINE next == IF stillWriting THEN "r_load" ELSE "done"
  <2>1. SyncStep(t, "r_while", next) /\ rw_mutex' = rw_mutex
    BY <1>4 DEF ReaderWhile, TestFlag
  <2>2. next \in {"r_load", "done"}
    OBVIOUS
  <2> HIDE DEF next
  <2>3. Proper(t, next, WriterLabels, ReaderLabels)
    BY <1>4, <2>2, ThreadAssumption DEF Proper, WriterLabels, ReaderLabels
  <2>4. ThreadType'
    BY <1>1, <2>1, <2>3, SyncType DEF ThreadType
  <2>5. Moves(t, "r_while", next) /\ UNCHANGED <<buffer, touched>>
    BY <1>1, <2>1 DEF SyncStep, Step, Moves, sharedVars, ThreadType, ThreadTypeOK
  <2>6. TouchedInPass' /\ WritesWhole' /\ Written'
    BY <1>4, <2>5, BufferKept, ThreadAssumption
  <2>7. WriterOwnership'
    BY <1>1, <2>1, <2>2, <2>5, OwnershipKept
  <2> QED
    BY <1>1, <2>1, <2>4, <2>6, <2>7 DEF IndInv, TypeOK, ThreadType
<1> QED
  BY <1>2, <1>3, <1>4

\* A store is made by the owner of the mutex, the only writer at its stores.
LEMMA WriterStoreStep ==
    ASSUME IndInv, NEW w \in Writers, NEW k \in Indices, Store(w, k, "w_unlock"),
           UNCHANGED rw_mutex
    PROVE  IndInv'
<1>1. /\ ThreadType /\ TypeOK /\ WriterOwnership /\ TouchedInPass /\ WritesWhole /\ Written
      /\ w \in Threads /\ Access(w, k, "w_store", "w_unlock")
      /\ buffer' = [buffer EXCEPT ![k] = w] /\ buffer \in Pair
  BY DEF IndInv, TypeOK, ThreadType, ThreadTypeOK, Store, Threads
<1>2. /\ pc[w] = "w_store"
      /\ \/ touched[w] \cup {k} = Indices /\ Moves(w, "w_store", "w_unlock")
         \/ Moves(w, "w_store", "w_store")
  BY <1>1, AccessType DEF ThreadType
<1>3. At({"w_store"}) \subseteq {w}
  <2>1. \A v \in Writers : pc[v] = "w_store" => v = w
    BY <1>1, <1>2 DEF WriterOwnership
  <2> QED
    BY <1>1, <2>1 DEF At, Threads, ThreadType, ThreadTypeOK, WriterLabels, ReaderLabels
<1>4. ThreadType' /\ TouchedInPass' /\ WritesWhole'
  <2>1. /\ Proper(w, "w_unlock", WriterLabels, ReaderLabels)
        /\ Proper(w, "w_store", WriterLabels, ReaderLabels)
    BY ThreadAssumption DEF Proper, WriterLabels, ReaderLabels
  <2> QED
    BY <1>1, <1>3, <2>1, StoreStep DEF ThreadType
<1>5. WriterOwnership'
  BY <1>1, <1>2, OwnershipKept
<1>6. buffer'[k] = w /\ \A j \in Indices \ {k} : buffer'[j] = buffer[j]
  BY <1>1 DEF Pair
<1>7. Written'
  <2>1. CASE touched[w] \cup {k} = Indices /\ Moves(w, "w_store", "w_unlock")
    <3>1. \A j \in touched[w] : buffer[j] = w
      BY <1>1, <1>2 DEF WritesWhole, At
    <3> QED
      BY <1>6, <2>1, <3>1 DEF Written
  <2>2. CASE Moves(w, "w_store", "w_store")
    <3>1. \A v \in Writers : pc'[v] = pc[v]
      BY <2>2 DEF Moves, Threads
    <3> QED
      BY <1>1, <1>6, <3>1 DEF Written
  <2> QED
    BY <1>2, <2>1, <2>2
<1> QED
  BY <1>1, <1>4, <1>5, <1>7 DEF IndInv, TypeOK, ThreadType

\* A load does not change the buffer.
LEMMA ReaderLoadStep ==
    ASSUME IndInv, NEW r \in Readers, NEW k \in Indices, Load(r, k), UNCHANGED rw_mutex
    PROVE  IndInv'
<1>1. /\ ThreadType /\ TypeOK /\ WriterOwnership /\ TouchedInPass /\ WritesWhole /\ Written
      /\ r \in Threads /\ r \notin Writers
      /\ Access(r, k, "r_load", "r_compare") /\ buffer' = buffer
  BY ThreadAssumption DEF IndInv, TypeOK, ThreadType, Load, Threads, sharedVars
<1>2. Moves(r, "r_load", "r_compare") \/ Moves(r, "r_load", "r_load")
  BY <1>1, AccessType DEF ThreadType
<1>3. ThreadType' /\ TouchedInPass' /\ WritesWhole'
  <2>1. /\ Proper(r, "r_load", WriterLabels, ReaderLabels)
        /\ Proper(r, "r_compare", WriterLabels, ReaderLabels)
    BY ThreadAssumption DEF Proper, WriterLabels, ReaderLabels
  <2> QED
    BY <1>1, <2>1, LoadStep DEF ThreadType
<1>4. \A w \in Writers : pc'[w] = pc[w]
  BY <1>1, <1>2 DEF Moves, Threads
<1>5. WriterOwnership' /\ Written'
  BY <1>1, <1>4 DEF WriterOwnership, Written
<1> QED
  BY <1>1, <1>3, <1>5 DEF IndInv, TypeOK, ThreadType

\* The steps that change the flag, the verdict or a local, but not the buffer.
LEMMA LocalSteps ==
    ASSUME IndInv, NEW t \in Threads,
           \/ t \in Writers /\ (WriterFlag(t) \/ WriterFinish(t))
           \/ t \in Readers /\ ReaderCompare(t)
    PROVE  IndInv'
<1>1. ThreadType /\ TypeOK /\ WriterOwnership
  BY DEF IndInv, TypeOK, ThreadType
<1>2. CASE t \in Writers /\ WriterFlag(t)
  <2> DEFINE next == IF i[t] + 1 < WRITE_ACTIONS THEN "w_lock" ELSE "w_finish"
  <2>1. /\ main' = main /\ Moves(t, "w_flag", next) /\ pc' = [pc EXCEPT ![t] = next]
        /\ i' = [i EXCEPT ![t] = i[t] + 1] /\ i \in [Writers -> Nat] /\ stillWriting' = TRUE
        /\ UNCHANGED <<touched, b, buffer, misread, rw_mutex>>
    BY <1>1, <1>2 DEF WriterFlag, RaiseFlag, Step, Moves, ThreadType, ThreadTypeOK
  <2>2. next \in {"w_lock", "w_finish"}
    OBVIOUS
  <2> HIDE DEF next
  <2>3. i' \in [Writers -> Nat]
    BY <1>2, <2>1
  <2>4. Proper(t, next, WriterLabels, ReaderLabels)
    BY <1>2, <2>2, ThreadAssumption DEF Proper, WriterLabels, ReaderLabels
  <2>5. ThreadType'
    BY <1>1, <2>1, <2>3, <2>4, MoveType DEF ThreadType, ThreadTypeOK
  <2>6. TouchedInPass' /\ WritesWhole' /\ Written'
    BY <2>1, BufferKept DEF AfterStores
  <2>7. WriterOwnership'
    BY <1>1, <2>1, <2>2, OwnershipKept
  <2> QED
    BY <1>1, <2>1, <2>5, <2>6, <2>7 DEF IndInv, TypeOK, ThreadType
<1>3. CASE t \in Writers /\ WriterFinish(t)
  <2>1. /\ main' = main /\ Moves(t, "w_finish", "done") /\ pc' = [pc EXCEPT ![t] = "done"]
        /\ stillWriting' = FALSE
        /\ UNCHANGED <<i, touched, b, buffer, misread, rw_mutex>>
    BY <1>1, <1>3 DEF WriterFinish, Step, Moves, ThreadType, ThreadTypeOK
  <2>2. Proper(t, "done", WriterLabels, ReaderLabels)
    BY DEF Proper, WriterLabels, ReaderLabels
  <2>3. ThreadType'
    BY <1>1, <2>1, <2>2, MoveType DEF ThreadType, ThreadTypeOK
  <2>4. TouchedInPass' /\ WritesWhole' /\ Written'
    BY <2>1, BufferKept DEF AfterStores
  <2>5. WriterOwnership'
    BY <1>1, <2>1, OwnershipKept
  <2> QED
    BY <1>1, <2>1, <2>3, <2>4, <2>5 DEF IndInv, TypeOK, ThreadType
<1>4. CASE t \in Readers /\ ReaderCompare(t)
  <2>1. /\ main' = main /\ Moves(t, "r_compare", "r_while") /\ pc' = [pc EXCEPT ![t] = "r_while"]
        /\ misread' \in BOOLEAN /\ b' = [b EXCEPT ![t] = Empty] /\ b \in [Readers -> Pair]
        /\ UNCHANGED <<i, touched, buffer, stillWriting, rw_mutex>>
    BY <1>1, <1>4 DEF ReaderCompare, Compare, Step, Moves, ThreadType, ThreadTypeOK
  <2>2. b' \in [Readers -> Pair]
    <3>1. Empty \in Pair
      BY DEF Empty, Pair, Ids
    <3> QED
      BY <2>1, <3>1
  <2>3. Proper(t, "r_while", WriterLabels, ReaderLabels)
    BY <1>4, ThreadAssumption DEF Proper, WriterLabels, ReaderLabels
  <2>4. ThreadType'
    BY <1>1, <2>1, <2>2, <2>3, MoveType DEF ThreadType, ThreadTypeOK
  <2>5. TouchedInPass' /\ WritesWhole' /\ Written'
    BY <2>1, BufferKept DEF AfterStores
  <2>6. WriterOwnership'
    BY <1>1, <2>1, OwnershipKept
  <2> QED
    BY <1>1, <2>1, <2>4, <2>5, <2>6 DEF IndInv, TypeOK, ThreadType
<1> QED
  BY <1>2, <1>3, <1>4

\* A new thread is outside the section.
LEMMA CreateStep ==
    ASSUME IndInv, NEW t \in Threads, NEW entry, Create(t, entry), UNCHANGED rw_mutex,
           \/ t \in Writers /\ entry = "w_lock"
           \/ t \in Readers /\ entry = "r_while"
    PROVE  IndInv'
<1>1. ThreadType /\ TypeOK /\ WriterOwnership /\ SyncStep(t, "unborn", entry)
  BY DEF IndInv, TypeOK, ThreadType, Create, SyncStep, Step
<1>2. Proper(t, entry, WriterLabels, ReaderLabels)
  BY ThreadAssumption DEF Proper, WriterLabels, ReaderLabels
<1>3. ThreadType'
  BY <1>1, <1>2, SyncType DEF ThreadType
<1>4. Moves(t, "unborn", entry) /\ UNCHANGED <<buffer, touched>>
  BY <1>1 DEF SyncStep, Step, Moves, sharedVars, ThreadType, ThreadTypeOK
<1>5. TouchedInPass' /\ WritesWhole' /\ Written'
  BY <1>4, BufferKept DEF AfterStores
<1>6. WriterOwnership'
  BY <1>1, <1>4, OwnershipKept
<1> QED
  BY <1>1, <1>3, <1>5, <1>6 DEF IndInv, TypeOK, ThreadType

\* The other steps of main(), and stuttering, move no thread.
LEMMA StillStep ==
    ASSUME IndInv, UNCHANGED <<pc, touched, buffer, rw_mutex>>, ThreadType'
    PROVE  IndInv'
<1>1. At({"w_store"})' = At({"w_store"})
  BY DEF At
<1> QED
  BY <1>1 DEF IndInv, TypeOK, ThreadType, WriterOwnership, TouchedInPass, WritesWhole, Written

\* One step per disjunct of Next.
LEMMA NextIndInv == IndInv /\ [Next]_vars => IndInv'
<1> SUFFICES ASSUME IndInv, [Next]_vars PROVE IndInv'
  OBVIOUS
<1>1. ASSUME NEW w \in Writers, writer(w) PROVE IndInv'
  <2>1. w \in Threads
    BY DEF Threads
  <2>2. CASE WriterLock(w) \/ WriterUnlock(w)
    BY <2>1, <2>2, SyncSteps
  <2>3. CASE WriterStore(w)
    BY <2>3, WriterStoreStep DEF WriterStore
  <2>4. CASE WriterFlag(w) \/ WriterFinish(w)
    BY <2>1, <2>4, LocalSteps
  <2> QED
    BY <1>1, <2>2, <2>3, <2>4 DEF writer
<1>2. ASSUME NEW r \in Readers, reader(r) PROVE IndInv'
  <2>1. r \in Threads
    BY DEF Threads
  <2>2. CASE ReaderWhile(r)
    BY <2>1, <2>2, SyncSteps
  <2>3. CASE ReaderLoad(r)
    BY <2>3, ReaderLoadStep DEF ReaderLoad
  <2>4. CASE ReaderCompare(r)
    BY <2>1, <2>4, LocalSteps
  <2> QED
    BY <1>2, <2>2, <2>3, <2>4 DEF reader
<1>3. CASE Launch("w_lock") /\ UNCHANGED rw_mutex
  <2>1. ASSUME NEW w \in Writers, Create(w, "w_lock") PROVE IndInv'
    BY <1>3, <2>1, CreateStep DEF Threads
  <2>2. ASSUME NEW r \in Readers, Create(r, "r_while") PROVE IndInv'
    BY <1>3, <2>2, CreateStep DEF Threads
  <2> QED
    BY <1>3, <2>1, <2>2 DEF Launch
<1>4. CASE /\ CreateFails \/ ThreadsInitialized \/ WritersComplete \/ ReadersComplete
           /\ UNCHANGED rw_mutex
  <2>1. UNCHANGED <<pc, touched, buffer>> /\ ThreadType'
    BY <1>4 DEF IndInv, TypeOK, ThreadType, ThreadTypeOK, CreateFails, ThreadsInitialized,
                WritersComplete, ReadersComplete, MainMoves
  <2> QED
    BY <1>4, <2>1, StillStep
<1>5. CASE UNCHANGED vars
  <2>1. UNCHANGED <<pc, touched, buffer, rw_mutex>> /\ ThreadType'
    BY <1>5 DEF vars, threadVars, sharedVars, IndInv, TypeOK, ThreadType, ThreadTypeOK
  <2> QED
    BY <2>1, StillStep
<1> QED
  BY <1>1, <1>2, <1>3, <1>4, <1>5 DEF Next, mainProgress

\* A step that leaves a thread unfinished, or moves no writer, or clears the flag,
\* keeps the flag settled.
LEMMA SettledKept ==
    ASSUME ThreadType, FlagSettles,
           \/ stillWriting' = FALSE
           \/ \E w \in Writers : pc'[w] # "done"
           \/ stillWriting' = stillWriting /\ \A w \in Writers : pc'[w] = "done" => pc[w] = "done"
    PROVE  FlagSettles'
BY DEF FlagSettles, At, Threads

\* One step per disjunct of Next.
LEMMA NextFlagSettles == IndInv /\ FlagSettles /\ [Next]_vars => FlagSettles'
<1> SUFFICES ASSUME IndInv, FlagSettles, [Next]_vars PROVE FlagSettles'
  OBVIOUS
<1>1. ThreadType /\ pc \in [Threads -> WriterLabels \cup ReaderLabels \cup {"unborn", "done"}]
  BY DEF IndInv, TypeOK, ThreadType, ThreadTypeOK
<1>2. ASSUME NEW w \in Writers, writer(w) PROVE FlagSettles'
  <2>1. w \in Threads
    BY DEF Threads
  <2>2. CASE WriterFinish(w)
    BY <1>1, <2>2, SettledKept DEF WriterFinish
  <2>3. CASE ~ WriterFinish(w)
    <3>1. pc'[w] # "done"
      BY <1>1, <1>2, <2>1, <2>3 DEF writer, WriterLock, WriterStore, WriterUnlock, WriterFlag,
         SyncStep, Store, Access, RaiseFlag, Step
    <3> QED
      BY <1>1, <3>1, SettledKept
  <2> QED
    BY <2>2, <2>3
<1>3. ASSUME NEW r \in Readers, reader(r) PROVE FlagSettles'
  <2>1. r \in Threads /\ r \notin Writers
    BY ThreadAssumption DEF Threads
  <2>2. stillWriting' = stillWriting /\ \A w \in Writers : pc'[w] = pc[w]
    BY <1>1, <1>3, <2>1 DEF reader, ReaderWhile, ReaderLoad, ReaderCompare, TestFlag, Load, Compare,
       Access, SyncStep, Step, sharedVars, Threads
  <2> QED
    BY <1>1, <2>2, SettledKept
<1>4. CASE Launch("w_lock")
  <2>1. /\ stillWriting' = stillWriting
        /\ \A w \in Writers : pc'[w] = "done" => pc[w] = "done"
    BY <1>1, <1>4 DEF Launch, Create, sharedVars, Threads
  <2> QED
    BY <1>1, <2>1, SettledKept
<1>5. CASE CreateFails \/ ThreadsInitialized \/ WritersComplete \/ ReadersComplete
  BY <1>1, <1>5, SettledKept
     DEF CreateFails, ThreadsInitialized, WritersComplete, ReadersComplete, MainMoves
<1>6. CASE UNCHANGED vars
  BY <1>1, <1>6, SettledKept DEF vars, threadVars, sharedVars
<1> QED
  BY <1>2, <1>3, <1>4, <1>5, <1>6 DEF Next, mainProgress

-----------------------------------------------------------------------------
(***************************************************************************)
(* The theorems                                                            *)
(***************************************************************************)
\* The inductive invariant holds in every state of the program.
THEOREM Invariance == Spec => []IndInv
<1>1. Init => IndInv
  BY InitIndInv
<1>2. IndInv /\ [Next]_vars => IndInv'
  BY NextIndInv
<1> QED
  BY <1>1, <1>2, PTL DEF Spec

\* Every variable keeps its type.
THEOREM TypeCorrectness == Spec => []TypeOK
<1>1. IndInv => TypeOK
  BY DEF IndInv
<1> QED
  BY <1>1, Invariance, PTL

\* rw_mutex is owned by the writer between lock and unlock.
THEOREM Ownership == Spec => []WriterOwnership
<1>1. IndInv => WriterOwnership
  BY DEF IndInv
<1> QED
  BY <1>1, Invariance, PTL

\* Two writes are never interleaved: when the writers have finished, the two
\* halves of the buffer agree on one of them.
THEOREM Settled == Spec => []BufferSettles
<1>1. IndInv => BufferSettles
  <2> SUFFICES ASSUME IndInv, Writers # {}, Writers \subseteq At({"done"})
               PROVE  buffer[0] = buffer[1] /\ buffer[0] \in Writers
    BY DEF BufferSettles
  <2>1. At({"w_store"}) = {}
    BY DEF IndInv, TypeOK, ThreadTypeOK, At, Threads, WriterLabels, ReaderLabels
  <2>2. \E w \in Writers : pc[w] \in AfterStores
    BY DEF At, AfterStores
  <2> QED
    BY <2>1, <2>2 DEF IndInv, WritesWhole, Written, Indices
<1> QED
  BY <1>1, Invariance, PTL

\* The writers leave the flag false, in whatever order they finish.
THEOREM FlagSettled == Spec => []FlagSettles
<1>1. Init => FlagSettles
  BY DEF Init, ThreadInit, FlagSettles, At, Threads
<1>2. IndInv /\ FlagSettles /\ [Next]_vars => FlagSettles'
  BY NextFlagSettles
<1> QED
  BY <1>1, <1>2, Invariance, PTL DEF Spec
=============================================================================
