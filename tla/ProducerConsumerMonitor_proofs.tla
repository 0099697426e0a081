-------------------- MODULE ProducerConsumerMonitor_proofs --------------------
(***************************************************************************)
(* Safety of ProducerConsumerMonitor, for any finite sets of producers and *)
(* consumers, any buffer size, any limits of the loops and any number of   *)
(* spurious wakeups.                                                       *)
(***************************************************************************)
EXTENDS ProducerConsumerMonitor, ProducerConsumer_proofs

\* The thread that moves under the mutex, or takes it, is alone in the critical
\* section before and after its step.
LEMMA Solo ==
    ASSUME TypeOK, MutexOwnership, NEW t \in Threads, NEW from, NEW to, Step(t, from, to),
           from \in CriticalSection \/ buffer_mutex = Unlocked
    PROVE  \A labels \in SUBSET CriticalSection :
              /\ At(labels) = (IF from \in labels THEN {t} ELSE {})
              /\ At(labels)' = (IF to \in labels THEN {t} ELSE {})
              /\ Count(labels) = One(from, labels)
              /\ Count(labels)' = One(to, labels)
<1> SUFFICES ASSUME NEW labels \in SUBSET CriticalSection
             PROVE  /\ At(labels) = (IF from \in labels THEN {t} ELSE {})
                    /\ At(labels)' = (IF to \in labels THEN {t} ELSE {})
                    /\ Count(labels) = One(from, labels)
                    /\ Count(labels)' = One(to, labels)
  OBVIOUS
<1>1. t \in At(labels) <=> from \in labels
  BY AtLabel
<1>2. At(labels) \subseteq At(CriticalSection)
  BY DEF At
<1>3. At(CriticalSection) \subseteq {t}
  <2>1. CASE from \in CriticalSection
    BY <2>1, AtLabel DEF MutexOwnership
  <2>2. CASE buffer_mutex = Unlocked
    <3>1. At(CriticalSection) \subseteq Threads
      BY DEF At
    <3> QED
      BY <2>2, <3>1, MonitorAssumption DEF MutexOwnership
  <2> QED
    BY <2>1, <2>2
<1>4. At(labels) = IF from \in labels THEN {t} ELSE {}
  BY <1>1, <1>2, <1>3
<1>5. At(labels)' = IF to \in labels THEN {t} ELSE {}
  BY <1>1, <1>4, AtMove DEF TypeOK
<1>6. Cardinality({t}) = 1 /\ Cardinality({}) = 0
  BY FS_Singleton, FS_EmptySet
<1> QED
  BY <1>4, <1>5, <1>6 DEF Count, One

\* Threads between their test and their update of `count', and those about to signal,
\* before and after the step of a thread that is alone in the critical section.
SoloAt(t, from, to) ==
    /\ Count({"p_count"}) = One(from, {"p_count"})
    /\ Count({"p_count"})' = One(to, {"p_count"})
    /\ Count({"c_consume", "c_count"}) = One(from, {"c_consume", "c_count"})
    /\ Count({"c_consume", "c_count"})' = One(to, {"c_consume", "c_count"})
    /\ Count({"p_signal"}) = One(from, {"p_signal"})
    /\ Count({"p_signal"})' = One(to, {"p_signal"})
    /\ Count({"c_signal"}) = One(from, {"c_signal"})
    /\ Count({"c_signal"})' = One(to, {"c_signal"})
    /\ At({"p_append"}) = IF from \in {"p_append"} THEN {t} ELSE {}
    /\ At({"c_consume"}) = IF from \in {"c_consume"} THEN {t} ELSE {}
    /\ At({"c_take"}) = IF from \in {"c_take"} THEN {t} ELSE {}
    /\ At({"p_produce", "p_append", "p_count"})
          = IF from \in {"p_produce", "p_append", "p_count"} THEN {t} ELSE {}
    /\ At({"p_produce", "p_append", "p_count"})'
          = IF to \in {"p_produce", "p_append", "p_count"} THEN {t} ELSE {}
    /\ At({"c_take", "c_consume", "c_count"})
          = IF from \in {"c_take", "c_consume", "c_count"} THEN {t} ELSE {}
    /\ At({"c_take", "c_consume", "c_count"})'
          = IF to \in {"c_take", "c_consume", "c_count"} THEN {t} ELSE {}

LEMMA SoloCounts ==
    ASSUME TypeOK, MutexOwnership, NEW t \in Threads, NEW from, NEW to, Step(t, from, to),
           from \in CriticalSection \/ buffer_mutex = Unlocked
    PROVE  SoloAt(t, from, to)
<1>1. /\ {"p_count"} \in SUBSET CriticalSection
      /\ {"c_consume", "c_count"} \in SUBSET CriticalSection
      /\ {"p_signal"} \in SUBSET CriticalSection
      /\ {"c_signal"} \in SUBSET CriticalSection
      /\ {"p_append"} \in SUBSET CriticalSection
      /\ {"c_consume"} \in SUBSET CriticalSection
      /\ {"c_take"} \in SUBSET CriticalSection
      /\ {"p_produce", "p_append", "p_count"} \in SUBSET CriticalSection
      /\ {"c_take", "c_consume", "c_count"} \in SUBSET CriticalSection
  BY DEF CriticalSection, InProducerSection, InConsumerSection
<1>2. \A labels \in SUBSET CriticalSection :
         /\ At(labels) = (IF from \in labels THEN {t} ELSE {})
         /\ At(labels)' = (IF to \in labels THEN {t} ELSE {})
         /\ Count(labels) = One(from, labels)
         /\ Count(labels)' = One(to, labels)
  BY Solo
<1> QED
  BY <1>1, <1>2 DEF SoloAt

\* The mutex changes hands as pthread_mutex_lock and its counterparts say.
LEMMA OwnershipStep ==
    ASSUME TypeOK, MutexOwnership, NEW t \in Threads, NEW from, NEW to, Step(t, from, to),
           from \in CriticalSection \/ buffer_mutex = Unlocked,
           \/ from \notin CriticalSection /\ to \in CriticalSection /\ buffer_mutex' = t
           \/ from \in CriticalSection /\ to \in CriticalSection /\ buffer_mutex' = buffer_mutex
           \/ to \notin CriticalSection /\ buffer_mutex' = Unlocked
    PROVE  MutexOwnership' /\ buffer_mutex' \in Threads \cup {Unlocked}
<1>1. At(CriticalSection)' = IF to \in CriticalSection THEN {t} ELSE {}
  BY Solo
<1>2. from \in CriticalSection => buffer_mutex = t
  BY AtLabel DEF MutexOwnership
<1>3. CriticalSection' = CriticalSection
  BY DEF CriticalSection, InProducerSection, InConsumerSection
<1> QED
  BY <1>1, <1>2, <1>3 DEF MutexOwnership

\* A thread that is awake is not one of those that are blocked.
LEMMA AwakeRoom ==
    ASSUME TypeOK, WaitersWait
    PROVE  /\ \A t \in At({"p_test"}) :
                 Cardinality(not_full \cup {t})
                   <= Count(ProducerLoop)
           /\ \A t \in At({"c_test"}) :
                 Cardinality(not_empty \cup {t})
                   <= Count(ConsumerLoop)
<1>1. ASSUME NEW t \in At({"p_test"})
      PROVE  not_full \cup {t} \subseteq At(ProducerLoop)
  BY <1>1 DEF WaitersWait, At, ProducerLoop
<1>2. ASSUME NEW t \in At({"c_test"})
      PROVE  not_empty \cup {t} \subseteq At(ConsumerLoop)
  BY <1>2 DEF WaitersWait, At, ConsumerLoop
<1> QED
  BY <1>1, <1>2, CountType, FS_Subset DEF Count

\* The threads in the while loops and beyond, as the thread that moves changes them.
LEMMA AwakeCounts ==
    ASSUME TypeOK, NEW t \in Threads, NEW from, NEW to, Step(t, from, to)
    PROVE  \A labels \in {ProducerLoop, ConsumerLoop} :
              /\ Count(labels) \in Nat
              /\ Count(labels)' = Count(labels) - One(from, labels) + One(to, labels)
BY CountMove, CountType DEF TypeOK

\* Blocked threads stay in their while loop.
LEMMA WaitersStep ==
    ASSUME TypeOK, WaitersWait, NEW t \in Threads, NEW from, NEW to, Step(t, from, to),
           \/ from \notin {"p_wait", "c_wait"}
           \/ t \notin not_full \cup not_empty,
           not_full' \subseteq not_full \cup (IF to = "p_wait" THEN {t} ELSE {}),
           not_empty' \subseteq not_empty \cup (IF to = "c_wait" THEN {t} ELSE {})
    PROVE  WaitersWait'
<1>1. \A label : At({label})' = (At({label}) \ {t}) \cup (IF to = label THEN {t} ELSE {})
  BY AtMove DEF TypeOK
<1>2. t \notin not_full \cup not_empty
  BY AtLabel DEF WaitersWait
<1> QED
  BY <1>1, <1>2 DEF WaitersWait

\* How many threads are blocked on a condition variable.
LEMMA WaitSetSize ==
    ASSUME TypeOK
    PROVE  /\ Cardinality(not_full) \in Nat /\ Cardinality(not_empty) \in Nat
           /\ \A t : /\ t \notin not_full =>
                           Cardinality(not_full \cup {t}) = Cardinality(not_full) + 1
                     /\ t \notin not_empty =>
                           Cardinality(not_empty \cup {t}) = Cardinality(not_empty) + 1
                     /\ t \in not_full =>
                           Cardinality(not_full \ {t}) = Cardinality(not_full) - 1
                     /\ t \in not_empty =>
                           Cardinality(not_empty \ {t}) = Cardinality(not_empty) - 1
<1>1. IsFiniteSet(not_full) /\ IsFiniteSet(not_empty)
  BY ThreadAssumption, FS_Subset DEF TypeOK
<1> QED
  BY <1>1, FS_AddElement, FS_RemoveElement, FS_CardinalityType

\* The counter bounds what is in the buffer.
LEMMA OccupiedBounds ==
    ASSUME IndInv
    PROVE  Occupied \in 0 .. BUFFER_SIZE /\ Taken \in Nat /\ BufferNeverOverrun
<1>1. /\ Taken \in Nat /\ Occupied \in Int /\ count \in 0 .. BUFFER_SIZE
      /\ \A s, t \in At(CriticalSection) : s = t
  BY RingCountType DEF IndInv, TypeOK, MutexOwnership, TestHolds
<1>2. /\ At({"p_count"}) \subseteq At(CriticalSection)
      /\ At({"p_append"}) \subseteq At(CriticalSection)
      /\ At({"c_take"}) \subseteq At(CriticalSection)
      /\ At({"c_consume", "c_count"}) \subseteq At(CriticalSection)
      /\ At({"p_append"}) \cap At({"p_count"}) = {}
      /\ At({"p_append"}) \cap At({"c_consume", "c_count"}) = {}
      /\ At({"c_take"}) \cap At({"p_count"}) = {}
      /\ At({"c_take"}) \cap At({"c_consume", "c_count"}) = {}
      /\ At({"p_count"}) \cap At({"c_consume", "c_count"}) = {}
  BY DEF At, CriticalSection, InProducerSection, InConsumerSection
<1>3. /\ Count({"p_count"}) = IF At({"p_count"}) = {} THEN 0 ELSE 1
      /\ Count({"c_consume", "c_count"}) = IF At({"c_consume", "c_count"}) = {} THEN 0 ELSE 1
  <2>1. \A labels : At(labels) \subseteq At(CriticalSection) /\ At(labels) # {}
                       => \E t : At(labels) = {t}
    BY <1>1
  <2> QED
    BY <1>2, <2>1, FS_Singleton, FS_EmptySet DEF Count
<1>4. /\ At({"p_append"}) # {} => At({"p_produce", "p_append", "p_count"}) # {}
      /\ At({"p_count"}) # {} => At({"p_produce", "p_append", "p_count"}) # {}
      /\ At({"c_take"}) # {} => At({"c_take", "c_consume", "c_count"}) # {}
      /\ At({"c_consume", "c_count"}) # {} => At({"c_take", "c_consume", "c_count"}) # {}
  BY DEF At
<1>5. Occupied = count + Count({"p_count"}) - Count({"c_consume", "c_count"})
  BY <1>1, <1>3 DEF IndInv, CountMatchesBuffer
<1>6. Occupied \in 0 .. BUFFER_SIZE
  BY <1>1, <1>2, <1>3, <1>4, <1>5, BufferAssumption DEF IndInv, TestHolds
<1>7. At({"p_append"}) # {} => Occupied < BUFFER_SIZE
  BY <1>1, <1>2, <1>3, <1>4, <1>5, BufferAssumption DEF IndInv, TestHolds
<1>8. At({"c_take"}) # {} => Occupied > 0
  BY <1>1, <1>2, <1>3, <1>4, <1>5, BufferAssumption DEF IndInv, TestHolds
<1> QED
  BY <1>1, <1>6, <1>7, <1>8 DEF BufferNeverOverrun

LEMMA InitIndInv == Init => IndInv
<1> SUFFICES ASSUME Init PROVE IndInv
  OBVIOUS
<1>1. /\ RingInv /\ BufferTypeOK /\ Occupied = 0
      /\ \A labels : "unborn" \notin labels => At(labels) = {} /\ Count(labels) = 0
  BY InitRing DEF Init
<1>2. TypeOK
  BY <1>1, MonitorAssumption, ThreadAssumption
     DEF Init, ThreadInit, TypeOK, ThreadTypeOK, NoValue
<1>3. MutexOwnership
  BY <1>1 DEF Init, MutexOwnership, CriticalSection, InProducerSection, InConsumerSection
<1>4. WaitersWait /\ CountMatchesBuffer /\ TestHolds /\ NoLostWakeup
  BY <1>1, BufferAssumption
     DEF Init, WaitersWait, CountMatchesBuffer, TestHolds, NoLostWakeup
<1> QED
  BY <1>1, <1>2, <1>3, <1>4 DEF IndInv, RingInv
-----------------------------------------------------------------------------
(***************************************************************************)
(* Every step preserves the inductive invariant                            *)
(***************************************************************************)

LEMMA ProducerLockStep == ASSUME IndInv, NEW t \in Producers, ProducerLock(t) PROVE IndInv' /\ QueueStep
<1>1. /\ TypeOK /\ ThreadTypeOK(Labels) /\ BufferTypeOK /\ RingInv /\ MutexOwnership
      /\ t \in Threads /\ Step(t, "p_lock", "p_test")
  BY DEF IndInv, TypeOK, RingInv, Threads, ProducerLock, SyncStep
<1>2. ThreadTypeOK(Labels)' /\ BufferTypeOK' /\ RingInv' /\ Taken' = Taken /\ Occupied' = Occupied
  BY <1>1, SyncRing DEF ProducerLock, SyncStep, Labels
<1>3. "p_lock" \in CriticalSection \/ buffer_mutex = Unlocked
  BY DEF ProducerLock, pthread_mutex_lock, CriticalSection, InProducerSection, InConsumerSection
<1>4. MutexOwnership' /\ buffer_mutex' \in Threads \cup {Unlocked}
  BY <1>1, <1>3, OwnershipStep
     DEF ProducerLock, pthread_mutex_lock, pthread_mutex_unlock, pthread_cond_wait, CriticalSection, InProducerSection, InConsumerSection
<1>5. /\ Count({"p_count"}) = 0 /\ Count({"p_count"})' = 0
      /\ Count({"c_consume", "c_count"}) = 0 /\ Count({"c_consume", "c_count"})' = 0
      /\ Count({"p_signal"}) = 0 /\ Count({"p_signal"})' = 0
      /\ Count({"c_signal"}) = 0 /\ Count({"c_signal"})' = 0
      /\ At({"p_produce", "p_append", "p_count"}) = {} /\ At({"p_produce", "p_append", "p_count"})' = {}
      /\ At({"c_take", "c_consume", "c_count"}) = {} /\ At({"c_take", "c_consume", "c_count"})' = {}
  <2>1. SoloAt(t, "p_lock", "p_test")
    BY <1>1, <1>3, SoloCounts
  <2> QED
    BY <1>1, <2>1 DEF SoloAt, One
<1>6. /\ Count(ProducerLoop) \in Nat
      /\ Count(ProducerLoop)' = Count(ProducerLoop) + 1
      /\ Count(ConsumerLoop) \in Nat
      /\ Count(ConsumerLoop)' = Count(ConsumerLoop)
  BY <1>1, AwakeCounts DEF One, ProducerLoop, ConsumerLoop
<1>7. WaitersWait' /\ not_full' \subseteq Producers /\ not_empty' \subseteq Consumers
  BY <1>1, WaitersStep DEF ProducerLock, IndInv, TypeOK
<1>8. not_full' = not_full /\ not_empty' = not_empty
  BY DEF ProducerLock
<1>9. CountMatchesBuffer' /\ TestHolds'
  BY <1>1, <1>2, <1>5, RingCountType, BufferAssumption
     DEF ProducerLock, IndInv, CountMatchesBuffer, TestHolds
<1>10. NoLostWakeup'
  BY <1>1, <1>5, <1>6, <1>8, WaitSetSize, BufferAssumption
     DEF ProducerLock, IndInv, NoLostWakeup, AwakeProducers, AwakeConsumers, TestHolds
<1> QED
  BY <1>1, <1>2, <1>4, <1>7, <1>9, <1>10
     DEF ProducerLock, IndInv, TypeOK, RingInv, QueueStep, TestHolds

LEMMA ProducerFindsRoomStep == ASSUME IndInv, NEW t \in Producers, ProducerFindsRoom(t) PROVE IndInv' /\ QueueStep
<1>1. /\ TypeOK /\ ThreadTypeOK(Labels) /\ BufferTypeOK /\ RingInv /\ MutexOwnership
      /\ t \in Threads /\ Step(t, "p_test", "p_produce")
  BY DEF IndInv, TypeOK, RingInv, Threads, ProducerFindsRoom, SyncStep
<1>2. ThreadTypeOK(Labels)' /\ BufferTypeOK' /\ RingInv' /\ Taken' = Taken /\ Occupied' = Occupied
  BY <1>1, SyncRing DEF ProducerFindsRoom, SyncStep, Labels
<1>3. "p_test" \in CriticalSection \/ buffer_mutex = Unlocked
  BY DEF ProducerFindsRoom, pthread_mutex_lock, CriticalSection, InProducerSection, InConsumerSection, syncVars
<1>4. MutexOwnership' /\ buffer_mutex' \in Threads \cup {Unlocked}
  BY <1>1, <1>3, OwnershipStep
     DEF ProducerFindsRoom, pthread_mutex_lock, pthread_mutex_unlock, pthread_cond_wait, CriticalSection, InProducerSection, InConsumerSection, syncVars
<1>5. /\ Count({"p_count"}) = 0 /\ Count({"p_count"})' = 0
      /\ Count({"c_consume", "c_count"}) = 0 /\ Count({"c_consume", "c_count"})' = 0
      /\ Count({"p_signal"}) = 0 /\ Count({"p_signal"})' = 0
      /\ Count({"c_signal"}) = 0 /\ Count({"c_signal"})' = 0
      /\ At({"p_produce", "p_append", "p_count"}) = {} /\ At({"p_produce", "p_append", "p_count"})' = {t}
      /\ At({"c_take", "c_consume", "c_count"}) = {} /\ At({"c_take", "c_consume", "c_count"})' = {}
  <2>1. SoloAt(t, "p_test", "p_produce")
    BY <1>1, <1>3, SoloCounts
  <2> QED
    BY <1>1, <2>1 DEF SoloAt, One
<1>6. /\ Count(ProducerLoop) \in Nat
      /\ Count(ProducerLoop)' = Count(ProducerLoop)
      /\ Count(ConsumerLoop) \in Nat
      /\ Count(ConsumerLoop)' = Count(ConsumerLoop)
  BY <1>1, AwakeCounts DEF One, ProducerLoop, ConsumerLoop
<1>7. WaitersWait' /\ not_full' \subseteq Producers /\ not_empty' \subseteq Consumers
  BY <1>1, WaitersStep DEF ProducerFindsRoom, syncVars, IndInv, TypeOK
<1>8. not_full' = not_full /\ not_empty' = not_empty
  BY DEF ProducerFindsRoom, syncVars
<1>9. CountMatchesBuffer' /\ TestHolds'
  BY <1>1, <1>2, <1>5, RingCountType, BufferAssumption
     DEF ProducerFindsRoom, syncVars, IndInv, CountMatchesBuffer, TestHolds
<1>10. NoLostWakeup'
  BY <1>1, <1>5, <1>6, <1>8, WaitSetSize, BufferAssumption
     DEF ProducerFindsRoom, syncVars, IndInv, NoLostWakeup, AwakeProducers, AwakeConsumers, TestHolds
<1> QED
  BY <1>1, <1>2, <1>4, <1>7, <1>9, <1>10
     DEF ProducerFindsRoom, syncVars, IndInv, TypeOK, RingInv, QueueStep, TestHolds

LEMMA ProducerWaitsStep == ASSUME IndInv, NEW t \in Producers, ProducerWaits(t) PROVE IndInv' /\ QueueStep
<1>1. /\ TypeOK /\ ThreadTypeOK(Labels) /\ BufferTypeOK /\ RingInv /\ MutexOwnership
      /\ t \in Threads /\ Step(t, "p_test", "p_wait")
  BY DEF IndInv, TypeOK, RingInv, Threads, ProducerWaits, SyncStep
<1>2. ThreadTypeOK(Labels)' /\ BufferTypeOK' /\ RingInv' /\ Taken' = Taken /\ Occupied' = Occupied
  BY <1>1, SyncRing DEF ProducerWaits, SyncStep, Labels
<1>3. "p_test" \in CriticalSection \/ buffer_mutex = Unlocked
  BY DEF ProducerWaits, pthread_mutex_lock, CriticalSection, InProducerSection, InConsumerSection
<1>4. MutexOwnership' /\ buffer_mutex' \in Threads \cup {Unlocked}
  BY <1>1, <1>3, OwnershipStep
     DEF ProducerWaits, pthread_mutex_lock, pthread_mutex_unlock, pthread_cond_wait, CriticalSection, InProducerSection, InConsumerSection
<1>5. /\ Count({"p_count"}) = 0 /\ Count({"p_count"})' = 0
      /\ Count({"c_consume", "c_count"}) = 0 /\ Count({"c_consume", "c_count"})' = 0
      /\ Count({"p_signal"}) = 0 /\ Count({"p_signal"})' = 0
      /\ Count({"c_signal"}) = 0 /\ Count({"c_signal"})' = 0
      /\ At({"p_produce", "p_append", "p_count"}) = {} /\ At({"p_produce", "p_append", "p_count"})' = {}
      /\ At({"c_take", "c_consume", "c_count"}) = {} /\ At({"c_take", "c_consume", "c_count"})' = {}
  <2>1. SoloAt(t, "p_test", "p_wait")
    BY <1>1, <1>3, SoloCounts
  <2> QED
    BY <1>1, <2>1 DEF SoloAt, One
<1>6. /\ Count(ProducerLoop) \in Nat
      /\ Count(ProducerLoop)' = Count(ProducerLoop)
      /\ Count(ConsumerLoop) \in Nat
      /\ Count(ConsumerLoop)' = Count(ConsumerLoop)
  BY <1>1, AwakeCounts DEF One, ProducerLoop, ConsumerLoop
<1>7. WaitersWait' /\ not_full' \subseteq Producers /\ not_empty' \subseteq Consumers
  BY <1>1, WaitersStep DEF ProducerWaits, pthread_cond_wait, IndInv, TypeOK
<1>8. /\ not_full' = not_full \cup {t} /\ Cardinality(not_full') = Cardinality(not_full) + 1
      /\ Cardinality(not_full') <= Count(ProducerLoop)
  <2>1. t \notin not_full
    BY <1>1, AtLabel DEF IndInv, WaitersWait
  <2>2. t \in At({"p_test"})
    BY <1>1, AtLabel
  <2> QED
    BY <1>1, <2>1, <2>2, WaitSetSize, AwakeRoom DEF ProducerWaits, pthread_cond_wait, IndInv
<1>9. CountMatchesBuffer' /\ TestHolds'
  BY <1>1, <1>2, <1>5, RingCountType, BufferAssumption
     DEF ProducerWaits, IndInv, CountMatchesBuffer, TestHolds
<1>10. NoLostWakeup'
  BY <1>1, <1>5, <1>6, <1>8, WaitSetSize, BufferAssumption
     DEF ProducerWaits, IndInv, NoLostWakeup, AwakeProducers, AwakeConsumers, TestHolds
<1> QED
  BY <1>1, <1>2, <1>4, <1>7, <1>9, <1>10
     DEF ProducerWaits, IndInv, TypeOK, RingInv, QueueStep, TestHolds

LEMMA ProducerWakesStep == ASSUME IndInv, NEW t \in Producers, ProducerWakes(t) PROVE IndInv' /\ QueueStep
<1>1. /\ TypeOK /\ ThreadTypeOK(Labels) /\ BufferTypeOK /\ RingInv /\ MutexOwnership
      /\ t \in Threads /\ Step(t, "p_wait", "p_test")
  BY DEF IndInv, TypeOK, RingInv, Threads, ProducerWakes, SyncStep
<1>2. ThreadTypeOK(Labels)' /\ BufferTypeOK' /\ RingInv' /\ Taken' = Taken /\ Occupied' = Occupied
  BY <1>1, SyncRing DEF ProducerWakes, SyncStep, Labels
<1>3. "p_wait" \in CriticalSection \/ buffer_mutex = Unlocked
  BY DEF ProducerWakes, pthread_mutex_lock, CriticalSection, InProducerSection, InConsumerSection
<1>4. MutexOwnership' /\ buffer_mutex' \in Threads \cup {Unlocked}
  BY <1>1, <1>3, OwnershipStep
     DEF ProducerWakes, pthread_mutex_lock, pthread_mutex_unlock, pthread_cond_wait, CriticalSection, InProducerSection, InConsumerSection
<1>5. /\ Count({"p_count"}) = 0 /\ Count({"p_count"})' = 0
      /\ Count({"c_consume", "c_count"}) = 0 /\ Count({"c_consume", "c_count"})' = 0
      /\ Count({"p_signal"}) = 0 /\ Count({"p_signal"})' = 0
      /\ Count({"c_signal"}) = 0 /\ Count({"c_signal"})' = 0
      /\ At({"p_produce", "p_append", "p_count"}) = {} /\ At({"p_produce", "p_append", "p_count"})' = {}
      /\ At({"c_take", "c_consume", "c_count"}) = {} /\ At({"c_take", "c_consume", "c_count"})' = {}
  <2>1. SoloAt(t, "p_wait", "p_test")
    BY <1>1, <1>3, SoloCounts
  <2> QED
    BY <1>1, <2>1 DEF SoloAt, One
<1>6. /\ Count(ProducerLoop) \in Nat
      /\ Count(ProducerLoop)' = Count(ProducerLoop)
      /\ Count(ConsumerLoop) \in Nat
      /\ Count(ConsumerLoop)' = Count(ConsumerLoop)
  BY <1>1, AwakeCounts DEF One, ProducerLoop, ConsumerLoop
<1>7. WaitersWait' /\ not_full' \subseteq Producers /\ not_empty' \subseteq Consumers
  BY <1>1, WaitersStep, ThreadAssumption DEF ProducerWakes, IndInv, TypeOK
<1>8. not_full' = not_full /\ not_empty' = not_empty
  BY DEF ProducerWakes
<1>9. CountMatchesBuffer' /\ TestHolds'
  BY <1>1, <1>2, <1>5, RingCountType, BufferAssumption
     DEF ProducerWakes, IndInv, CountMatchesBuffer, TestHolds
<1>10. NoLostWakeup'
  BY <1>1, <1>5, <1>6, <1>8, WaitSetSize, BufferAssumption
     DEF ProducerWakes, IndInv, NoLostWakeup, AwakeProducers, AwakeConsumers, TestHolds
<1> QED
  BY <1>1, <1>2, <1>4, <1>7, <1>9, <1>10
     DEF ProducerWakes, IndInv, TypeOK, RingInv, QueueStep, TestHolds

LEMMA ProducerCountStep == ASSUME IndInv, NEW t \in Producers, ProducerCount(t) PROVE IndInv' /\ QueueStep
<1>1. /\ TypeOK /\ ThreadTypeOK(Labels) /\ BufferTypeOK /\ RingInv /\ MutexOwnership
      /\ t \in Threads /\ Step(t, "p_count", "p_signal")
  BY DEF IndInv, TypeOK, RingInv, Threads, ProducerCount, SyncStep
<1>2. ThreadTypeOK(Labels)' /\ BufferTypeOK' /\ RingInv' /\ Taken' = Taken /\ Occupied' = Occupied
  BY <1>1, SyncRing DEF ProducerCount, SyncStep, Labels
<1>3. "p_count" \in CriticalSection \/ buffer_mutex = Unlocked
  BY DEF ProducerCount, pthread_mutex_lock, CriticalSection, InProducerSection, InConsumerSection
<1>4. MutexOwnership' /\ buffer_mutex' \in Threads \cup {Unlocked}
  BY <1>1, <1>3, OwnershipStep
     DEF ProducerCount, pthread_mutex_lock, pthread_mutex_unlock, pthread_cond_wait, CriticalSection, InProducerSection, InConsumerSection
<1>5. /\ Count({"p_count"}) = 1 /\ Count({"p_count"})' = 0
      /\ Count({"c_consume", "c_count"}) = 0 /\ Count({"c_consume", "c_count"})' = 0
      /\ Count({"p_signal"}) = 0 /\ Count({"p_signal"})' = 1
      /\ Count({"c_signal"}) = 0 /\ Count({"c_signal"})' = 0
      /\ At({"p_produce", "p_append", "p_count"}) = {t} /\ At({"p_produce", "p_append", "p_count"})' = {}
      /\ At({"c_take", "c_consume", "c_count"}) = {} /\ At({"c_take", "c_consume", "c_count"})' = {}
  <2>1. SoloAt(t, "p_count", "p_signal")
    BY <1>1, <1>3, SoloCounts
  <2> QED
    BY <1>1, <2>1 DEF SoloAt, One
<1>6. /\ Count(ProducerLoop) \in Nat
      /\ Count(ProducerLoop)' = Count(ProducerLoop) - 1
      /\ Count(ConsumerLoop) \in Nat
      /\ Count(ConsumerLoop)' = Count(ConsumerLoop)
  BY <1>1, AwakeCounts DEF One, ProducerLoop, ConsumerLoop
<1>7. WaitersWait' /\ not_full' \subseteq Producers /\ not_empty' \subseteq Consumers
  BY <1>1, WaitersStep DEF ProducerCount, IndInv, TypeOK
<1>8. not_full' = not_full /\ not_empty' = not_empty
  BY DEF ProducerCount
<1>9. CountMatchesBuffer' /\ TestHolds'
  BY <1>1, <1>2, <1>5, RingCountType, BufferAssumption
     DEF ProducerCount, IndInv, CountMatchesBuffer, TestHolds
<1>10. NoLostWakeup'
  BY <1>1, <1>5, <1>6, <1>8, WaitSetSize, BufferAssumption
     DEF ProducerCount, IndInv, NoLostWakeup, AwakeProducers, AwakeConsumers, TestHolds
<1> QED
  BY <1>1, <1>2, <1>4, <1>7, <1>9, <1>10
     DEF ProducerCount, IndInv, TypeOK, RingInv, QueueStep, TestHolds

LEMMA ProducerSignalStep == ASSUME IndInv, NEW t \in Producers, ProducerSignal(t) PROVE IndInv' /\ QueueStep
<1>1. /\ TypeOK /\ ThreadTypeOK(Labels) /\ BufferTypeOK /\ RingInv /\ MutexOwnership
      /\ t \in Threads /\ Step(t, "p_signal", "p_unlock")
  BY DEF IndInv, TypeOK, RingInv, Threads, ProducerSignal, SyncStep
<1>2. ThreadTypeOK(Labels)' /\ BufferTypeOK' /\ RingInv' /\ Taken' = Taken /\ Occupied' = Occupied
  BY <1>1, SyncRing DEF ProducerSignal, SyncStep, Labels
<1>3. "p_signal" \in CriticalSection \/ buffer_mutex = Unlocked
  BY DEF ProducerSignal, pthread_mutex_lock, CriticalSection, InProducerSection, InConsumerSection
<1>4. MutexOwnership' /\ buffer_mutex' \in Threads \cup {Unlocked}
  BY <1>1, <1>3, OwnershipStep
     DEF ProducerSignal, pthread_mutex_lock, pthread_mutex_unlock, pthread_cond_wait, CriticalSection, InProducerSection, InConsumerSection
<1>5. /\ Count({"p_count"}) = 0 /\ Count({"p_count"})' = 0
      /\ Count({"c_consume", "c_count"}) = 0 /\ Count({"c_consume", "c_count"})' = 0
      /\ Count({"p_signal"}) = 1 /\ Count({"p_signal"})' = 0
      /\ Count({"c_signal"}) = 0 /\ Count({"c_signal"})' = 0
      /\ At({"p_produce", "p_append", "p_count"}) = {} /\ At({"p_produce", "p_append", "p_count"})' = {}
      /\ At({"c_take", "c_consume", "c_count"}) = {} /\ At({"c_take", "c_consume", "c_count"})' = {}
  <2>1. SoloAt(t, "p_signal", "p_unlock")
    BY <1>1, <1>3, SoloCounts
  <2> QED
    BY <1>1, <2>1 DEF SoloAt, One
<1>6. /\ Count(ProducerLoop) \in Nat
      /\ Count(ProducerLoop)' = Count(ProducerLoop)
      /\ Count(ConsumerLoop) \in Nat
      /\ Count(ConsumerLoop)' = Count(ConsumerLoop)
  BY <1>1, AwakeCounts DEF One, ProducerLoop, ConsumerLoop
<1>7. WaitersWait' /\ not_full' \subseteq Producers /\ not_empty' \subseteq Consumers
  BY <1>1, WaitersStep DEF ProducerSignal, pthread_cond_signal, IndInv, TypeOK
<1>8. \/ not_empty = {} /\ not_empty' = {}
      \/ not_empty # {} /\ Cardinality(not_empty') = Cardinality(not_empty) - 1
  BY <1>1, WaitSetSize DEF ProducerSignal, pthread_cond_signal
<1>9. CountMatchesBuffer' /\ TestHolds'
  BY <1>1, <1>2, <1>5, RingCountType, BufferAssumption
     DEF ProducerSignal, IndInv, CountMatchesBuffer, TestHolds
<1>10. NoLostWakeup'
  BY <1>1, <1>5, <1>6, <1>8, WaitSetSize, BufferAssumption
     DEF ProducerSignal, IndInv, NoLostWakeup, AwakeProducers, AwakeConsumers, TestHolds
<1> QED
  BY <1>1, <1>2, <1>4, <1>7, <1>9, <1>10
     DEF ProducerSignal, IndInv, TypeOK, RingInv, QueueStep, TestHolds

LEMMA ProducerUnlockStep == ASSUME IndInv, NEW t \in Producers, ProducerUnlock(t) PROVE IndInv' /\ QueueStep
<1> DEFINE to == IF i[t] + 1 < PRODUCTION_LIMIT THEN "p_lock" ELSE "done"
<1>1. /\ TypeOK /\ ThreadTypeOK(Labels) /\ BufferTypeOK /\ RingInv /\ MutexOwnership
      /\ t \in Threads /\ Step(t, "p_unlock", to) /\ to \in {"p_lock", "done"}
  BY DEF IndInv, TypeOK, RingInv, Threads, ProducerUnlock, EndIteration
<1> HIDE DEF to
<1>2. ThreadTypeOK(Labels)' /\ BufferTypeOK' /\ RingInv' /\ Taken' = Taken /\ Occupied' = Occupied
  BY <1>1, SyncRing DEF ProducerUnlock, EndIteration, Labels
<1>3. "p_unlock" \in CriticalSection \/ buffer_mutex = Unlocked
  BY DEF ProducerUnlock, pthread_mutex_lock, CriticalSection, InProducerSection, InConsumerSection
<1>4. MutexOwnership' /\ buffer_mutex' \in Threads \cup {Unlocked}
  BY <1>1, <1>3, OwnershipStep DEF ProducerUnlock, pthread_mutex_unlock, CriticalSection, InProducerSection, InConsumerSection
<1>5. /\ Count({"p_count"}) = 0 /\ Count({"p_count"})' = 0
      /\ Count({"c_consume", "c_count"}) = 0 /\ Count({"c_consume", "c_count"})' = 0
      /\ Count({"p_signal"}) = 0 /\ Count({"p_signal"})' = 0
      /\ Count({"c_signal"}) = 0 /\ Count({"c_signal"})' = 0
      /\ At({"p_produce", "p_append", "p_count"}) = {} /\ At({"p_produce", "p_append", "p_count"})' = {}
      /\ At({"c_take", "c_consume", "c_count"}) = {} /\ At({"c_take", "c_consume", "c_count"})' = {}
  <2>1. SoloAt(t, "p_unlock", to)
    BY <1>1, <1>3, SoloCounts
  <2> QED
    BY <1>1, <2>1 DEF SoloAt, One
<1>6. /\ Count(ProducerLoop) \in Nat
      /\ Count(ProducerLoop)' = Count(ProducerLoop)
      /\ Count(ConsumerLoop) \in Nat
      /\ Count(ConsumerLoop)' = Count(ConsumerLoop)
  BY <1>1, AwakeCounts DEF One, ProducerLoop, ConsumerLoop
<1>7. WaitersWait' /\ not_full' \subseteq Producers /\ not_empty' \subseteq Consumers
  BY <1>1, WaitersStep DEF ProducerUnlock, IndInv, TypeOK
<1>8. not_full' = not_full /\ not_empty' = not_empty
  BY DEF ProducerUnlock
<1>9. CountMatchesBuffer' /\ TestHolds'
  BY <1>1, <1>2, <1>5, RingCountType, BufferAssumption
     DEF ProducerUnlock, IndInv, CountMatchesBuffer, TestHolds
<1>10. NoLostWakeup'
  BY <1>1, <1>5, <1>6, <1>8, WaitSetSize, BufferAssumption
     DEF ProducerUnlock, IndInv, NoLostWakeup, AwakeProducers, AwakeConsumers, TestHolds
<1> QED
  BY <1>1, <1>2, <1>4, <1>7, <1>9, <1>10
     DEF ProducerUnlock, IndInv, TypeOK, RingInv, QueueStep, TestHolds

LEMMA ConsumerLockStep == ASSUME IndInv, NEW t \in Consumers, ConsumerLock(t) PROVE IndInv' /\ QueueStep
<1>1. /\ TypeOK /\ ThreadTypeOK(Labels) /\ BufferTypeOK /\ RingInv /\ MutexOwnership
      /\ t \in Threads /\ Step(t, "c_lock", "c_test")
  BY DEF IndInv, TypeOK, RingInv, Threads, ConsumerLock, SyncStep
<1>2. ThreadTypeOK(Labels)' /\ BufferTypeOK' /\ RingInv' /\ Taken' = Taken /\ Occupied' = Occupied
  BY <1>1, SyncRing DEF ConsumerLock, SyncStep, Labels
<1>3. "c_lock" \in CriticalSection \/ buffer_mutex = Unlocked
  BY DEF ConsumerLock, pthread_mutex_lock, CriticalSection, InProducerSection, InConsumerSection
<1>4. MutexOwnership' /\ buffer_mutex' \in Threads \cup {Unlocked}
  BY <1>1, <1>3, OwnershipStep
     DEF ConsumerLock, pthread_mutex_lock, pthread_mutex_unlock, pthread_cond_wait, CriticalSection, InProducerSection, InConsumerSection
<1>5. /\ Count({"p_count"}) = 0 /\ Count({"p_count"})' = 0
      /\ Count({"c_consume", "c_count"}) = 0 /\ Count({"c_consume", "c_count"})' = 0
      /\ Count({"p_signal"}) = 0 /\ Count({"p_signal"})' = 0
      /\ Count({"c_signal"}) = 0 /\ Count({"c_signal"})' = 0
      /\ At({"p_produce", "p_append", "p_count"}) = {} /\ At({"p_produce", "p_append", "p_count"})' = {}
      /\ At({"c_take", "c_consume", "c_count"}) = {} /\ At({"c_take", "c_consume", "c_count"})' = {}
  <2>1. SoloAt(t, "c_lock", "c_test")
    BY <1>1, <1>3, SoloCounts
  <2> QED
    BY <1>1, <2>1 DEF SoloAt, One
<1>6. /\ Count(ProducerLoop) \in Nat
      /\ Count(ProducerLoop)' = Count(ProducerLoop)
      /\ Count(ConsumerLoop) \in Nat
      /\ Count(ConsumerLoop)' = Count(ConsumerLoop) + 1
  BY <1>1, AwakeCounts DEF One, ProducerLoop, ConsumerLoop
<1>7. WaitersWait' /\ not_full' \subseteq Producers /\ not_empty' \subseteq Consumers
  BY <1>1, WaitersStep DEF ConsumerLock, IndInv, TypeOK
<1>8. not_full' = not_full /\ not_empty' = not_empty
  BY DEF ConsumerLock
<1>9. CountMatchesBuffer' /\ TestHolds'
  BY <1>1, <1>2, <1>5, RingCountType, BufferAssumption
     DEF ConsumerLock, IndInv, CountMatchesBuffer, TestHolds
<1>10. NoLostWakeup'
  BY <1>1, <1>5, <1>6, <1>8, WaitSetSize, BufferAssumption
     DEF ConsumerLock, IndInv, NoLostWakeup, AwakeProducers, AwakeConsumers, TestHolds
<1> QED
  BY <1>1, <1>2, <1>4, <1>7, <1>9, <1>10
     DEF ConsumerLock, IndInv, TypeOK, RingInv, QueueStep, TestHolds

LEMMA ConsumerFindsItemStep == ASSUME IndInv, NEW t \in Consumers, ConsumerFindsItem(t) PROVE IndInv' /\ QueueStep
<1>1. /\ TypeOK /\ ThreadTypeOK(Labels) /\ BufferTypeOK /\ RingInv /\ MutexOwnership
      /\ t \in Threads /\ Step(t, "c_test", "c_take")
  BY DEF IndInv, TypeOK, RingInv, Threads, ConsumerFindsItem, SyncStep
<1>2. ThreadTypeOK(Labels)' /\ BufferTypeOK' /\ RingInv' /\ Taken' = Taken /\ Occupied' = Occupied
  BY <1>1, SyncRing DEF ConsumerFindsItem, SyncStep, Labels
<1>3. "c_test" \in CriticalSection \/ buffer_mutex = Unlocked
  BY DEF ConsumerFindsItem, pthread_mutex_lock, CriticalSection, InProducerSection, InConsumerSection, syncVars
<1>4. MutexOwnership' /\ buffer_mutex' \in Threads \cup {Unlocked}
  BY <1>1, <1>3, OwnershipStep
     DEF ConsumerFindsItem, pthread_mutex_lock, pthread_mutex_unlock, pthread_cond_wait, CriticalSection, InProducerSection, InConsumerSection, syncVars
<1>5. /\ Count({"p_count"}) = 0 /\ Count({"p_count"})' = 0
      /\ Count({"c_consume", "c_count"}) = 0 /\ Count({"c_consume", "c_count"})' = 0
      /\ Count({"p_signal"}) = 0 /\ Count({"p_signal"})' = 0
      /\ Count({"c_signal"}) = 0 /\ Count({"c_signal"})' = 0
      /\ At({"p_produce", "p_append", "p_count"}) = {} /\ At({"p_produce", "p_append", "p_count"})' = {}
      /\ At({"c_take", "c_consume", "c_count"}) = {} /\ At({"c_take", "c_consume", "c_count"})' = {t}
  <2>1. SoloAt(t, "c_test", "c_take")
    BY <1>1, <1>3, SoloCounts
  <2> QED
    BY <1>1, <2>1 DEF SoloAt, One
<1>6. /\ Count(ProducerLoop) \in Nat
      /\ Count(ProducerLoop)' = Count(ProducerLoop)
      /\ Count(ConsumerLoop) \in Nat
      /\ Count(ConsumerLoop)' = Count(ConsumerLoop)
  BY <1>1, AwakeCounts DEF One, ProducerLoop, ConsumerLoop
<1>7. WaitersWait' /\ not_full' \subseteq Producers /\ not_empty' \subseteq Consumers
  BY <1>1, WaitersStep DEF ConsumerFindsItem, syncVars, IndInv, TypeOK
<1>8. not_full' = not_full /\ not_empty' = not_empty
  BY DEF ConsumerFindsItem, syncVars
<1>9. CountMatchesBuffer' /\ TestHolds'
  BY <1>1, <1>2, <1>5, RingCountType, BufferAssumption
     DEF ConsumerFindsItem, syncVars, IndInv, CountMatchesBuffer, TestHolds
<1>10. NoLostWakeup'
  BY <1>1, <1>5, <1>6, <1>8, WaitSetSize, BufferAssumption
     DEF ConsumerFindsItem, syncVars, IndInv, NoLostWakeup, AwakeProducers, AwakeConsumers, TestHolds
<1> QED
  BY <1>1, <1>2, <1>4, <1>7, <1>9, <1>10
     DEF ConsumerFindsItem, syncVars, IndInv, TypeOK, RingInv, QueueStep, TestHolds

LEMMA ConsumerWaitsStep == ASSUME IndInv, NEW t \in Consumers, ConsumerWaits(t) PROVE IndInv' /\ QueueStep
<1>1. /\ TypeOK /\ ThreadTypeOK(Labels) /\ BufferTypeOK /\ RingInv /\ MutexOwnership
      /\ t \in Threads /\ Step(t, "c_test", "c_wait")
  BY DEF IndInv, TypeOK, RingInv, Threads, ConsumerWaits, SyncStep
<1>2. ThreadTypeOK(Labels)' /\ BufferTypeOK' /\ RingInv' /\ Taken' = Taken /\ Occupied' = Occupied
  BY <1>1, SyncRing DEF ConsumerWaits, SyncStep, Labels
<1>3. "c_test" \in CriticalSection \/ buffer_mutex = Unlocked
  BY DEF ConsumerWaits, pthread_mutex_lock, CriticalSection, InProducerSection, InConsumerSection
<1>4. MutexOwnership' /\ buffer_mutex' \in Threads \cup {Unlocked}
  BY <1>1, <1>3, OwnershipStep
     DEF ConsumerWaits, pthread_mutex_lock, pthread_mutex_unlock, pthread_cond_wait, CriticalSection, InProducerSection, InConsumerSection
<1>5. /\ Count({"p_count"}) = 0 /\ Count({"p_count"})' = 0
      /\ Count({"c_consume", "c_count"}) = 0 /\ Count({"c_consume", "c_count"})' = 0
      /\ Count({"p_signal"}) = 0 /\ Count({"p_signal"})' = 0
      /\ Count({"c_signal"}) = 0 /\ Count({"c_signal"})' = 0
      /\ At({"p_produce", "p_append", "p_count"}) = {} /\ At({"p_produce", "p_append", "p_count"})' = {}
      /\ At({"c_take", "c_consume", "c_count"}) = {} /\ At({"c_take", "c_consume", "c_count"})' = {}
  <2>1. SoloAt(t, "c_test", "c_wait")
    BY <1>1, <1>3, SoloCounts
  <2> QED
    BY <1>1, <2>1 DEF SoloAt, One
<1>6. /\ Count(ProducerLoop) \in Nat
      /\ Count(ProducerLoop)' = Count(ProducerLoop)
      /\ Count(ConsumerLoop) \in Nat
      /\ Count(ConsumerLoop)' = Count(ConsumerLoop)
  BY <1>1, AwakeCounts DEF One, ProducerLoop, ConsumerLoop
<1>7. WaitersWait' /\ not_full' \subseteq Producers /\ not_empty' \subseteq Consumers
  BY <1>1, WaitersStep DEF ConsumerWaits, pthread_cond_wait, IndInv, TypeOK
<1>8. /\ not_empty' = not_empty \cup {t} /\ Cardinality(not_empty') = Cardinality(not_empty) + 1
      /\ Cardinality(not_empty') <= Count(ConsumerLoop)
  <2>1. t \notin not_empty
    BY <1>1, AtLabel DEF IndInv, WaitersWait
  <2>2. t \in At({"c_test"})
    BY <1>1, AtLabel
  <2> QED
    BY <1>1, <2>1, <2>2, WaitSetSize, AwakeRoom DEF ConsumerWaits, pthread_cond_wait, IndInv
<1>9. CountMatchesBuffer' /\ TestHolds'
  BY <1>1, <1>2, <1>5, RingCountType, BufferAssumption
     DEF ConsumerWaits, IndInv, CountMatchesBuffer, TestHolds
<1>10. NoLostWakeup'
  BY <1>1, <1>5, <1>6, <1>8, WaitSetSize, BufferAssumption
     DEF ConsumerWaits, IndInv, NoLostWakeup, AwakeProducers, AwakeConsumers, TestHolds
<1> QED
  BY <1>1, <1>2, <1>4, <1>7, <1>9, <1>10
     DEF ConsumerWaits, IndInv, TypeOK, RingInv, QueueStep, TestHolds

LEMMA ConsumerWakesStep == ASSUME IndInv, NEW t \in Consumers, ConsumerWakes(t) PROVE IndInv' /\ QueueStep
<1>1. /\ TypeOK /\ ThreadTypeOK(Labels) /\ BufferTypeOK /\ RingInv /\ MutexOwnership
      /\ t \in Threads /\ Step(t, "c_wait", "c_test")
  BY DEF IndInv, TypeOK, RingInv, Threads, ConsumerWakes, SyncStep
<1>2. ThreadTypeOK(Labels)' /\ BufferTypeOK' /\ RingInv' /\ Taken' = Taken /\ Occupied' = Occupied
  BY <1>1, SyncRing DEF ConsumerWakes, SyncStep, Labels
<1>3. "c_wait" \in CriticalSection \/ buffer_mutex = Unlocked
  BY DEF ConsumerWakes, pthread_mutex_lock, CriticalSection, InProducerSection, InConsumerSection
<1>4. MutexOwnership' /\ buffer_mutex' \in Threads \cup {Unlocked}
  BY <1>1, <1>3, OwnershipStep
     DEF ConsumerWakes, pthread_mutex_lock, pthread_mutex_unlock, pthread_cond_wait, CriticalSection, InProducerSection, InConsumerSection
<1>5. /\ Count({"p_count"}) = 0 /\ Count({"p_count"})' = 0
      /\ Count({"c_consume", "c_count"}) = 0 /\ Count({"c_consume", "c_count"})' = 0
      /\ Count({"p_signal"}) = 0 /\ Count({"p_signal"})' = 0
      /\ Count({"c_signal"}) = 0 /\ Count({"c_signal"})' = 0
      /\ At({"p_produce", "p_append", "p_count"}) = {} /\ At({"p_produce", "p_append", "p_count"})' = {}
      /\ At({"c_take", "c_consume", "c_count"}) = {} /\ At({"c_take", "c_consume", "c_count"})' = {}
  <2>1. SoloAt(t, "c_wait", "c_test")
    BY <1>1, <1>3, SoloCounts
  <2> QED
    BY <1>1, <2>1 DEF SoloAt, One
<1>6. /\ Count(ProducerLoop) \in Nat
      /\ Count(ProducerLoop)' = Count(ProducerLoop)
      /\ Count(ConsumerLoop) \in Nat
      /\ Count(ConsumerLoop)' = Count(ConsumerLoop)
  BY <1>1, AwakeCounts DEF One, ProducerLoop, ConsumerLoop
<1>7. WaitersWait' /\ not_full' \subseteq Producers /\ not_empty' \subseteq Consumers
  BY <1>1, WaitersStep, ThreadAssumption DEF ConsumerWakes, IndInv, TypeOK
<1>8. not_full' = not_full /\ not_empty' = not_empty
  BY DEF ConsumerWakes
<1>9. CountMatchesBuffer' /\ TestHolds'
  BY <1>1, <1>2, <1>5, RingCountType, BufferAssumption
     DEF ConsumerWakes, IndInv, CountMatchesBuffer, TestHolds
<1>10. NoLostWakeup'
  BY <1>1, <1>5, <1>6, <1>8, WaitSetSize, BufferAssumption
     DEF ConsumerWakes, IndInv, NoLostWakeup, AwakeProducers, AwakeConsumers, TestHolds
<1> QED
  BY <1>1, <1>2, <1>4, <1>7, <1>9, <1>10
     DEF ConsumerWakes, IndInv, TypeOK, RingInv, QueueStep, TestHolds

LEMMA ConsumerCountStep == ASSUME IndInv, NEW t \in Consumers, ConsumerCount(t) PROVE IndInv' /\ QueueStep
<1>1. /\ TypeOK /\ ThreadTypeOK(Labels) /\ BufferTypeOK /\ RingInv /\ MutexOwnership
      /\ t \in Threads /\ Step(t, "c_count", "c_signal")
  BY DEF IndInv, TypeOK, RingInv, Threads, ConsumerCount, SyncStep
<1>2. ThreadTypeOK(Labels)' /\ BufferTypeOK' /\ RingInv' /\ Taken' = Taken /\ Occupied' = Occupied
  BY <1>1, SyncRing DEF ConsumerCount, SyncStep, Labels
<1>3. "c_count" \in CriticalSection \/ buffer_mutex = Unlocked
  BY DEF ConsumerCount, pthread_mutex_lock, CriticalSection, InProducerSection, InConsumerSection
<1>4. MutexOwnership' /\ buffer_mutex' \in Threads \cup {Unlocked}
  BY <1>1, <1>3, OwnershipStep
     DEF ConsumerCount, pthread_mutex_lock, pthread_mutex_unlock, pthread_cond_wait, CriticalSection, InProducerSection, InConsumerSection
<1>5. /\ Count({"p_count"}) = 0 /\ Count({"p_count"})' = 0
      /\ Count({"c_consume", "c_count"}) = 1 /\ Count({"c_consume", "c_count"})' = 0
      /\ Count({"p_signal"}) = 0 /\ Count({"p_signal"})' = 0
      /\ Count({"c_signal"}) = 0 /\ Count({"c_signal"})' = 1
      /\ At({"p_produce", "p_append", "p_count"}) = {} /\ At({"p_produce", "p_append", "p_count"})' = {}
      /\ At({"c_take", "c_consume", "c_count"}) = {t} /\ At({"c_take", "c_consume", "c_count"})' = {}
  <2>1. SoloAt(t, "c_count", "c_signal")
    BY <1>1, <1>3, SoloCounts
  <2> QED
    BY <1>1, <2>1 DEF SoloAt, One
<1>6. /\ Count(ProducerLoop) \in Nat
      /\ Count(ProducerLoop)' = Count(ProducerLoop)
      /\ Count(ConsumerLoop) \in Nat
      /\ Count(ConsumerLoop)' = Count(ConsumerLoop) - 1
  BY <1>1, AwakeCounts DEF One, ProducerLoop, ConsumerLoop
<1>7. WaitersWait' /\ not_full' \subseteq Producers /\ not_empty' \subseteq Consumers
  BY <1>1, WaitersStep DEF ConsumerCount, IndInv, TypeOK
<1>8. not_full' = not_full /\ not_empty' = not_empty
  BY DEF ConsumerCount
<1>9. CountMatchesBuffer' /\ TestHolds'
  BY <1>1, <1>2, <1>5, RingCountType, BufferAssumption
     DEF ConsumerCount, IndInv, CountMatchesBuffer, TestHolds
<1>10. NoLostWakeup'
  BY <1>1, <1>5, <1>6, <1>8, WaitSetSize, BufferAssumption
     DEF ConsumerCount, IndInv, NoLostWakeup, AwakeProducers, AwakeConsumers, TestHolds
<1> QED
  BY <1>1, <1>2, <1>4, <1>7, <1>9, <1>10
     DEF ConsumerCount, IndInv, TypeOK, RingInv, QueueStep, TestHolds

LEMMA ConsumerSignalStep == ASSUME IndInv, NEW t \in Consumers, ConsumerSignal(t) PROVE IndInv' /\ QueueStep
<1>1. /\ TypeOK /\ ThreadTypeOK(Labels) /\ BufferTypeOK /\ RingInv /\ MutexOwnership
      /\ t \in Threads /\ Step(t, "c_signal", "c_unlock")
  BY DEF IndInv, TypeOK, RingInv, Threads, ConsumerSignal, SyncStep
<1>2. ThreadTypeOK(Labels)' /\ BufferTypeOK' /\ RingInv' /\ Taken' = Taken /\ Occupied' = Occupied
  BY <1>1, SyncRing DEF ConsumerSignal, SyncStep, Labels
<1>3. "c_signal" \in CriticalSection \/ buffer_mutex = Unlocked
  BY DEF ConsumerSignal, pthread_mutex_lock, CriticalSection, InProducerSection, InConsumerSection
<1>4. MutexOwnership' /\ buffer_mutex' \in Threads \cup {Unlocked}
  BY <1>1, <1>3, OwnershipStep
     DEF ConsumerSignal, pthread_mutex_lock, pthread_mutex_unlock, pthread_cond_wait, CriticalSection, InProducerSection, InConsumerSection
<1>5. /\ Count({"p_count"}) = 0 /\ Count({"p_count"})' = 0
      /\ Count({"c_consume", "c_count"}) = 0 /\ Count({"c_consume", "c_count"})' = 0
      /\ Count({"p_signal"}) = 0 /\ Count({"p_signal"})' = 0
      /\ Count({"c_signal"}) = 1 /\ Count({"c_signal"})' = 0
      /\ At({"p_produce", "p_append", "p_count"}) = {} /\ At({"p_produce", "p_append", "p_count"})' = {}
      /\ At({"c_take", "c_consume", "c_count"}) = {} /\ At({"c_take", "c_consume", "c_count"})' = {}
  <2>1. SoloAt(t, "c_signal", "c_unlock")
    BY <1>1, <1>3, SoloCounts
  <2> QED
    BY <1>1, <2>1 DEF SoloAt, One
<1>6. /\ Count(ProducerLoop) \in Nat
      /\ Count(ProducerLoop)' = Count(ProducerLoop)
      /\ Count(ConsumerLoop) \in Nat
      /\ Count(ConsumerLoop)' = Count(ConsumerLoop)
  BY <1>1, AwakeCounts DEF One, ProducerLoop, ConsumerLoop
<1>7. WaitersWait' /\ not_full' \subseteq Producers /\ not_empty' \subseteq Consumers
  BY <1>1, WaitersStep DEF ConsumerSignal, pthread_cond_signal, IndInv, TypeOK
<1>8. \/ not_full = {} /\ not_full' = {}
      \/ not_full # {} /\ Cardinality(not_full') = Cardinality(not_full) - 1
  BY <1>1, WaitSetSize DEF ConsumerSignal, pthread_cond_signal
<1>9. CountMatchesBuffer' /\ TestHolds'
  BY <1>1, <1>2, <1>5, RingCountType, BufferAssumption
     DEF ConsumerSignal, IndInv, CountMatchesBuffer, TestHolds
<1>10. NoLostWakeup'
  BY <1>1, <1>5, <1>6, <1>8, WaitSetSize, BufferAssumption
     DEF ConsumerSignal, IndInv, NoLostWakeup, AwakeProducers, AwakeConsumers, TestHolds
<1> QED
  BY <1>1, <1>2, <1>4, <1>7, <1>9, <1>10
     DEF ConsumerSignal, IndInv, TypeOK, RingInv, QueueStep, TestHolds

LEMMA ConsumerUnlockStep == ASSUME IndInv, NEW t \in Consumers, ConsumerUnlock(t) PROVE IndInv' /\ QueueStep
<1> DEFINE to == IF i[t] + 1 < CONSUMPTION_LIMIT THEN "c_lock" ELSE "done"
<1>1. /\ TypeOK /\ ThreadTypeOK(Labels) /\ BufferTypeOK /\ RingInv /\ MutexOwnership
      /\ t \in Threads /\ Step(t, "c_unlock", to) /\ to \in {"c_lock", "done"}
  BY DEF IndInv, TypeOK, RingInv, Threads, ConsumerUnlock, EndIteration
<1> HIDE DEF to
<1>2. ThreadTypeOK(Labels)' /\ BufferTypeOK' /\ RingInv' /\ Taken' = Taken /\ Occupied' = Occupied
  BY <1>1, SyncRing DEF ConsumerUnlock, EndIteration, Labels
<1>3. "c_unlock" \in CriticalSection \/ buffer_mutex = Unlocked
  BY DEF ConsumerUnlock, pthread_mutex_lock, CriticalSection, InProducerSection, InConsumerSection
<1>4. MutexOwnership' /\ buffer_mutex' \in Threads \cup {Unlocked}
  BY <1>1, <1>3, OwnershipStep DEF ConsumerUnlock, pthread_mutex_unlock, CriticalSection, InProducerSection, InConsumerSection
<1>5. /\ Count({"p_count"}) = 0 /\ Count({"p_count"})' = 0
      /\ Count({"c_consume", "c_count"}) = 0 /\ Count({"c_consume", "c_count"})' = 0
      /\ Count({"p_signal"}) = 0 /\ Count({"p_signal"})' = 0
      /\ Count({"c_signal"}) = 0 /\ Count({"c_signal"})' = 0
      /\ At({"p_produce", "p_append", "p_count"}) = {} /\ At({"p_produce", "p_append", "p_count"})' = {}
      /\ At({"c_take", "c_consume", "c_count"}) = {} /\ At({"c_take", "c_consume", "c_count"})' = {}
  <2>1. SoloAt(t, "c_unlock", to)
    BY <1>1, <1>3, SoloCounts
  <2> QED
    BY <1>1, <2>1 DEF SoloAt, One
<1>6. /\ Count(ProducerLoop) \in Nat
      /\ Count(ProducerLoop)' = Count(ProducerLoop)
      /\ Count(ConsumerLoop) \in Nat
      /\ Count(ConsumerLoop)' = Count(ConsumerLoop)
  BY <1>1, AwakeCounts DEF One, ProducerLoop, ConsumerLoop
<1>7. WaitersWait' /\ not_full' \subseteq Producers /\ not_empty' \subseteq Consumers
  BY <1>1, WaitersStep DEF ConsumerUnlock, IndInv, TypeOK
<1>8. not_full' = not_full /\ not_empty' = not_empty
  BY DEF ConsumerUnlock
<1>9. CountMatchesBuffer' /\ TestHolds'
  BY <1>1, <1>2, <1>5, RingCountType, BufferAssumption
     DEF ConsumerUnlock, IndInv, CountMatchesBuffer, TestHolds
<1>10. NoLostWakeup'
  BY <1>1, <1>5, <1>6, <1>8, WaitSetSize, BufferAssumption
     DEF ConsumerUnlock, IndInv, NoLostWakeup, AwakeProducers, AwakeConsumers, TestHolds
<1> QED
  BY <1>1, <1>2, <1>4, <1>7, <1>9, <1>10
     DEF ConsumerUnlock, IndInv, TypeOK, RingInv, QueueStep, TestHolds

\* The calls on the buffer keep the mutex, the counter and the condition variables.
LEMMA ProducerProduceStep == ASSUME IndInv, NEW t \in Producers, ProducerProduce(t) PROVE IndInv' /\ QueueStep
<1>1. /\ TypeOK /\ ThreadTypeOK(Labels) /\ BufferTypeOK /\ RingInv /\ MutexOwnership
      /\ t \in Threads /\ Step(t, "p_produce", "p_append") /\ CallProduce(t) /\ UNCHANGED syncVars
  BY DEF IndInv, TypeOK, RingInv, Threads, ProducerProduce, CallProduce
<1>2. "p_produce" \in CriticalSection \/ buffer_mutex = Unlocked
  BY DEF CriticalSection, InProducerSection, InConsumerSection
<1>3. MutexOwnership' /\ buffer_mutex' \in Threads \cup {Unlocked}
  BY <1>1, <1>2, OwnershipStep DEF syncVars, CriticalSection, InProducerSection, InConsumerSection
<1>4. SoloAt(t, "p_produce", "p_append")
  BY <1>1, <1>2, SoloCounts
<1>5. /\ Count({"p_count"}) = 0 /\ Count({"p_count"})' = 0
      /\ Count({"c_consume", "c_count"}) = 0 /\ Count({"c_consume", "c_count"})' = 0
      /\ Count({"p_signal"}) = 0 /\ Count({"p_signal"})' = 0
      /\ Count({"c_signal"}) = 0 /\ Count({"c_signal"})' = 0
      /\ At({"p_produce", "p_append", "p_count"}) = {t} /\ At({"p_produce", "p_append", "p_count"})' = {t}
      /\ At({"c_take", "c_consume", "c_count"}) = {} /\ At({"c_take", "c_consume", "c_count"})' = {}
  BY <1>1, <1>4 DEF SoloAt, One
<1>6. At({"p_append"}) = {} /\ At({"c_consume"}) = {} /\ At({"c_take"}) = {}
  BY <1>4 DEF SoloAt
<1>7. /\ Count(ProducerLoop) \in Nat
      /\ Count(ProducerLoop)' = Count(ProducerLoop)
      /\ Count(ConsumerLoop) \in Nat
      /\ Count(ConsumerLoop)' = Count(ConsumerLoop)
  BY <1>1, AwakeCounts DEF One, ProducerLoop, ConsumerLoop
<1>8. Occupied \in 0 .. BUFFER_SIZE
  BY OccupiedBounds
<1>9. /\ RingInv' /\ BufferTypeOK' /\ result' \in [Threads -> Nat \cup {NoValue}]
      /\ Taken' = Taken /\ Occupied' = Occupied
  BY <1>1, <1>6, <1>8, RingProduce
<1>10. ThreadTypeOK(Labels)'
  BY <1>1, <1>9 DEF ThreadTypeOK, Step, CallProduce, Labels
<1>11. WaitersWait'
  BY <1>1, WaitersStep DEF syncVars, IndInv
<1>12. CountMatchesBuffer' /\ TestHolds'
  BY <1>1, <1>5, <1>8, <1>9, BufferAssumption
     DEF syncVars, IndInv, CountMatchesBuffer, TestHolds
<1>13. NoLostWakeup'
  BY <1>1, <1>5, <1>7 DEF syncVars, IndInv, NoLostWakeup, AwakeProducers, AwakeConsumers
<1> QED
  BY <1>1, <1>3, <1>8, <1>9, <1>10, <1>11, <1>12, <1>13, BufferAssumption
     DEF syncVars, IndInv, TypeOK, RingInv, QueueStep

LEMMA ProducerAppendStep == ASSUME IndInv, NEW t \in Producers, ProducerAppend(t) PROVE IndInv' /\ QueueStep
<1>1. /\ TypeOK /\ ThreadTypeOK(Labels) /\ BufferTypeOK /\ RingInv /\ MutexOwnership
      /\ t \in Threads /\ Step(t, "p_append", "p_count") /\ CallAppend(t, "p_count") /\ UNCHANGED syncVars
  BY DEF IndInv, TypeOK, RingInv, Threads, ProducerAppend, CallAppend
<1>2. "p_append" \in CriticalSection \/ buffer_mutex = Unlocked
  BY DEF CriticalSection, InProducerSection, InConsumerSection
<1>3. MutexOwnership' /\ buffer_mutex' \in Threads \cup {Unlocked}
  BY <1>1, <1>2, OwnershipStep DEF syncVars, CriticalSection, InProducerSection, InConsumerSection
<1>4. SoloAt(t, "p_append", "p_count")
  BY <1>1, <1>2, SoloCounts
<1>5. /\ Count({"p_count"}) = 0 /\ Count({"p_count"})' = 1
      /\ Count({"c_consume", "c_count"}) = 0 /\ Count({"c_consume", "c_count"})' = 0
      /\ Count({"p_signal"}) = 0 /\ Count({"p_signal"})' = 0
      /\ Count({"c_signal"}) = 0 /\ Count({"c_signal"})' = 0
      /\ At({"p_produce", "p_append", "p_count"}) = {t} /\ At({"p_produce", "p_append", "p_count"})' = {t}
      /\ At({"c_take", "c_consume", "c_count"}) = {} /\ At({"c_take", "c_consume", "c_count"})' = {}
  BY <1>1, <1>4 DEF SoloAt, One
<1>6. At({"p_append"}) = {t} /\ At({"c_consume"}) = {} /\ At({"c_take"}) = {}
  BY <1>4 DEF SoloAt
<1>7. /\ Count(ProducerLoop) \in Nat
      /\ Count(ProducerLoop)' = Count(ProducerLoop)
      /\ Count(ConsumerLoop) \in Nat
      /\ Count(ConsumerLoop)' = Count(ConsumerLoop)
  BY <1>1, AwakeCounts DEF One, ProducerLoop, ConsumerLoop
<1>8. Occupied \in 0 .. BUFFER_SIZE - 1
  BY <1>6, OccupiedBounds, BufferAssumption DEF BufferNeverOverrun
<1>9. /\ RingInv' /\ BufferTypeOK'
      /\ Taken' = Taken /\ Occupied' = Occupied + 1
  BY <1>1, <1>6, <1>8, RingAppend
<1>10. ThreadTypeOK(Labels)'
  BY <1>1, <1>9 DEF ThreadTypeOK, Step, CallAppend, Labels
<1>11. WaitersWait'
  BY <1>1, WaitersStep DEF syncVars, IndInv
<1>12. CountMatchesBuffer' /\ TestHolds'
  BY <1>1, <1>5, <1>8, <1>9, BufferAssumption
     DEF syncVars, IndInv, CountMatchesBuffer, TestHolds
<1>13. NoLostWakeup'
  BY <1>1, <1>5, <1>7 DEF syncVars, IndInv, NoLostWakeup, AwakeProducers, AwakeConsumers
<1> QED
  BY <1>1, <1>3, <1>8, <1>9, <1>10, <1>11, <1>12, <1>13, BufferAssumption
     DEF syncVars, IndInv, TypeOK, RingInv, QueueStep

LEMMA ConsumerTakeStep == ASSUME IndInv, NEW t \in Consumers, ConsumerTake(t) PROVE IndInv' /\ QueueStep
<1>1. /\ TypeOK /\ ThreadTypeOK(Labels) /\ BufferTypeOK /\ RingInv /\ MutexOwnership
      /\ t \in Threads /\ Step(t, "c_take", "c_consume") /\ CallTake(t) /\ UNCHANGED syncVars
  BY DEF IndInv, TypeOK, RingInv, Threads, ConsumerTake, CallTake
<1>2. "c_take" \in CriticalSection \/ buffer_mutex = Unlocked
  BY DEF CriticalSection, InProducerSection, InConsumerSection
<1>3. MutexOwnership' /\ buffer_mutex' \in Threads \cup {Unlocked}
  BY <1>1, <1>2, OwnershipStep DEF syncVars, CriticalSection, InProducerSection, InConsumerSection
<1>4. SoloAt(t, "c_take", "c_consume")
  BY <1>1, <1>2, SoloCounts
<1>5. /\ Count({"p_count"}) = 0 /\ Count({"p_count"})' = 0
      /\ Count({"c_consume", "c_count"}) = 0 /\ Count({"c_consume", "c_count"})' = 1
      /\ Count({"p_signal"}) = 0 /\ Count({"p_signal"})' = 0
      /\ Count({"c_signal"}) = 0 /\ Count({"c_signal"})' = 0
      /\ At({"p_produce", "p_append", "p_count"}) = {} /\ At({"p_produce", "p_append", "p_count"})' = {}
      /\ At({"c_take", "c_consume", "c_count"}) = {t} /\ At({"c_take", "c_consume", "c_count"})' = {t}
  BY <1>1, <1>4 DEF SoloAt, One
<1>6. At({"p_append"}) = {} /\ At({"c_consume"}) = {} /\ At({"c_take"}) = {t}
  BY <1>4 DEF SoloAt
<1>7. /\ Count(ProducerLoop) \in Nat
      /\ Count(ProducerLoop)' = Count(ProducerLoop)
      /\ Count(ConsumerLoop) \in Nat
      /\ Count(ConsumerLoop)' = Count(ConsumerLoop)
  BY <1>1, AwakeCounts DEF One, ProducerLoop, ConsumerLoop
<1>8. Occupied \in 1 .. BUFFER_SIZE
  BY <1>6, OccupiedBounds, BufferAssumption DEF BufferNeverOverrun
<1>9. /\ RingInv' /\ BufferTypeOK' /\ result' \in [Threads -> Nat \cup {NoValue}]
      /\ Taken' = Taken + 1 /\ Occupied' = Occupied - 1
  BY <1>1, <1>6, <1>8, RingTake
<1>10. ThreadTypeOK(Labels)'
  BY <1>1, <1>9 DEF ThreadTypeOK, Step, CallTake, Labels
<1>11. WaitersWait'
  BY <1>1, WaitersStep DEF syncVars, IndInv
<1>12. CountMatchesBuffer' /\ TestHolds'
  BY <1>1, <1>5, <1>8, <1>9, BufferAssumption
     DEF syncVars, IndInv, CountMatchesBuffer, TestHolds
<1>13. NoLostWakeup'
  BY <1>1, <1>5, <1>7 DEF syncVars, IndInv, NoLostWakeup, AwakeProducers, AwakeConsumers
<1> QED
  BY <1>1, <1>3, <1>8, <1>9, <1>10, <1>11, <1>12, <1>13, BufferAssumption
     DEF syncVars, IndInv, TypeOK, RingInv, QueueStep

LEMMA ConsumerConsumeStep == ASSUME IndInv, NEW t \in Consumers, ConsumerConsume(t) PROVE IndInv' /\ QueueStep
<1>1. /\ TypeOK /\ ThreadTypeOK(Labels) /\ BufferTypeOK /\ RingInv /\ MutexOwnership
      /\ t \in Threads /\ Step(t, "c_consume", "c_count") /\ CallConsume(t, "c_count") /\ UNCHANGED syncVars
  BY DEF IndInv, TypeOK, RingInv, Threads, ConsumerConsume, CallConsume
<1>2. "c_consume" \in CriticalSection \/ buffer_mutex = Unlocked
  BY DEF CriticalSection, InProducerSection, InConsumerSection
<1>3. MutexOwnership' /\ buffer_mutex' \in Threads \cup {Unlocked}
  BY <1>1, <1>2, OwnershipStep DEF syncVars, CriticalSection, InProducerSection, InConsumerSection
<1>4. SoloAt(t, "c_consume", "c_count")
  BY <1>1, <1>2, SoloCounts
<1>5. /\ Count({"p_count"}) = 0 /\ Count({"p_count"})' = 0
      /\ Count({"c_consume", "c_count"}) = 1 /\ Count({"c_consume", "c_count"})' = 1
      /\ Count({"p_signal"}) = 0 /\ Count({"p_signal"})' = 0
      /\ Count({"c_signal"}) = 0 /\ Count({"c_signal"})' = 0
      /\ At({"p_produce", "p_append", "p_count"}) = {} /\ At({"p_produce", "p_append", "p_count"})' = {}
      /\ At({"c_take", "c_consume", "c_count"}) = {t} /\ At({"c_take", "c_consume", "c_count"})' = {t}
  BY <1>1, <1>4 DEF SoloAt, One
<1>6. At({"p_append"}) = {} /\ At({"c_consume"}) = {t} /\ At({"c_take"}) = {}
  BY <1>4 DEF SoloAt
<1>7. /\ Count(ProducerLoop) \in Nat
      /\ Count(ProducerLoop)' = Count(ProducerLoop)
      /\ Count(ConsumerLoop) \in Nat
      /\ Count(ConsumerLoop)' = Count(ConsumerLoop)
  BY <1>1, AwakeCounts DEF One, ProducerLoop, ConsumerLoop
<1>8. Occupied \in 0 .. BUFFER_SIZE
  BY OccupiedBounds
<1>9. /\ RingInv' /\ BufferTypeOK'
      /\ Taken' = Taken /\ Occupied' = Occupied
  BY <1>1, <1>6, <1>8, RingConsume
<1>10. ThreadTypeOK(Labels)'
  BY <1>1, <1>9 DEF ThreadTypeOK, Step, CallConsume, Labels
<1>11. WaitersWait'
  BY <1>1, WaitersStep DEF syncVars, IndInv
<1>12. CountMatchesBuffer' /\ TestHolds'
  BY <1>1, <1>5, <1>8, <1>9, BufferAssumption
     DEF syncVars, IndInv, CountMatchesBuffer, TestHolds
<1>13. NoLostWakeup'
  BY <1>1, <1>5, <1>7 DEF syncVars, IndInv, NoLostWakeup, AwakeProducers, AwakeConsumers
<1> QED
  BY <1>1, <1>3, <1>8, <1>9, <1>10, <1>11, <1>12, <1>13, BufferAssumption
     DEF syncVars, IndInv, TypeOK, RingInv, QueueStep

\* Creating a thread changes no count: the missing thread and the one at its first
\* call are outside the critical section and the while loops.
LEMMA CreateStep ==
    ASSUME IndInv, NEW t \in Threads, NEW entry \in {"p_lock", "c_lock"}, Create(t, entry),
           UNCHANGED syncVars
    PROVE  IndInv' /\ QueueStep
<1>1. /\ TypeOK /\ ThreadTypeOK(Labels) /\ BufferTypeOK /\ RingInv
      /\ Step(t, "unborn", entry) /\ UNCHANGED <<i, result, bufferVars>>
  BY DEF IndInv, TypeOK, RingInv, Create, Step
<1>2. ThreadTypeOK(Labels)' /\ BufferTypeOK' /\ RingInv' /\ Taken' = Taken /\ Occupied' = Occupied
  BY <1>1, SyncRing DEF Labels
<1>3. \A labels : {"unborn", "p_lock", "c_lock"} \cap labels = {} =>
          At(labels)' = At(labels) /\ Count(labels)' = Count(labels)
  <2> SUFFICES ASSUME NEW labels, {"unborn", "p_lock", "c_lock"} \cap labels = {}
               PROVE  At(labels)' = At(labels)
    BY DEF Count
  <2>1. t \notin At(labels) /\ entry \notin labels
    BY <1>1, AtLabel
  <2> QED
    BY <1>1, <2>1, AtMove
<1>4. /\ At(CriticalSection)' = At(CriticalSection)
      /\ At({"p_wait"})' = At({"p_wait"}) /\ At({"c_wait"})' = At({"c_wait"})
      /\ At({"p_produce", "p_append", "p_count"})' = At({"p_produce", "p_append", "p_count"})
      /\ At({"c_take", "c_consume", "c_count"})' = At({"c_take", "c_consume", "c_count"})
      /\ Count({"p_count"})' = Count({"p_count"})
      /\ Count({"c_consume", "c_count"})' = Count({"c_consume", "c_count"})
      /\ Count({"c_signal"})' = Count({"c_signal"}) /\ Count({"p_signal"})' = Count({"p_signal"})
      /\ AwakeProducers' = AwakeProducers /\ AwakeConsumers' = AwakeConsumers
  BY <1>3 DEF CriticalSection, InProducerSection, InConsumerSection, syncVars,
              AwakeProducers, AwakeConsumers, ProducerLoop, ConsumerLoop
<1> QED
  BY <1>1, <1>2, <1>4
     DEF IndInv, TypeOK, RingInv, QueueStep, syncVars, MutexOwnership, WaitersWait,
         CountMatchesBuffer, TestHolds, NoLostWakeup

\* A step of main() itself, or a spurious wakeup, leaves the program counters alone;
\* a wakeup can only add to the threads that are awake.
LEMMA StillStep ==
    ASSUME IndInv, UNCHANGED <<pc, i, result, buffer_mutex, count, bufferVars>>,
           main' \in {"launching", "joining", "returned", "failed"},
           spurious' \in 0 .. MaxSpurious,
           not_full' \subseteq not_full, not_empty' \subseteq not_empty
    PROVE  IndInv' /\ QueueStep
<1>1. RingInv' /\ BufferTypeOK' /\ Taken' = Taken /\ Occupied' = Occupied
  BY RingStill DEF IndInv, TypeOK, RingInv
<1>2. TypeOK'
  BY <1>1 DEF IndInv, TypeOK, ThreadTypeOK
<1>3. \A labels : At(labels)' = At(labels) /\ Count(labels)' = Count(labels)
  BY CountStill
<1>4. MutexOwnership' /\ WaitersWait' /\ CountMatchesBuffer' /\ TestHolds'
  BY <1>1, <1>3 DEF IndInv, MutexOwnership, WaitersWait, CountMatchesBuffer, TestHolds,
                    CriticalSection, InProducerSection, InConsumerSection
<1>5. AwakeProducers' >= AwakeProducers /\ AwakeConsumers' >= AwakeConsumers
  <2>1. /\ Cardinality(not_full') <= Cardinality(not_full) /\ Cardinality(not_full') \in Nat
        /\ Cardinality(not_empty') <= Cardinality(not_empty) /\ Cardinality(not_empty') \in Nat
    <3>1. IsFiniteSet(not_full) /\ IsFiniteSet(not_empty)
      BY ThreadAssumption, FS_Subset DEF IndInv, TypeOK
    <3> QED
      BY <3>1, FS_Subset, FS_CardinalityType
  <2> QED
    BY <1>3, <2>1, CountType, WaitSetSize DEF IndInv, AwakeProducers, AwakeConsumers
<1>6. NoLostWakeup'
  <2>1. /\ AwakeProducers \in Int /\ AwakeProducers' \in Int
        /\ AwakeConsumers \in Int /\ AwakeConsumers' \in Int
        /\ Count({"c_signal"}) \in Nat /\ Count({"p_signal"}) \in Nat
    <3>1. TypeOK'
      BY <1>2
    <3>2. Cardinality(not_full') \in Nat /\ Cardinality(not_empty') \in Nat
      <4>1. IsFiniteSet(not_full) /\ IsFiniteSet(not_empty)
        BY ThreadAssumption, FS_Subset DEF IndInv, TypeOK
      <4> QED
        BY <4>1, FS_Subset, FS_CardinalityType
    <3> QED
      BY <1>3, <3>2, CountType, WaitSetSize DEF IndInv, AwakeProducers, AwakeConsumers
  <2> QED
    BY <1>3, <1>5, <2>1, BufferAssumption DEF IndInv, TypeOK, NoLostWakeup
<1> QED
  BY <1>1, <1>2, <1>4, <1>6 DEF IndInv, RingInv, QueueStep

LEMMA NextIndInv == IndInv /\ [Next]_vars => IndInv' /\ QueueStep
<1> SUFFICES ASSUME IndInv, [Next]_vars PROVE IndInv' /\ QueueStep
  OBVIOUS
<1>1. ASSUME NEW p \in Producers, producer(p) PROVE IndInv' /\ QueueStep
  BY <1>1, ProducerLockStep, ProducerFindsRoomStep, ProducerWaitsStep, ProducerWakesStep,
     ProducerProduceStep, ProducerAppendStep, ProducerCountStep, ProducerSignalStep,
     ProducerUnlockStep DEF producer
<1>2. ASSUME NEW c \in Consumers, consumer(c) PROVE IndInv' /\ QueueStep
  BY <1>2, ConsumerLockStep, ConsumerFindsItemStep, ConsumerWaitsStep, ConsumerWakesStep,
     ConsumerTakeStep, ConsumerConsumeStep, ConsumerCountStep, ConsumerSignalStep,
     ConsumerUnlockStep DEF consumer
<1>3. CASE mainProgress
  <2>1. CASE Launch("p_lock", "c_lock")
    BY <1>3, <2>1, CreateStep DEF mainProgress, Launch, Threads
  <2>2. CASE ThreadsInitialized \/ JoinAll
    BY <1>3, <2>2, StillStep
       DEF mainProgress, ThreadsInitialized, JoinAll, MainMoves, syncVars, IndInv, TypeOK
  <2> QED
    BY <1>3, <2>1, <2>2 DEF mainProgress
<1>4. CASE CreateFails /\ UNCHANGED syncVars
  BY <1>4, StillStep DEF CreateFails, MainMoves, syncVars, IndInv, TypeOK
<1>5. CASE WakesForNoReason
  <2>1. not_full' \subseteq not_full /\ not_empty' \subseteq not_empty
    BY <1>5 DEF WakesForNoReason, SpuriousWakeup
  <2>2. spurious' \in 0 .. MaxSpurious
    BY <1>5, MonitorAssumption DEF WakesForNoReason, IndInv, TypeOK
  <2> QED
    BY <1>5, <2>1, <2>2, StillStep
       DEF WakesForNoReason, threadVars, IndInv, TypeOK, ThreadTypeOK
<1>6. CASE UNCHANGED vars
  BY <1>6, StillStep DEF vars, threadVars, syncVars, IndInv, TypeOK, ThreadTypeOK
<1> QED
  BY <1>1, <1>2, <1>3, <1>4, <1>5, <1>6 DEF Next
-----------------------------------------------------------------------------
(***************************************************************************)
(* Every pass of a loop produces or consumes one value                     *)
(***************************************************************************)
Produced == {"p_append", "p_count", "p_signal", "p_unlock"}
Consumed == {"c_count", "c_signal", "c_unlock"}

PassesCounted == CallsCounted(Produced, Consumed)

LEMMA InitCalls == Init => PassesCounted
BY CountedInit DEF Init, PassesCounted, Produced, Consumed

\* Locking, testing, waiting and signalling count nothing, nor does `count' itself.
LEMMA ProducerCalls ==
    ASSUME TypeOK, PassesCounted, NEW p \in Producers, producer(p)
    PROVE  PassesCounted'
<1>1. /\ ThreadTypeOK(Labels) /\ CallsCounted(Produced, Consumed)
      /\ p \in Threads /\ p \notin Consumers
  BY ThreadAssumption DEF TypeOK, Threads, PassesCounted
<1>2. ProducerProduce(p) => CallsCounted(Produced, Consumed)'
  BY <1>1, CountedProduce DEF ProducerProduce, Produced
<1>3. ProducerUnlock(p) => CallsCounted(Produced, Consumed)'
  BY <1>1, CountedProducerPass DEF ProducerUnlock, Produced
<1>4. ASSUME \/ ProducerLock(p) \/ ProducerFindsRoom(p) \/ ProducerWaits(p) \/ ProducerWakes(p)
             \/ ProducerAppend(p) \/ ProducerCount(p) \/ ProducerSignal(p)
      PROVE  CallsCounted(Produced, Consumed)'
  <2>1. PICK from, to : /\ Step(p, from, to) /\ i' = i
                        /\ from # "done" /\ to # "done" /\ to # "unborn"
                        /\ from \in Produced <=> to \in Produced
                        /\ globalProductionCounter' = globalProductionCounter
                        /\ console' = console
    BY <1>4 DEF ProducerLock, ProducerFindsRoom, ProducerWaits, ProducerWakes, ProducerAppend,
                ProducerCount, ProducerSignal, SyncStep, CallAppend, bufferVars, Produced
  <2> QED
    BY <1>1, <2>1, CountedMove
<1> QED
  BY <1>2, <1>3, <1>4 DEF producer, PassesCounted

LEMMA ConsumerCalls ==
    ASSUME TypeOK, PassesCounted, NEW c \in Consumers, consumer(c)
    PROVE  PassesCounted'
<1>1. /\ ThreadTypeOK(Labels) /\ CallsCounted(Produced, Consumed) /\ BufferTypeOK
      /\ c \in Threads /\ c \notin Producers
  BY ThreadAssumption DEF TypeOK, Threads, PassesCounted
<1>2. ConsumerConsume(c) => CallsCounted(Produced, Consumed)'
  BY <1>1, CountedConsume DEF ConsumerConsume, Consumed
<1>3. ConsumerUnlock(c) => CallsCounted(Produced, Consumed)'
  BY <1>1, CountedConsumerPass DEF ConsumerUnlock, Consumed
<1>4. ASSUME \/ ConsumerLock(c) \/ ConsumerFindsItem(c) \/ ConsumerWaits(c) \/ ConsumerWakes(c)
             \/ ConsumerTake(c) \/ ConsumerCount(c) \/ ConsumerSignal(c)
      PROVE  CallsCounted(Produced, Consumed)'
  <2>1. PICK from, to : /\ Step(c, from, to) /\ i' = i
                        /\ from # "done" /\ to # "done" /\ to # "unborn"
                        /\ from \in Consumed <=> to \in Consumed
                        /\ globalProductionCounter' = globalProductionCounter
                        /\ console' = console
    BY <1>4 DEF ConsumerLock, ConsumerFindsItem, ConsumerWaits, ConsumerWakes, ConsumerTake,
                ConsumerCount, ConsumerSignal, SyncStep, CallTake, bufferVars, Consumed
  <2> QED
    BY <1>1, <2>1, CountedMove
<1> QED
  BY <1>2, <1>3, <1>4 DEF consumer, PassesCounted

LEMMA NextCalls == TypeOK /\ PassesCounted /\ [Next]_vars => PassesCounted'
<1> SUFFICES ASSUME TypeOK, PassesCounted, [Next]_vars PROVE PassesCounted'
  OBVIOUS
<1>1. ThreadTypeOK(Labels) /\ CallsCounted(Produced, Consumed)
  BY DEF TypeOK, PassesCounted
<1>2. CASE Launch("p_lock", "c_lock") \/ ThreadsInitialized \/ JoinAll \/ CreateFails
  <2> DEFINE pHead == "p_lock"
             cHead == "c_lock"
  <2>1. /\ {pHead, cHead, "unborn"} \cap (Produced \cup Consumed \cup {"done"}) = {}
        /\ Launch(pHead, cHead) \/ ThreadsInitialized \/ JoinAll \/ CreateFails
        /\ pHead # "unborn" /\ cHead # "unborn"
    BY <1>2 DEF Produced, Consumed
  <2> HIDE DEF pHead, cHead
  <2> QED
    BY <1>1, <2>1, CountedMain DEF PassesCounted
<1>3. CASE WakesForNoReason \/ UNCHANGED vars
  <2>1. UNCHANGED <<pc, i, bufferVars>> /\ MainKnows'
    BY <1>1, <1>3 DEF WakesForNoReason, vars, threadVars, CallsCounted, MainKnows, At
  <2> QED
    BY <1>1, <2>1, CountedStill DEF PassesCounted
<1> QED
  BY <1>2, <1>3, ProducerCalls, ConsumerCalls DEF Next, mainProgress

\* When all threads wait, the mutex is free and each of them sleeps on its condition
\* variable; no signal is under way, so the buffer is full, or empty.
LEMMA AllBlocked ==
    ASSUME IndInv, At({"unborn"}) = {},
           \A t \in Threads \ At({"unborn", "done"}) : Blocked(t)
    PROVE  /\ At({"p_append"}) = {} /\ At({"c_consume"}) = {}
           /\ \A p \in Producers : pc[p] = "done" \/ (pc[p] = "p_wait" /\ Occupied >= BUFFER_SIZE)
           /\ \A c \in Consumers : pc[c] = "done" \/ (pc[c] = "c_wait" /\ Occupied <= 0)
<1>1. \A t \in Threads : pc[t] = "done" \/ Blocked(t)
  BY DEF At
<1>2. \A t \in not_full \cup not_empty : pc[t] \in {"p_wait", "c_wait"}
  BY DEF IndInv, WaitersWait, At
<1>3. At(CriticalSection) = {}
  BY <1>1, <1>2 DEF At, Blocked, CriticalSection, InProducerSection, InConsumerSection
<1>4. buffer_mutex = Unlocked
  BY <1>3 DEF IndInv, MutexOwnership
<1>5. \A t \in Threads : pc[t] = "done" \/ t \in not_full \cup not_empty
  BY <1>1, <1>4 DEF Blocked
<1>6. /\ \A p \in Producers : pc[p] = "done" \/ p \in not_full
      /\ \A c \in Consumers : pc[c] = "done" \/ c \in not_empty
  BY <1>5, ThreadAssumption DEF IndInv, TypeOK, Threads
<1>7. /\ At({"p_append"}) = {} /\ At({"c_consume"}) = {}
      /\ At({"p_count"}) = {} /\ At({"c_consume", "c_count"}) = {}
      /\ At({"p_signal"}) = {} /\ At({"c_signal"}) = {}
  BY <1>3 DEF At, CriticalSection, InProducerSection, InConsumerSection
<1>8. /\ count = Occupied /\ Occupied \in Int /\ count \in Int
      /\ Count({"p_signal"}) = 0 /\ Count({"c_signal"}) = 0
  <2>1. Occupied \in Int /\ count \in Int
    BY RingCountType DEF IndInv, TypeOK
  <2>2. /\ Count({"p_count"}) = 0 /\ Count({"c_consume", "c_count"}) = 0
        /\ Count({"p_signal"}) = 0 /\ Count({"c_signal"}) = 0
    BY <1>7, CountType
  <2> QED
    BY <2>1, <2>2 DEF IndInv, CountMatchesBuffer
<1>9. AwakeProducers = 0 /\ AwakeConsumers = 0
  <2>1. At(ProducerLoop) = not_full /\ At(ConsumerLoop) = not_empty
    BY <1>2, <1>5 DEF IndInv, TypeOK, WaitersWait, At, ProducerLoop, ConsumerLoop, Threads
  <2>2. Cardinality(not_full) \in Nat /\ Cardinality(not_empty) \in Nat
    BY WaitSetSize DEF IndInv
  <2> QED
    BY <2>1, <2>2 DEF AwakeProducers, AwakeConsumers, Count
<1>10. not_full # {} => Occupied >= BUFFER_SIZE
  BY <1>8, <1>9, BufferAssumption DEF IndInv, NoLostWakeup
<1>11. not_empty # {} => Occupied <= 0
  BY <1>8, <1>9 DEF IndInv, NoLostWakeup
<1>12. /\ not_full \subseteq At({"p_wait"}) /\ not_empty \subseteq At({"c_wait"})
  BY DEF IndInv, WaitersWait
<1> QED
  BY <1>6, <1>7, <1>10, <1>11, <1>12 DEF At

\* So producers and consumers cannot all sleep, as the buffer is not both full and
\* empty; and a surplus that fits the buffer is not reached while one kind is left.
LEMMA NotAllBlocked == IndInv /\ PassesCounted => NoDeadlock
<1> SUFFICES ASSUME IndInv, PassesCounted, Balanced, main = "joining", At({"done"}) # Threads,
                    \A t \in Threads \ At({"unborn", "done"}) : Blocked(t)
             PROVE  FALSE
  BY DEF NoDeadlock
<1>1. At({"unborn"}) = {} /\ BufferTypeOK
  BY DEF PassesCounted, CallsCounted, MainKnows, IndInv, TypeOK
<1>2. /\ At({"p_append"}) = {} /\ At({"c_consume"}) = {}
      /\ \A p \in Producers : pc[p] = "done" \/ (pc[p] = "p_wait" /\ Occupied >= BUFFER_SIZE)
      /\ \A c \in Consumers : pc[c] = "done" \/ (pc[c] = "c_wait" /\ Occupied <= 0)
  BY <1>1, AllBlocked
<1>3. /\ Occupied \in Int /\ BUFFER_SIZE \in Nat \ {0}
      /\ Surplus \in Int /\ 0 <= Surplus /\ Surplus <= BUFFER_SIZE
  BY <1>1, RingCountType, BufferAssumption DEF Balanced
<1>4. CASE \E p \in Producers : pc[p] # "done"
  <2>1. PICK p \in Producers : pc[p] = "p_wait" /\ Occupied >= BUFFER_SIZE
    BY <1>2, <1>4
  <2>2. Consumers \subseteq At({"done"})
    BY <1>2, <1>3, <2>1 DEF At, Threads
  <2>3. Occupied < Surplus
    BY <1>1, <1>2, <2>1, <2>2, SurplusCounted DEF PassesCounted, Produced
  <2> QED
    BY <1>3, <2>1, <2>3
<1>5. CASE \E c \in Consumers : pc[c] # "done"
  <2>1. PICK c \in Consumers : pc[c] = "c_wait" /\ Occupied <= 0
    BY <1>2, <1>5
  <2>2. Producers \subseteq At({"done"})
    BY <1>2, <1>3, <2>1 DEF At, Threads
  <2>3. Occupied > Surplus
    BY <1>1, <1>2, <2>1, <2>2, SurplusCounted DEF PassesCounted, Consumed
  <2> QED
    BY <1>3, <2>1, <2>3
<1> QED
  BY <1>4, <1>5 DEF At, Threads
-----------------------------------------------------------------------------
(***************************************************************************)
(* Results                                                                 *)
(***************************************************************************)

\* The inductive invariant holds in every state.
THEOREM Invariance == Spec => []IndInv
BY InitIndInv, NextIndInv, PTL DEF Spec

\* Every variable stays in its type.
THEOREM TypeCorrectness == Spec => []TypeOK
<1>1. IndInv => TypeOK
  BY DEF IndInv
<1> QED
  BY <1>1, Invariance, PTL

\* Only the owner of buffer_mutex is inside the critical section, although
\* pthread_cond_wait gives the mutex up in the middle of it.
THEOREM Ownership == Spec => []MutexOwnership
<1>1. IndInv => MutexOwnership
  BY DEF IndInv
<1> QED
  BY <1>1, Invariance, PTL

\* `count' agrees with the contents of the buffer.
THEOREM CounterCorrect == Spec => []CountMatchesBuffer
<1>1. IndInv => CountMatchesBuffer
  BY DEF IndInv
<1> QED
  BY <1>1, Invariance, PTL

\* The outcome of the test in a while loop is still true when it is relied on.
THEOREM TestsHold == Spec => []TestHolds
<1>1. IndInv => TestHolds
  BY DEF IndInv
<1> QED
  BY <1>1, Invariance, PTL

\* One pthread_cond_signal per update loses no wakeup, whatever the number of
\* blocked threads and of spurious wakeups.
THEOREM WakeupsKept == Spec => []NoLostWakeup
<1>1. IndInv => NoLostWakeup
  BY DEF IndInv
<1> QED
  BY <1>1, Invariance, PTL

\* If the surplus of production fits the buffer, the threads that main() waits for
\* never all sleep on the mutex and the condition variables: no spurious wakeup is
\* needed to end the program.
THEOREM DeadlockFree == Spec => []NoDeadlock
<1>1. IndInv => TypeOK
  BY DEF IndInv
<1> QED
  BY <1>1, Invariance, InitCalls, NextCalls, NotAllBlocked, PTL DEF Spec

\* When main() returns 0, the buffer holds exactly the surplus of production over
\* consumption, which is why a program whose surplus does not fit never returns.
THEOREM SurplusLeft == Spec => [](Leftover /\ (main = "returned" => Balanced))
<1>1. IndInv /\ PassesCounted => Leftover /\ (main = "returned" => Balanced)
  <2> SUFFICES ASSUME IndInv, PassesCounted, main = "returned"
               PROVE  Occupied = Surplus /\ Balanced
    BY DEF Leftover
  <2>1. At({"done"}) = Threads /\ BufferTypeOK
    BY DEF PassesCounted, CallsCounted, MainKnows, IndInv, TypeOK
  <2>2. At({"p_append"}) = {} /\ At({"c_consume"}) = {}
    BY <2>1 DEF At
  <2>3. Occupied = Surplus
    BY <2>1, <2>2, SurplusCounted DEF PassesCounted
  <2> QED
    BY <2>3, OccupiedBounds DEF Balanced
<1>2. IndInv => TypeOK
  BY DEF IndInv
<1> QED
  BY <1>1, <1>2, Invariance, InitCalls, NextCalls, PTL DEF Spec

\* The circular buffer under the monitor implements the bounded queue, whatever
\* the number of threads, the size of the buffer and the loop limits.
THEOREM Refinement == Spec => ImplementsFifo
<1>1. IndInv => FifoView /\ Taken \in Nat /\ Occupied \in 0 .. BUFFER_SIZE
  <2> SUFFICES ASSUME IndInv PROVE FifoView /\ Taken \in Nat /\ Occupied \in 0 .. BUFFER_SIZE
    OBVIOUS
  <2>1. BufferTypeOK /\ RingInv /\ Taken \in Nat /\ Occupied \in 0 .. BUFFER_SIZE
    BY OccupiedBounds DEF IndInv, TypeOK, RingInv
  <2>2. \A s, t \in At({"c_consume"}) : s = t
    <3>1. At({"c_consume"}) \subseteq At(CriticalSection)
      BY DEF At, CriticalSection, InProducerSection, InConsumerSection
    <3> QED
      BY <3>1 DEF IndInv, MutexOwnership
  <2>3. Occupied \in Nat
    BY <2>1
  <2> QED
    BY <2>1, <2>2, <2>3, RingFifoView
<1>2. IndInv' => FifoView'
  BY <1>1, PTL
<1>3. Init => Fifo!Init
  <2> SUFFICES ASSUME Init PROVE Fifo!Init
    OBVIOUS
  <2>1. Taken = 0 /\ Occupied = 0
    BY InitRing DEF Init
  <2> QED
    BY <1>1, <2>1, InitIndInv, FifoInit
<1>4. IndInv /\ IndInv' /\ [Next]_vars => [Fifo!Next]_Fifo!fifoVars
  <2> SUFFICES ASSUME IndInv, IndInv', [Next]_vars PROVE [Fifo!Next]_Fifo!fifoVars
    OBVIOUS
  <2>1. FifoView /\ Taken \in Nat /\ Occupied \in 0 .. BUFFER_SIZE /\ QueueStep
    BY <1>1, NextIndInv
  <2>2. FifoView'
    BY <1>2
  <2> QED
    BY <2>1, <2>2, FifoStep
<1> QED
  BY <1>3, <1>4, Invariance, PTL DEF Spec, ImplementsFifo, Fifo!Spec
=============================================================================
