------------------- MODULE ProducerConsumerSemaphore_proofs -------------------
(***************************************************************************)
(* Safety of ProducerConsumerSemaphore, for any finite sets of producers   *)
(* and consumers, any buffer size and any limits of the loops.             *)
(***************************************************************************)
EXTENDS ProducerConsumerSemaphore, ProducerConsumer_proofs

\* The counts of the accounting are natural numbers.
LEMMA CountsType ==
    /\ InCritical \in Nat /\ Reserved \in Nat /\ Unannounced \in Nat
    /\ Claimed \in Nat /\ Unreturned \in Nat
BY CountType DEF InCritical, Reserved, Unannounced, Claimed, Unreturned

\* What one move of one thread does to them.
LEMMA MoveCounts ==
    ASSUME ThreadTypeOK(Labels), NEW t \in Threads, NEW from, NEW to, Step(t, from, to)
    PROVE  /\ InCritical' = InCritical - One(from, CriticalSection) + One(to, CriticalSection)
           /\ Reserved' = Reserved - One(from, {"p_mutex", "p_produce", "p_append"})
                                   + One(to, {"p_mutex", "p_produce", "p_append"})
           /\ Unannounced' = Unannounced - One(from, {"p_unlock", "p_items"})
                                         + One(to, {"p_unlock", "p_items"})
           /\ Claimed' = Claimed - One(from, {"c_mutex", "c_take"})
                                 + One(to, {"c_mutex", "c_take"})
           /\ Unreturned' = Unreturned - One(from, {"c_consume", "c_unlock", "c_space"})
                                       + One(to, {"c_consume", "c_unlock", "c_space"})
BY CountMove DEF InCritical, Reserved, Unannounced, Claimed, Unreturned

\* The accounting bounds what is in the buffer.
LEMMA OccupiedBounds ==
    ASSUME TypeOK, SemaphoreAccounting
    PROVE  Occupied \in 0 .. BUFFER_SIZE /\ Taken \in Nat /\ BufferNeverOverrun
<1>1. /\ items_in_buffer_sem \in Nat /\ empty_space_in_buffer_sem \in Nat
      /\ Taken \in Nat /\ Occupied \in Int
  BY RingCountType DEF TypeOK
<1>2. Occupied \in 0 .. BUFFER_SIZE
  BY <1>1, CountsType, BufferAssumption DEF SemaphoreAccounting
<1>3. At({"p_append"}) # {} => Reserved > 0
  <2>1. At({"p_append"}) \subseteq At({"p_mutex", "p_produce", "p_append"})
    BY DEF At
  <2> QED
    BY <2>1, CountType DEF Reserved
<1>4. At({"c_take"}) # {} => Claimed > 0
  <2>1. At({"c_take"}) \subseteq At({"c_mutex", "c_take"})
    BY DEF At
  <2> QED
    BY <2>1, CountType DEF Claimed
<1> QED
  BY <1>1, <1>2, <1>3, <1>4, CountsType, BufferAssumption
     DEF SemaphoreAccounting, BufferNeverOverrun

\* A thread in the critical section is alone there.
LEMMA Alone ==
    ASSUME TypeOK, SemaphoreAccounting
    PROVE  MutualExclusion
<1>1. InCritical <= 1
  BY CountsType DEF SemaphoreAccounting, TypeOK
<1> QED
  BY <1>1, CountAtMostOne DEF InCritical, MutualExclusion

\* So it is the only one that can be about to append or to print a value.
LEMMA AloneAtRing ==
    ASSUME TypeOK, SemaphoreAccounting, NEW t \in At(CriticalSection)
    PROVE  \A label \in {"p_append", "c_consume"} : At({label}) \subseteq {t}
<1>1. \A label \in {"p_append", "c_consume"} : At({label}) \subseteq At(CriticalSection)
  BY DEF At, CriticalSection
<1> QED
  BY <1>1, Alone DEF MutualExclusion

LEMMA InitIndInv == Init => IndInv
<1> SUFFICES ASSUME Init PROVE IndInv
  OBVIOUS
<1>1. /\ RingInv /\ BufferTypeOK /\ Occupied = 0
      /\ \A labels : "unborn" \notin labels => Count(labels) = 0
  BY InitRing DEF Init
<1>2. TypeOK
  BY <1>1, BufferAssumption, ThreadAssumption DEF Init, ThreadInit, TypeOK, ThreadTypeOK, NoValue
<1>3. InCritical = 0 /\ Reserved = 0 /\ Unannounced = 0 /\ Claimed = 0 /\ Unreturned = 0
  BY <1>1 DEF InCritical, CriticalSection, Reserved, Unannounced, Claimed, Unreturned
<1>4. SemaphoreAccounting
  BY <1>1, <1>3, BufferAssumption DEF Init, SemaphoreAccounting
<1> QED
  BY <1>1, <1>2, <1>4 DEF IndInv, RingInv
-----------------------------------------------------------------------------
(***************************************************************************)
(* Every step preserves the inductive invariant                            *)
(***************************************************************************)

\* The calls on the semaphores move units between the terms of the accounting.
LEMMA SemaphoreSteps ==
    ASSUME IndInv, NEW t \in Threads,
           \/ ProducerWaitSpace(t) \/ ProducerWaitMutex(t)
           \/ ProducerPostMutex(t) \/ ProducerPostItems(t)
           \/ ConsumerWaitItems(t) \/ ConsumerWaitMutex(t)
           \/ ConsumerPostMutex(t) \/ ConsumerPostSpace(t)
    PROVE  IndInv' /\ QueueStep
<1> USE DEF One, CriticalSection, sem_wait, sem_post
<1>1. TypeOK /\ ThreadTypeOK(Labels) /\ SemaphoreAccounting /\ Occupied \in Int
  BY OccupiedBounds DEF IndInv, TypeOK
<1>2. CASE ProducerWaitSpace(t)
  <2>1. Step(t, "p_space", "p_mutex")
    BY <1>2 DEF ProducerWaitSpace, SyncStep
  <2>2. ThreadTypeOK(Labels)' /\ BufferTypeOK' /\ RingInv' /\ Taken' = Taken /\ Occupied' = Occupied
    BY <1>2, <2>1, SyncRing DEF IndInv, TypeOK, RingInv, ProducerWaitSpace, SyncStep, Labels
  <2>3. /\ InCritical' = InCritical /\ Reserved' = Reserved + 1
        /\ Unannounced' = Unannounced /\ Claimed' = Claimed
        /\ Unreturned' = Unreturned
    BY <1>1, <2>1, MoveCounts, CountsType
  <2> QED
    BY <1>1, <1>2, <2>2, <2>3, CountsType
       DEF IndInv, TypeOK, SemaphoreAccounting, ProducerWaitSpace, RingInv, QueueStep
<1>3. CASE ProducerWaitMutex(t)
  <2>1. Step(t, "p_mutex", "p_produce")
    BY <1>3 DEF ProducerWaitMutex, SyncStep
  <2>2. ThreadTypeOK(Labels)' /\ BufferTypeOK' /\ RingInv' /\ Taken' = Taken /\ Occupied' = Occupied
    BY <1>3, <2>1, SyncRing DEF IndInv, TypeOK, RingInv, ProducerWaitMutex, SyncStep, Labels
  <2>3. /\ InCritical' = InCritical + 1 /\ Reserved' = Reserved
        /\ Unannounced' = Unannounced /\ Claimed' = Claimed
        /\ Unreturned' = Unreturned
    BY <1>1, <2>1, MoveCounts, CountsType
  <2> QED
    BY <1>1, <1>3, <2>2, <2>3, CountsType
       DEF IndInv, TypeOK, SemaphoreAccounting, ProducerWaitMutex, RingInv, QueueStep
<1>4. CASE ProducerPostMutex(t)
  <2>1. Step(t, "p_unlock", "p_items")
    BY <1>4 DEF ProducerPostMutex, SyncStep
  <2>2. ThreadTypeOK(Labels)' /\ BufferTypeOK' /\ RingInv' /\ Taken' = Taken /\ Occupied' = Occupied
    BY <1>4, <2>1, SyncRing DEF IndInv, TypeOK, RingInv, ProducerPostMutex, SyncStep, Labels
  <2>3. /\ InCritical' = InCritical - 1 /\ Reserved' = Reserved
        /\ Unannounced' = Unannounced /\ Claimed' = Claimed
        /\ Unreturned' = Unreturned
    BY <1>1, <2>1, MoveCounts, CountsType
  <2> QED
    BY <1>1, <1>4, <2>2, <2>3, CountsType
       DEF IndInv, TypeOK, SemaphoreAccounting, ProducerPostMutex, RingInv, QueueStep
<1>5. CASE ProducerPostItems(t)
  <2> DEFINE next == IF i[t] + 1 < PRODUCTION_LIMIT THEN "p_space" ELSE "done"
  <2>1. Step(t, "p_items", next) /\ next \in {"p_space", "done"}
    BY <1>5 DEF ProducerPostItems, EndIteration
  <2> HIDE DEF next
  <2>2. ThreadTypeOK(Labels)' /\ BufferTypeOK' /\ RingInv' /\ Taken' = Taken /\ Occupied' = Occupied
    BY <1>5, <2>1, SyncRing DEF IndInv, TypeOK, RingInv, ProducerPostItems, EndIteration, Labels
  <2>3. /\ InCritical' = InCritical /\ Reserved' = Reserved
        /\ Unannounced' = Unannounced - 1 /\ Claimed' = Claimed
        /\ Unreturned' = Unreturned
    BY <1>1, <2>1, MoveCounts, CountsType
  <2> QED
    BY <1>1, <1>5, <2>2, <2>3, CountsType
       DEF IndInv, TypeOK, SemaphoreAccounting, ProducerPostItems, RingInv, QueueStep
<1>6. CASE ConsumerWaitItems(t)
  <2>1. Step(t, "c_items", "c_mutex")
    BY <1>6 DEF ConsumerWaitItems, SyncStep
  <2>2. ThreadTypeOK(Labels)' /\ BufferTypeOK' /\ RingInv' /\ Taken' = Taken /\ Occupied' = Occupied
    BY <1>6, <2>1, SyncRing DEF IndInv, TypeOK, RingInv, ConsumerWaitItems, SyncStep, Labels
  <2>3. /\ InCritical' = InCritical /\ Reserved' = Reserved
        /\ Unannounced' = Unannounced /\ Claimed' = Claimed + 1
        /\ Unreturned' = Unreturned
    BY <1>1, <2>1, MoveCounts, CountsType
  <2> QED
    BY <1>1, <1>6, <2>2, <2>3, CountsType
       DEF IndInv, TypeOK, SemaphoreAccounting, ConsumerWaitItems, RingInv, QueueStep
<1>7. CASE ConsumerWaitMutex(t)
  <2>1. Step(t, "c_mutex", "c_take")
    BY <1>7 DEF ConsumerWaitMutex, SyncStep
  <2>2. ThreadTypeOK(Labels)' /\ BufferTypeOK' /\ RingInv' /\ Taken' = Taken /\ Occupied' = Occupied
    BY <1>7, <2>1, SyncRing DEF IndInv, TypeOK, RingInv, ConsumerWaitMutex, SyncStep, Labels
  <2>3. /\ InCritical' = InCritical + 1 /\ Reserved' = Reserved
        /\ Unannounced' = Unannounced /\ Claimed' = Claimed
        /\ Unreturned' = Unreturned
    BY <1>1, <2>1, MoveCounts, CountsType
  <2> QED
    BY <1>1, <1>7, <2>2, <2>3, CountsType
       DEF IndInv, TypeOK, SemaphoreAccounting, ConsumerWaitMutex, RingInv, QueueStep
<1>8. CASE ConsumerPostMutex(t)
  <2>1. Step(t, "c_unlock", "c_space")
    BY <1>8 DEF ConsumerPostMutex, SyncStep
  <2>2. ThreadTypeOK(Labels)' /\ BufferTypeOK' /\ RingInv' /\ Taken' = Taken /\ Occupied' = Occupied
    BY <1>8, <2>1, SyncRing DEF IndInv, TypeOK, RingInv, ConsumerPostMutex, SyncStep, Labels
  <2>3. /\ InCritical' = InCritical - 1 /\ Reserved' = Reserved
        /\ Unannounced' = Unannounced /\ Claimed' = Claimed
        /\ Unreturned' = Unreturned
    BY <1>1, <2>1, MoveCounts, CountsType
  <2> QED
    BY <1>1, <1>8, <2>2, <2>3, CountsType
       DEF IndInv, TypeOK, SemaphoreAccounting, ConsumerPostMutex, RingInv, QueueStep
<1>9. CASE ConsumerPostSpace(t)
  <2> DEFINE next == IF i[t] + 1 < CONSUMPTION_LIMIT THEN "c_items" ELSE "done"
  <2>1. Step(t, "c_space", next) /\ next \in {"c_items", "done"}
    BY <1>9 DEF ConsumerPostSpace, EndIteration
  <2> HIDE DEF next
  <2>2. ThreadTypeOK(Labels)' /\ BufferTypeOK' /\ RingInv' /\ Taken' = Taken /\ Occupied' = Occupied
    BY <1>9, <2>1, SyncRing DEF IndInv, TypeOK, RingInv, ConsumerPostSpace, EndIteration, Labels
  <2>3. /\ InCritical' = InCritical /\ Reserved' = Reserved
        /\ Unannounced' = Unannounced /\ Claimed' = Claimed
        /\ Unreturned' = Unreturned - 1
    BY <1>1, <2>1, MoveCounts, CountsType
  <2> QED
    BY <1>1, <1>9, <2>2, <2>3, CountsType
       DEF IndInv, TypeOK, SemaphoreAccounting, ConsumerPostSpace, RingInv, QueueStep
<1> QED
  BY <1>2, <1>3, <1>4, <1>5, <1>6, <1>7, <1>8, <1>9

LEMMA ProduceStep == ASSUME IndInv, NEW p \in Producers, ProducerProduce(p) PROVE IndInv' /\ QueueStep
<1>1. /\ TypeOK /\ ThreadTypeOK(Labels) /\ BufferTypeOK /\ SemaphoreAccounting /\ RingInv
      /\ p \in Threads /\ Step(p, "p_produce", "p_append") /\ CallProduce(p) /\ UNCHANGED semVars
  BY DEF IndInv, TypeOK, RingInv, Threads, ProducerProduce, CallProduce
<1>2. /\ InCritical' = InCritical /\ Reserved' = Reserved
      /\ Unannounced' = Unannounced /\ Claimed' = Claimed /\ Unreturned' = Unreturned
  BY <1>1, MoveCounts, CountsType DEF One, CriticalSection
<1>3. At({"p_append"}) = {} /\ At({"c_consume"}) = {}
  <2>1. p \in At(CriticalSection) /\ p \notin At({"p_append"}) /\ p \notin At({"c_consume"})
    BY <1>1, AtLabel DEF CriticalSection
  <2> QED
    BY <1>1, <2>1, AloneAtRing
<1>4. RingInv' /\ BufferTypeOK' /\ result' \in [Threads -> Nat \cup {NoValue}]
      /\ Taken' = Taken /\ Occupied' = Occupied
  BY <1>1, <1>3, RingProduce
<1>5. ThreadTypeOK(Labels)'
  BY <1>1, <1>4 DEF ThreadTypeOK, Step, CallProduce, Labels
<1> QED
  BY <1>1, <1>2, <1>4, <1>5 DEF IndInv, TypeOK, SemaphoreAccounting, semVars, RingInv, QueueStep

\* append() finds a free slot, by the accounting of the empty slots.
LEMMA AppendStep ==
    ASSUME IndInv, NEW p \in Producers, ProducerAppend(p)
    PROVE  IndInv' /\ QueueStep
<1>1. /\ TypeOK /\ ThreadTypeOK(Labels) /\ BufferTypeOK /\ SemaphoreAccounting /\ RingInv
      /\ p \in Threads /\ Step(p, "p_append", "p_unlock") /\ UNCHANGED semVars
      /\ CallAppend(p, "p_unlock")
  BY DEF IndInv, TypeOK, RingInv, Threads, ProducerAppend, CallAppend
<1>2. /\ InCritical' = InCritical /\ Reserved' = Reserved - 1
      /\ Unannounced' = Unannounced + 1 /\ Claimed' = Claimed /\ Unreturned' = Unreturned
  BY <1>1, MoveCounts, CountsType DEF One, CriticalSection
<1>3. At({"p_append"}) = {p} /\ At({"c_consume"}) = {}
  <2>1. p \in At(CriticalSection) /\ p \in At({"p_append"}) /\ p \notin At({"c_consume"})
    BY <1>1, AtLabel DEF CriticalSection
  <2> QED
    BY <1>1, <2>1, AloneAtRing
<1>4. Occupied \in 0 .. BUFFER_SIZE - 1
  BY <1>1, <1>3, OccupiedBounds, BufferAssumption DEF BufferNeverOverrun
<1>5. RingInv' /\ BufferTypeOK' /\ Taken' = Taken /\ Occupied' = Occupied + 1
  BY <1>1, <1>3, <1>4, RingAppend
<1>6. ThreadTypeOK(Labels)'
  BY <1>1 DEF ThreadTypeOK, Step, CallAppend, Labels
<1>7. SemaphoreAccounting'
  BY <1>1, <1>2, <1>4, <1>5, CountsType DEF SemaphoreAccounting, semVars, TypeOK
<1> QED
  BY <1>1, <1>4, <1>5, <1>6, <1>7, BufferAssumption DEF IndInv, TypeOK, semVars, RingInv, QueueStep

\* take() finds a value, by the accounting of the items.
LEMMA TakeStep ==
    ASSUME IndInv, NEW c \in Consumers, ConsumerTake(c)
    PROVE  IndInv' /\ QueueStep
<1>1. /\ TypeOK /\ ThreadTypeOK(Labels) /\ BufferTypeOK /\ SemaphoreAccounting /\ RingInv
      /\ c \in Threads /\ Step(c, "c_take", "c_consume") /\ CallTake(c) /\ UNCHANGED semVars
  BY DEF IndInv, TypeOK, RingInv, Threads, ConsumerTake, CallTake
<1>2. /\ InCritical' = InCritical /\ Reserved' = Reserved
      /\ Unannounced' = Unannounced /\ Claimed' = Claimed - 1 /\ Unreturned' = Unreturned + 1
  BY <1>1, MoveCounts, CountsType DEF One, CriticalSection
<1>3. At({"p_append"}) = {} /\ At({"c_consume"}) = {} /\ At({"c_take"}) # {}
  <2>1. /\ c \in At(CriticalSection) /\ c \in At({"c_take"})
        /\ c \notin At({"p_append"}) /\ c \notin At({"c_consume"})
    BY <1>1, AtLabel DEF CriticalSection
  <2> QED
    BY <1>1, <2>1, AloneAtRing
<1>4. Occupied \in 1 .. BUFFER_SIZE
  BY <1>1, <1>3, OccupiedBounds, BufferAssumption DEF BufferNeverOverrun
<1>5. /\ RingInv' /\ BufferTypeOK' /\ result' \in [Threads -> Nat \cup {NoValue}]
      /\ Taken' = Taken + 1 /\ Occupied' = Occupied - 1
  BY <1>1, <1>3, <1>4, RingTake
<1>6. ThreadTypeOK(Labels)'
  BY <1>1, <1>5 DEF ThreadTypeOK, Step, CallTake, Labels
<1>7. SemaphoreAccounting'
  BY <1>1, <1>2, <1>4, <1>5, CountsType DEF SemaphoreAccounting, semVars, TypeOK
<1> QED
  BY <1>1, <1>4, <1>5, <1>6, <1>7, BufferAssumption DEF IndInv, TypeOK, semVars, RingInv, QueueStep

LEMMA ConsumeStep == ASSUME IndInv, NEW c \in Consumers, ConsumerConsume(c) PROVE IndInv' /\ QueueStep
<1>1. /\ TypeOK /\ ThreadTypeOK(Labels) /\ BufferTypeOK /\ SemaphoreAccounting /\ RingInv
      /\ c \in Threads /\ Step(c, "c_consume", "c_unlock") /\ UNCHANGED semVars
      /\ CallConsume(c, "c_unlock")
  BY DEF IndInv, TypeOK, RingInv, Threads, ConsumerConsume, CallConsume
<1>2. /\ InCritical' = InCritical /\ Reserved' = Reserved
      /\ Unannounced' = Unannounced /\ Claimed' = Claimed /\ Unreturned' = Unreturned
  BY <1>1, MoveCounts, CountsType DEF One, CriticalSection
<1>3. At({"p_append"}) = {} /\ At({"c_consume"}) = {c}
  <2>1. c \in At(CriticalSection) /\ c \notin At({"p_append"}) /\ c \in At({"c_consume"})
    BY <1>1, AtLabel DEF CriticalSection
  <2> QED
    BY <1>1, <2>1, AloneAtRing
<1>4. RingInv' /\ BufferTypeOK' /\ Taken' = Taken /\ Occupied' = Occupied
  BY <1>1, <1>3, RingConsume
<1>5. ThreadTypeOK(Labels)'
  BY <1>1 DEF ThreadTypeOK, Step, CallConsume, Labels
<1> QED
  BY <1>1, <1>2, <1>4, <1>5 DEF IndInv, TypeOK, SemaphoreAccounting, semVars, RingInv, QueueStep

\* Creating a thread changes no count: neither the missing thread nor the one
\* at its first call owns a unit of a semaphore.
LEMMA CreateStep ==
    ASSUME IndInv, NEW t \in Threads, NEW entry \in {"p_space", "c_items"}, Create(t, entry),
           UNCHANGED semVars
    PROVE  IndInv' /\ QueueStep
<1>1. /\ TypeOK /\ ThreadTypeOK(Labels) /\ SemaphoreAccounting
      /\ Step(t, "unborn", entry) /\ UNCHANGED <<i, result, bufferVars>>
  BY DEF IndInv, TypeOK, Create, Step
<1>2. ThreadTypeOK(Labels)' /\ BufferTypeOK' /\ RingInv' /\ Taken' = Taken /\ Occupied' = Occupied
  BY <1>1, SyncRing DEF IndInv, TypeOK, RingInv, Labels
<1>3. /\ InCritical' = InCritical /\ Reserved' = Reserved
      /\ Unannounced' = Unannounced /\ Claimed' = Claimed /\ Unreturned' = Unreturned
  BY <1>1, MoveCounts, CountsType DEF One, CriticalSection
<1> QED
  BY <1>1, <1>2, <1>3 DEF IndInv, TypeOK, SemaphoreAccounting, semVars, RingInv, QueueStep

\* The other steps of main() only move main() itself, and leave the threads alone.
LEMMA MainStep ==
    ASSUME IndInv, UNCHANGED <<pc, i, result, semVars, bufferVars>>,
           main' \in {"launching", "joining", "returned", "failed"}
    PROVE  IndInv' /\ QueueStep
<1>1. RingInv' /\ BufferTypeOK' /\ Taken' = Taken /\ Occupied' = Occupied
  BY RingStill DEF IndInv, TypeOK, RingInv, QueueStep
<1>2. TypeOK'
  BY <1>1 DEF IndInv, TypeOK, ThreadTypeOK, semVars
<1>3. /\ InCritical' = InCritical /\ Reserved' = Reserved
      /\ Unannounced' = Unannounced /\ Claimed' = Claimed /\ Unreturned' = Unreturned
  BY CountStill DEF InCritical, Reserved, Unannounced, Claimed, Unreturned
<1> QED
  BY <1>1, <1>2, <1>3 DEF IndInv, SemaphoreAccounting, semVars, RingInv, QueueStep

LEMMA NextIndInv == IndInv /\ [Next]_vars => IndInv' /\ QueueStep
<1> SUFFICES ASSUME IndInv, [Next]_vars PROVE IndInv' /\ QueueStep
  OBVIOUS
<1>1. ASSUME NEW p \in Producers, producer(p) PROVE IndInv' /\ QueueStep
  <2>1. p \in Threads
    BY DEF Threads
  <2> QED
    BY <1>1, <2>1, SemaphoreSteps, ProduceStep, AppendStep DEF producer, ProducerSection
<1>2. ASSUME NEW c \in Consumers, consumer(c) PROVE IndInv' /\ QueueStep
  <2>1. c \in Threads
    BY DEF Threads
  <2> QED
    BY <1>2, <2>1, SemaphoreSteps, TakeStep, ConsumeStep DEF consumer
<1>3. CASE mainProgress
  <2>1. CASE Launch("p_space", "c_items")
    BY <1>3, <2>1, CreateStep DEF mainProgress, Launch, Threads
  <2>2. CASE ThreadsInitialized \/ JoinAll
    BY <1>3, <2>2, MainStep DEF mainProgress, ThreadsInitialized, JoinAll, MainMoves
  <2> QED
    BY <1>3, <2>1, <2>2 DEF mainProgress
<1>4. CASE CreateFails /\ UNCHANGED semVars
  BY <1>4, MainStep DEF CreateFails, MainMoves
<1>5. CASE UNCHANGED vars
  <2>1. main' \in {"launching", "joining", "returned", "failed"}
    BY <1>5 DEF IndInv, TypeOK, ThreadTypeOK, vars, threadVars
  <2> QED
    BY <1>5, <2>1, MainStep DEF vars, threadVars
<1> QED
  BY <1>1, <1>2, <1>3, <1>4, <1>5 DEF Next
-----------------------------------------------------------------------------
(***************************************************************************)
(* Every pass of a loop produces or consumes one value                     *)
(***************************************************************************)
Produced == {"p_append", "p_unlock", "p_items"}
Consumed == {"c_unlock", "c_space"}

\* A producer never waits for items, nor a consumer for space.
Sides == /\ \A p \in Producers : pc[p] # "c_items"
         /\ \A c \in Consumers : pc[c] # "p_space"

PassesCounted == CallsCounted(Produced, Consumed) /\ Sides

LEMMA InitCalls == Init => PassesCounted
BY CountedInit, ThreadAssumption
   DEF Init, ThreadInit, PassesCounted, Produced, Consumed, Sides, Threads

\* The calls on the semaphores count nothing, except that the last one of a pass
\* finishes it.
LEMMA ProducerCalls ==
    ASSUME TypeOK, PassesCounted, NEW p \in Producers, producer(p)
    PROVE  PassesCounted'
<1>1. /\ ThreadTypeOK(Labels) /\ CallsCounted(Produced, Consumed)
      /\ p \in Threads /\ p \notin Consumers
  BY ThreadAssumption DEF TypeOK, Threads, PassesCounted
<1>2. ProducerProduce(p) => CallsCounted(Produced, Consumed)'
  BY <1>1, CountedProduce DEF ProducerProduce, Produced
<1>3. ProducerPostItems(p) => CallsCounted(Produced, Consumed)'
  BY <1>1, CountedProducerPass DEF ProducerPostItems, Produced
<1>4. ASSUME ProducerWaitSpace(p) \/ ProducerWaitMutex(p) \/ ProducerAppend(p) \/ ProducerPostMutex(p)
      PROVE  CallsCounted(Produced, Consumed)'
  <2>1. PICK from, to : /\ Step(p, from, to) /\ i' = i
                        /\ from # "done" /\ to # "done" /\ to # "unborn"
                        /\ from \in Produced <=> to \in Produced
                        /\ globalProductionCounter' = globalProductionCounter
                        /\ console' = console
    BY <1>4 DEF ProducerWaitSpace, ProducerWaitMutex, ProducerAppend, ProducerPostMutex,
                SyncStep, CallAppend, bufferVars, Produced
  <2> QED
    BY <1>1, <2>1, CountedMove
<1>5. \E from, to : Step(p, from, to) /\ to # "c_items"
  BY DEF producer, ProducerSection, ProducerWaitSpace, ProducerWaitMutex, ProducerProduce,
         ProducerAppend, ProducerPostMutex, ProducerPostItems, SyncStep, CallProduce,
         CallAppend, EndIteration
<1>6. Sides'
  BY <1>1, <1>5 DEF Sides, PassesCounted, Step, ThreadTypeOK, Threads
<1> QED
  BY <1>2, <1>3, <1>4, <1>6 DEF producer, ProducerSection, PassesCounted

LEMMA ConsumerCalls ==
    ASSUME TypeOK, PassesCounted, NEW c \in Consumers, consumer(c)
    PROVE  PassesCounted'
<1>1. /\ ThreadTypeOK(Labels) /\ CallsCounted(Produced, Consumed) /\ BufferTypeOK
      /\ c \in Threads /\ c \notin Producers
  BY ThreadAssumption DEF TypeOK, Threads, PassesCounted
<1>2. ConsumerConsume(c) => CallsCounted(Produced, Consumed)'
  BY <1>1, CountedConsume DEF ConsumerConsume, Consumed
<1>3. ConsumerPostSpace(c) => CallsCounted(Produced, Consumed)'
  BY <1>1, CountedConsumerPass DEF ConsumerPostSpace, Consumed
<1>4. ASSUME ConsumerWaitItems(c) \/ ConsumerWaitMutex(c) \/ ConsumerTake(c) \/ ConsumerPostMutex(c)
      PROVE  CallsCounted(Produced, Consumed)'
  <2>1. PICK from, to : /\ Step(c, from, to) /\ i' = i
                        /\ from # "done" /\ to # "done" /\ to # "unborn"
                        /\ from \in Consumed <=> to \in Consumed
                        /\ globalProductionCounter' = globalProductionCounter
                        /\ console' = console
    BY <1>4 DEF ConsumerWaitItems, ConsumerWaitMutex, ConsumerTake, ConsumerPostMutex,
                SyncStep, CallTake, bufferVars, Consumed
  <2> QED
    BY <1>1, <2>1, CountedMove
<1>5. \E from, to : Step(c, from, to) /\ to # "p_space"
  BY DEF consumer, ConsumerWaitItems, ConsumerWaitMutex, ConsumerTake, ConsumerConsume,
         ConsumerPostMutex, ConsumerPostSpace, SyncStep, CallTake, CallConsume, EndIteration
<1>6. Sides'
  BY <1>1, <1>5 DEF Sides, PassesCounted, Step, ThreadTypeOK, Threads
<1> QED
  BY <1>2, <1>3, <1>4, <1>6 DEF consumer, PassesCounted

LEMMA NextCalls == TypeOK /\ PassesCounted /\ [Next]_vars => PassesCounted'
<1> SUFFICES ASSUME TypeOK, PassesCounted, [Next]_vars PROVE PassesCounted'
  OBVIOUS
<1>1. ThreadTypeOK(Labels) /\ CallsCounted(Produced, Consumed) /\ Sides
  BY DEF TypeOK, PassesCounted
<1>2. CASE Launch("p_space", "c_items") \/ ThreadsInitialized \/ JoinAll \/ CreateFails
  <2>1. CallsCounted(Produced, Consumed)'
    <3>1. {"p_space", "c_items", "unborn"} \cap (Produced \cup Consumed \cup {"done"}) = {}
      BY DEF Produced, Consumed
    <3>2. /\ Launch("p_space", "c_items") \/ ThreadsInitialized \/ JoinAll \/ CreateFails
          /\ "p_space" # "unborn" /\ "c_items" # "unborn"
      BY <1>2
    <3> DEFINE pHead == "p_space"
               cHead == "c_items"
    <3>3. /\ {pHead, cHead, "unborn"} \cap (Produced \cup Consumed \cup {"done"}) = {}
          /\ Launch(pHead, cHead) \/ ThreadsInitialized \/ JoinAll \/ CreateFails
          /\ pHead # "unborn" /\ cHead # "unborn"
      BY <3>1, <3>2
    <3> HIDE DEF pHead, cHead
    <3> QED
      BY <1>1, <3>3, CountedMain
  <2>2. Sides'
    <3>1. CASE \E p \in Producers : Create(p, "p_space")
      BY <1>1, <3>1, ThreadAssumption DEF Create, Sides, ThreadTypeOK, Threads
    <3>2. CASE \E c \in Consumers : Create(c, "c_items")
      BY <1>1, <3>2, ThreadAssumption DEF Create, Sides, ThreadTypeOK, Threads
    <3>3. CASE pc' = pc
      BY <1>1, <3>3 DEF Sides
    <3> QED
      BY <1>2, <3>1, <3>2, <3>3
         DEF Launch, ThreadsInitialized, JoinAll, CreateFails, MainMoves
  <2> QED
    BY <2>1, <2>2 DEF PassesCounted
<1>3. CASE UNCHANGED vars
  <2>1. UNCHANGED <<pc, i, bufferVars>> /\ MainKnows'
    BY <1>1, <1>3 DEF vars, threadVars, CallsCounted, MainKnows, At
  <2> QED
    BY <1>1, <2>1, CountedStill DEF PassesCounted, Sides
<1> QED
  BY <1>2, <1>3, ProducerCalls, ConsumerCalls DEF Next, mainProgress

\* No thread is in the critical section when all of them wait; then the mutex is
\* free, and the units of the other semaphores are in the buffer.
LEMMA AllBlocked ==
    ASSUME IndInv, PassesCounted, At({"unborn"}) = {},
           \A t \in Threads \ At({"unborn", "done"}) : Blocked(t)
    PROVE  /\ At({"p_append"}) = {} /\ At({"c_consume"}) = {}
           /\ \A p \in Producers : pc[p] = "done" \/ (pc[p] = "p_space" /\ Occupied = BUFFER_SIZE)
           /\ \A c \in Consumers : pc[c] = "done" \/ (pc[c] = "c_items" /\ Occupied = 0)
<1>1. \A t \in Threads : pc[t] = "done" \/ Blocked(t)
  BY DEF At
<1>2. At(CriticalSection) = {}
  BY <1>1 DEF At, Blocked, CriticalSection
<1>3. mutual_ex_sem = 1
  BY <1>2, CountType DEF IndInv, TypeOK, SemaphoreAccounting, InCritical
<1>4. /\ At({"p_mutex", "p_produce", "p_append"}) = {} /\ At({"p_unlock", "p_items"}) = {}
      /\ At({"c_mutex", "c_take"}) = {} /\ At({"c_consume", "c_unlock", "c_space"}) = {}
  BY <1>1, <1>3 DEF At, Blocked
<1>5. /\ empty_space_in_buffer_sem + Occupied = BUFFER_SIZE
      /\ items_in_buffer_sem = Occupied
      /\ empty_space_in_buffer_sem \in Nat /\ items_in_buffer_sem \in Nat
  <2>1. Reserved = 0 /\ Unannounced = 0 /\ Claimed = 0 /\ Unreturned = 0
    BY <1>4, CountType DEF Reserved, Unannounced, Claimed, Unreturned
  <2>2. Occupied \in Int
    BY RingCountType DEF IndInv, TypeOK
  <2> QED
    BY <2>1, <2>2 DEF IndInv, TypeOK, SemaphoreAccounting
<1>6. \A p \in Producers : pc[p] = "done" \/ (pc[p] = "p_space" /\ empty_space_in_buffer_sem = 0)
  BY <1>1, <1>3 DEF Blocked, PassesCounted, Sides, Threads
<1>7. \A c \in Consumers : pc[c] = "done" \/ (pc[c] = "c_items" /\ items_in_buffer_sem = 0)
  BY <1>1, <1>3 DEF Blocked, PassesCounted, Sides, Threads
<1>8. At({"p_append"}) = {} /\ At({"c_consume"}) = {}
  BY <1>2 DEF At, CriticalSection
<1>9. Occupied \in Int
  BY RingCountType DEF IndInv, TypeOK
<1> QED
  BY <1>5, <1>6, <1>7, <1>8, <1>9, BufferAssumption

\* So producers and consumers cannot all wait, as the buffer is not both full and
\* empty; and a surplus that fits the buffer is not reached while one kind is left.
LEMMA NotAllBlocked == IndInv /\ PassesCounted => NoDeadlock
<1> SUFFICES ASSUME IndInv, PassesCounted, Balanced, main = "joining", At({"done"}) # Threads,
                    \A t \in Threads \ At({"unborn", "done"}) : Blocked(t)
             PROVE  FALSE
  BY DEF NoDeadlock
<1>1. At({"unborn"}) = {} /\ BufferTypeOK
  BY DEF PassesCounted, CallsCounted, MainKnows, IndInv, TypeOK
<1>2. /\ At({"p_append"}) = {} /\ At({"c_consume"}) = {}
      /\ \A p \in Producers : pc[p] = "done" \/ (pc[p] = "p_space" /\ Occupied = BUFFER_SIZE)
      /\ \A c \in Consumers : pc[c] = "done" \/ (pc[c] = "c_items" /\ Occupied = 0)
  BY <1>1, AllBlocked
<1>3. /\ Occupied \in Int /\ BUFFER_SIZE \in Nat \ {0}
      /\ Surplus \in Int /\ 0 <= Surplus /\ Surplus <= BUFFER_SIZE
  BY <1>1, RingCountType, BufferAssumption DEF Balanced
<1>4. CASE \E p \in Producers : pc[p] # "done"
  <2>1. PICK p \in Producers : pc[p] = "p_space" /\ Occupied = BUFFER_SIZE
    BY <1>2, <1>4
  <2>2. Consumers \subseteq At({"done"})
    BY <1>2, <1>3, <2>1 DEF At, Threads
  <2>3. Occupied < Surplus
    BY <1>1, <1>2, <2>1, <2>2, SurplusCounted DEF PassesCounted, Produced
  <2> QED
    BY <1>3, <2>1, <2>3
<1>5. CASE \E c \in Consumers : pc[c] # "done"
  <2>1. PICK c \in Consumers : pc[c] = "c_items" /\ Occupied = 0
    BY <1>2, <1>5
  <2>2. Producers \subseteq At({"done"})
    BY <1>2, <1>3, <2>1 DEF At, Threads
  <2>3. Occupied > Surplus
    BY <1>1, <1>2, <2>1, <2>2, SurplusCounted DEF PassesCounted, Consumed
  <2> QED
    BY <1>3, <2>1, <2>3
<1> QED
  BY <1>4, <1>5 DEF At, Threads
-----------------------------------------------------------------------------
(***************************************************************************)
(* Results                                                                 *)
(***************************************************************************)

\* The inductive invariant holds in every state.
THEOREM Invariance == Spec => []IndInv
BY InitIndInv, NextIndInv, PTL DEF Spec

\* Every variable stays in its type: the indices never leave the buffer and no
\* semaphore goes below zero.
THEOREM TypeCorrectness == Spec => []TypeOK
<1>1. IndInv => TypeOK
  BY DEF IndInv
<1> QED
  BY <1>1, Invariance, PTL

\* mutual_ex_sem excludes any two threads from the calls between lines 151 and
\* 157, and 187 and 191, however many threads there are.
THEOREM Exclusion == Spec => []MutualExclusion
<1>1. IndInv => MutualExclusion
  BY Alone DEF IndInv
<1> QED
  BY <1>1, Invariance, PTL

\* append() never finds the buffer full, nor take() empty, for any buffer size.
THEOREM NeverOverrun == Spec => []BufferNeverOverrun
<1>1. IndInv => BufferNeverOverrun
  BY OccupiedBounds DEF IndInv
<1> QED
  BY <1>1, Invariance, PTL

\* The units of the three semaphores are never lost nor duplicated.
THEOREM Accounting == Spec => []SemaphoreAccounting
<1>1. IndInv => SemaphoreAccounting
  BY DEF IndInv
<1> QED
  BY <1>1, Invariance, PTL

\* The console shows 0, 1, 2, ... whatever the interleaving of the threads.
THEOREM InOrder == Spec => []ConsumedInOrder
<1>1. IndInv => ConsumedInOrder
  BY DEF IndInv
<1> QED
  BY <1>1, Invariance, PTL

\* When main() returns 0, the buffer holds exactly the surplus of production over
\* consumption, for any numbers of threads and passes; so a program whose surplus
\* does not fit never returns.
THEOREM SurplusLeft == Spec => [](Leftover /\ (main = "returned" => Balanced))
<1>1. IndInv /\ PassesCounted => Leftover /\ (main = "returned" => Balanced)
  <2> SUFFICES ASSUME IndInv, PassesCounted, main = "returned"
               PROVE  Occupied = Surplus /\ Balanced
    BY DEF Leftover
  <2>1. At({"done"}) = Threads /\ BufferTypeOK
    BY DEF PassesCounted, CallsCounted, MainKnows, IndInv, TypeOK
  <2>2. At({"p_append"}) = {} /\ At({"c_consume"}) = {}
    BY <2>1 DEF At
  <2>3. Occupied = Surplus
    BY <2>1, <2>2, SurplusCounted DEF PassesCounted
  <2> QED
    BY <2>3, OccupiedBounds DEF IndInv, Balanced
<1>2. IndInv => TypeOK
  BY DEF IndInv
<1> QED
  BY <1>1, <1>2, Invariance, InitCalls, NextCalls, PTL DEF Spec

\* If the surplus of production fits the buffer, the threads that main() waits for
\* never all sleep on the semaphores, for any numbers of threads and passes.
THEOREM DeadlockFree == Spec => []NoDeadlock
<1>1. IndInv => TypeOK
  BY DEF IndInv
<1> QED
  BY <1>1, Invariance, InitCalls, NextCalls, NotAllBlocked, PTL DEF Spec

\* The circular buffer under the three semaphores implements the bounded queue,
\* whatever the number of threads, the size of the buffer and the loop limits.
THEOREM Refinement == Spec => ImplementsFifo
<1>1. IndInv => FifoView /\ Taken \in Nat /\ Occupied \in 0 .. BUFFER_SIZE
  <2> SUFFICES ASSUME IndInv PROVE FifoView /\ Taken \in Nat /\ Occupied \in 0 .. BUFFER_SIZE
    OBVIOUS
  <2>1. BufferTypeOK /\ RingInv /\ Taken \in Nat /\ Occupied \in 0 .. BUFFER_SIZE
    BY OccupiedBounds DEF IndInv, TypeOK, RingInv
  <2>2. \A s, t \in At({"c_consume"}) : s = t
    <3>1. At({"c_consume"}) \subseteq At(CriticalSection)
      BY DEF At, CriticalSection
    <3> QED
      BY <3>1, Alone DEF IndInv, MutualExclusion
  <2>3. Occupied \in Nat
    BY <2>1
  <2> QED
    BY <2>1, <2>2, <2>3, RingFifoView
<1>2. IndInv' => FifoView'
  BY <1>1, PTL
<1>3. Init => Fifo!Init
  <2> SUFFICES ASSUME Init PROVE Fifo!Init
    OBVIOUS
  <2>1. Taken = 0 /\ Occupied = 0
    BY InitRing DEF Init
  <2> QED
    BY <1>1, <2>1, InitIndInv, FifoInit
<1>4. IndInv /\ IndInv' /\ [Next]_vars => [Fifo!Next]_Fifo!fifoVars
  <2> SUFFICES ASSUME IndInv, IndInv', [Next]_vars PROVE [Fifo!Next]_Fifo!fifoVars
    OBVIOUS
  <2>1. FifoView /\ Taken \in Nat /\ Occupied \in 0 .. BUFFER_SIZE /\ QueueStep
    BY <1>1, NextIndInv
  <2>2. FifoView'
    BY <1>2
  <2> QED
    BY <2>1, <2>2, FifoStep
<1> QED
  BY <1>3, <1>4, Invariance, PTL DEF Spec, ImplementsFifo, Fifo!Spec
=============================================================================
