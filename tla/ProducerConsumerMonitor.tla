----------------------- MODULE ProducerConsumerMonitor -----------------------
(***************************************************************************)
(* project2/producerConsumerMonitor.c: the producers and consumers         *)
(* synchronised by a mutex, the condition variables not_full and not_empty *)
(* and the item counter `count'.  Every call, every test of the while      *)
(* loops and every update of `count' is one step.                          *)
(*                                                                         *)
(* A thread at "p_wait" or "c_wait" is inside pthread_cond_wait(): blocked *)
(* while it is in the set of the condition variable, and about to lock the *)
(* mutex again once it is not.                                             *)
(***************************************************************************)
EXTENDS ProducerConsumer, Posix

CONSTANT MaxSpurious    \* bound on the number of spurious wakeups

ASSUME MonitorAssumption == MaxSpurious \in Nat /\ Unlocked \notin Threads

VARIABLES buffer_mutex, not_full, not_empty, count,
          spurious      \* spurious wakeups so far

syncVars == <<buffer_mutex, not_full, not_empty, count, spurious>>
vars     == <<threadVars, syncVars, bufferVars>>

Labels ==
    {"p_lock", "p_test", "p_wait", "p_produce", "p_append", "p_count", "p_signal", "p_unlock",
     "c_lock", "c_test", "c_wait", "c_take", "c_consume", "c_count", "c_signal", "c_unlock"}

TypeOK ==
    /\ BufferTypeOK
    /\ ThreadTypeOK(Labels)
    /\ buffer_mutex \in Threads \cup {Unlocked}
    /\ not_full \subseteq Producers
    /\ not_empty \subseteq Consumers
    /\ count \in Int
    /\ spurious \in 0 .. MaxSpurious

Init ==
    /\ BufferInit
    /\ ThreadInit
    /\ buffer_mutex = Unlocked
    /\ not_full = {}
    /\ not_empty = {}
    /\ count = 0
    /\ spurious = 0

-----------------------------------------------------------------------------
(***************************************************************************)
(* producer()                                                              *)
(***************************************************************************)
ProducerLock(p) ==
    /\ SyncStep(p, "p_lock", "p_test")
    /\ pthread_mutex_lock(buffer_mutex, p)
    /\ UNCHANGED <<not_full, not_empty, count, spurious>>

ProducerFindsRoom(p) ==
    /\ SyncStep(p, "p_test", "p_produce")
    /\ count # BUFFER_SIZE
    /\ UNCHANGED syncVars

ProducerWaits(p) ==
    /\ SyncStep(p, "p_test", "p_wait")
    /\ count = BUFFER_SIZE
    /\ pthread_cond_wait(not_full, buffer_mutex, p)
    /\ UNCHANGED <<not_empty, count, spurious>>

\* Slip: `if' for `while', the condition is not tested again after the wait.
ProducerWakesUntested(p) ==
    /\ SyncStep(p, "p_wait", "p_produce")
    /\ p \notin not_full
    /\ pthread_mutex_lock(buffer_mutex, p)
    /\ UNCHANGED <<not_full, not_empty, count, spurious>>

ProducerWakes(p) ==
    /\ SyncStep(p, "p_wait", "p_test")
    /\ p \notin not_full
    /\ pthread_mutex_lock(buffer_mutex, p)
    /\ UNCHANGED <<not_full, not_empty, count, spurious>>

ProducerProduce(p) == CallProduce(p) /\ UNCHANGED syncVars

ProducerAppend(p) == CallAppend(p, "p_count") /\ UNCHANGED syncVars

ProducerCount(p) ==
    /\ SyncStep(p, "p_count", "p_signal")
    /\ count' = count + 1
    /\ UNCHANGED <<buffer_mutex, not_full, not_empty, spurious>>

\* Slip: the producers are signalled instead of the consumers.
ProducerSignalsNotFull(p) ==
    /\ SyncStep(p, "p_signal", "p_unlock")
    /\ pthread_cond_signal(not_full)
    /\ UNCHANGED <<buffer_mutex, not_empty, count, spurious>>

ProducerSignal(p) ==
    /\ SyncStep(p, "p_signal", "p_unlock")
    /\ pthread_cond_signal(not_empty)
    /\ UNCHANGED <<buffer_mutex, not_full, count, spurious>>

ProducerUnlock(p) ==
    /\ EndIteration(p, "p_unlock", "p_lock", PRODUCTION_LIMIT)
    /\ pthread_mutex_unlock(buffer_mutex)
    /\ UNCHANGED <<not_full, not_empty, count, spurious>>

producer(p) ==
    \/ ProducerLock(p) \/ ProducerFindsRoom(p) \/ ProducerWaits(p) \/ ProducerWakes(p)
    \/ ProducerProduce(p) \/ ProducerAppend(p) \/ ProducerCount(p)
    \/ ProducerSignal(p) \/ ProducerUnlock(p)

(***************************************************************************)
(* consumer()                                                              *)
(***************************************************************************)
\* Slip: the critical section is entered without the mutex.
ConsumerSkipsLock(c) == SyncStep(c, "c_lock", "c_test") /\ UNCHANGED syncVars

ConsumerLock(c) ==
    /\ SyncStep(c, "c_lock", "c_test")
    /\ pthread_mutex_lock(buffer_mutex, c)
    /\ UNCHANGED <<not_full, not_empty, count, spurious>>

ConsumerFindsItem(c) ==
    /\ SyncStep(c, "c_test", "c_take")
    /\ count # 0
    /\ UNCHANGED syncVars

ConsumerWaits(c) ==
    /\ SyncStep(c, "c_test", "c_wait")
    /\ count = 0
    /\ pthread_cond_wait(not_empty, buffer_mutex, c)
    /\ UNCHANGED <<not_full, count, spurious>>

ConsumerWakes(c) ==
    /\ SyncStep(c, "c_wait", "c_test")
    /\ c \notin not_empty
    /\ pthread_mutex_lock(buffer_mutex, c)
    /\ UNCHANGED <<not_full, not_empty, count, spurious>>

ConsumerTake(c) == CallTake(c) /\ UNCHANGED syncVars

ConsumerConsume(c) == CallConsume(c, "c_count") /\ UNCHANGED syncVars

\* Slip: the counter is left alone.
ConsumerForgetsCount(c) == SyncStep(c, "c_count", "c_signal") /\ UNCHANGED syncVars

ConsumerCount(c) ==
    /\ SyncStep(c, "c_count", "c_signal")
    /\ count' = count - 1
    /\ UNCHANGED <<buffer_mutex, not_full, not_empty, spurious>>

\* Slip: a signal is only sent when the buffer has just become non-full.
ConsumerSignalsOnlyAtEdge(c) ==
    /\ SyncStep(c, "c_signal", "c_unlock")
    /\ IF count = BUFFER_SIZE - 1 THEN pthread_cond_signal(not_full) ELSE UNCHANGED not_full
    /\ UNCHANGED <<buffer_mutex, not_empty, count, spurious>>

ConsumerSignal(c) ==
    /\ SyncStep(c, "c_signal", "c_unlock")
    /\ pthread_cond_signal(not_full)
    /\ UNCHANGED <<buffer_mutex, not_empty, count, spurious>>

ConsumerUnlock(c) ==
    /\ EndIteration(c, "c_unlock", "c_lock", CONSUMPTION_LIMIT)
    /\ pthread_mutex_unlock(buffer_mutex)
    /\ UNCHANGED <<not_full, not_empty, count, spurious>>

consumer(c) ==
    \/ ConsumerLock(c) \/ ConsumerFindsItem(c) \/ ConsumerWaits(c) \/ ConsumerWakes(c)
    \/ ConsumerTake(c) \/ ConsumerConsume(c) \/ ConsumerCount(c)
    \/ ConsumerSignal(c) \/ ConsumerUnlock(c)

(***************************************************************************)
(* main(), and the threads library                                         *)
(***************************************************************************)
mainProgress ==
    /\ Launch("p_lock", "c_lock") \/ ThreadsInitialized \/ JoinAll
    /\ UNCHANGED syncVars

WakesForNoReason ==
    /\ main # "failed"
    /\ spurious < MaxSpurious
    /\ spurious' = spurious + 1
    /\ \/ SpuriousWakeup(not_full) /\ UNCHANGED not_empty
       \/ SpuriousWakeup(not_empty) /\ UNCHANGED not_full
    /\ UNCHANGED <<threadVars, buffer_mutex, count, bufferVars>>

Next ==
    \/ \E p \in Producers : producer(p)
    \/ \E c \in Consumers : consumer(c)
    \/ mainProgress
    \/ CreateFails /\ UNCHANGED syncVars
    \/ WakesForNoReason
    \/ Ended /\ UNCHANGED vars

Spec == Init /\ [][Next]_vars

\* The kernel schedules every thread that can run.  No fairness is assumed of
\* the mutex or of the choice that pthread_cond_signal() makes.
Fairness ==
    /\ \A p \in Producers : WF_vars(producer(p))
    /\ \A c \in Consumers : WF_vars(consumer(c))
    /\ WF_vars(mainProgress)

FairSpec == Spec /\ Fairness
-----------------------------------------------------------------------------
(***************************************************************************)
(* Properties                                                              *)
(***************************************************************************)
InProducerSection == {"p_test", "p_produce", "p_append", "p_count", "p_signal", "p_unlock"}
InConsumerSection == {"c_test", "c_take", "c_consume", "c_count", "c_signal", "c_unlock"}
CriticalSection   == InProducerSection \cup InConsumerSection

\* The mutex belongs to the one thread inside the critical section, and is free
\* when there is none: pthread_cond_wait() gives it up and takes it back (150-167).
MutexOwnership ==
    /\ \A t \in At(CriticalSection) : buffer_mutex = t
    /\ buffer_mutex # Unlocked => buffer_mutex \in At(CriticalSection)

\* A thread blocked on a condition variable is in the while loop of its kind.
WaitersWait == not_full \subseteq At({"p_wait"}) /\ not_empty \subseteq At({"c_wait"})

\* `count' is the number of values in the buffer, except between append() or
\* take() and the update of the counter (lines 160-162 and 202-205).
CountMatchesBuffer ==
    count = Occupied - Count({"p_count"}) + Count({"c_consume", "c_count"})

\* How many threads are awake and hold, or will test for, a free slot or an item.
ProducerLoop == {"p_wait", "p_test", "p_produce", "p_append", "p_count"}
ConsumerLoop == {"c_wait", "c_test", "c_take", "c_consume", "c_count"}

AwakeProducers == Count(ProducerLoop) - Cardinality(not_full)
AwakeConsumers == Count(ConsumerLoop) - Cardinality(not_empty)

\* No wakeup is lost.  While a producer is blocked, every free slot has a producer
\* awake to fill it or a consumer about to signal; while a consumer is blocked,
\* every item has a consumer awake to take it or a producer about to signal (one
\* pthread_cond_signal per update is enough, lines 165 and 208).
NoLostWakeup ==
    /\ not_full # {} => BUFFER_SIZE - count <= AwakeProducers + Count({"c_signal"})
    /\ not_empty # {} => count <= AwakeConsumers + Count({"p_signal"})

\* What a thread found when it tested `count' still holds when it appends or takes,
\* and when it updates `count' (lines 154-162 and 197-205).
TestHolds ==
    /\ At({"p_produce", "p_append", "p_count"}) # {} => count < BUFFER_SIZE
    /\ At({"c_take", "c_consume", "c_count"}) # {} => count > 0
    /\ count \in 0 .. BUFFER_SIZE

\* A thread waits for the mutex, or to be signalled.
Blocked(t) ==
    \/ pc[t] \in {"p_lock", "p_wait", "c_lock", "c_wait"} /\ buffer_mutex # Unlocked
    \/ t \in not_full \cup not_empty

\* As long as main() waits for a thread that has not finished, some thread can go
\* on without a spurious wakeup, if the surplus of production fits the buffer: it
\* never happens that all of them sleep on the condition variables (150-167).
NoDeadlock ==
    Balanced /\ main = "joining" =>
        \/ At({"done"}) = Threads
        \/ \E t \in Threads \ At({"unborn", "done"}) : ~ Blocked(t)

\* The inductive invariant from which the others follow.
IndInv ==
    /\ TypeOK /\ MutexOwnership /\ WaitersWait /\ CountMatchesBuffer /\ TestHolds
    /\ NoLostWakeup /\ RingContents /\ ConsumedInOrder
=============================================================================
