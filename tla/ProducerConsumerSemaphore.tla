---------------------- MODULE ProducerConsumerSemaphore ----------------------
(***************************************************************************)
(* project2/producerConsumerSemaphore.c: the producers and consumers       *)
(* synchronised by three counting semaphores.  Every call on a semaphore   *)
(* and every function of the circular buffer is one step.                  *)
(*                                                                         *)
(* The file uses items_in_buffer_sem without declaring it (39-41 declare   *)
(* buffer_size_sem, which nothing uses); the model takes it as the sem_t   *)
(* that main() initialises at line 216.                                    *)
(*                                                                         *)
(* An operator whose comment starts with `Slip' is a plausible mistake in  *)
(* the definition that follows it, kept to show that a property can fail.  *)
(***************************************************************************)
EXTENDS ProducerConsumer, Posix

VARIABLES mutual_ex_sem, items_in_buffer_sem, empty_space_in_buffer_sem

semVars == <<mutual_ex_sem, items_in_buffer_sem, empty_space_in_buffer_sem>>
vars    == <<threadVars, semVars, bufferVars>>

Labels == {"p_space", "p_mutex", "p_produce", "p_append", "p_unlock", "p_items",
           "c_items", "c_mutex", "c_take", "c_consume", "c_unlock", "c_space"}

TypeOK ==
    /\ BufferTypeOK
    /\ ThreadTypeOK(Labels)
    /\ mutual_ex_sem \in Nat
    /\ items_in_buffer_sem \in Nat
    /\ empty_space_in_buffer_sem \in Nat

Init ==
    /\ BufferInit
    /\ ThreadInit
    /\ mutual_ex_sem = 1
    /\ items_in_buffer_sem = 0
    /\ empty_space_in_buffer_sem = BUFFER_SIZE

-----------------------------------------------------------------------------
(***************************************************************************)
(* producer()                                                              *)
(***************************************************************************)
ProducerWaitSpace(p) ==
    /\ SyncStep(p, "p_space", "p_mutex")
    /\ sem_wait(empty_space_in_buffer_sem)
    /\ UNCHANGED <<mutual_ex_sem, items_in_buffer_sem>>

ProducerWaitMutex(p) ==
    /\ SyncStep(p, "p_mutex", "p_produce")
    /\ sem_wait(mutual_ex_sem)
    /\ UNCHANGED <<items_in_buffer_sem, empty_space_in_buffer_sem>>

ProducerProduce(p) == CallProduce(p) /\ UNCHANGED semVars

ProducerAppend(p) == CallAppend(p, "p_unlock") /\ UNCHANGED semVars

ProducerPostMutex(p) ==
    /\ SyncStep(p, "p_unlock", "p_items")
    /\ sem_post(mutual_ex_sem)
    /\ UNCHANGED <<items_in_buffer_sem, empty_space_in_buffer_sem>>

ProducerPostItems(p) ==
    /\ EndIteration(p, "p_items", "p_space", PRODUCTION_LIMIT)
    /\ sem_post(items_in_buffer_sem)
    /\ UNCHANGED <<mutual_ex_sem, empty_space_in_buffer_sem>>

ProducerSection(p) ==
    \/ ProducerProduce(p) \/ ProducerAppend(p)
    \/ ProducerPostMutex(p) \/ ProducerPostItems(p)

\* Slip: the two waits in the other order, the mutex first.
producerMutexFirst(p) ==
    \/ /\ SyncStep(p, "p_space", "p_mutex")
       /\ sem_wait(mutual_ex_sem)
       /\ UNCHANGED <<items_in_buffer_sem, empty_space_in_buffer_sem>>
    \/ /\ SyncStep(p, "p_mutex", "p_produce")
       /\ sem_wait(empty_space_in_buffer_sem)
       /\ UNCHANGED <<mutual_ex_sem, items_in_buffer_sem>>
    \/ ProducerSection(p)

producer(p) == ProducerWaitSpace(p) \/ ProducerWaitMutex(p) \/ ProducerSection(p)

(***************************************************************************)
(* consumer()                                                              *)
(***************************************************************************)
ConsumerWaitItems(c) ==
    /\ SyncStep(c, "c_items", "c_mutex")
    /\ sem_wait(items_in_buffer_sem)
    /\ UNCHANGED <<mutual_ex_sem, empty_space_in_buffer_sem>>

\* Slip: the critical section is entered without the mutex.
ConsumerSkipsMutex(c) == SyncStep(c, "c_mutex", "c_take") /\ UNCHANGED semVars

ConsumerWaitMutex(c) ==
    /\ SyncStep(c, "c_mutex", "c_take")
    /\ sem_wait(mutual_ex_sem)
    /\ UNCHANGED <<items_in_buffer_sem, empty_space_in_buffer_sem>>

ConsumerTake(c) == CallTake(c) /\ UNCHANGED semVars

ConsumerConsume(c) == CallConsume(c, "c_unlock") /\ UNCHANGED semVars

ConsumerPostMutex(c) ==
    /\ SyncStep(c, "c_unlock", "c_space")
    /\ sem_post(mutual_ex_sem)
    /\ UNCHANGED <<items_in_buffer_sem, empty_space_in_buffer_sem>>

\* Slip: the slot is given back as an item.
ConsumerPostsItems(c) ==
    /\ EndIteration(c, "c_space", "c_items", CONSUMPTION_LIMIT)
    /\ sem_post(items_in_buffer_sem)
    /\ UNCHANGED <<mutual_ex_sem, empty_space_in_buffer_sem>>

ConsumerPostSpace(c) ==
    /\ EndIteration(c, "c_space", "c_items", CONSUMPTION_LIMIT)
    /\ sem_post(empty_space_in_buffer_sem)
    /\ UNCHANGED <<mutual_ex_sem, items_in_buffer_sem>>

consumer(c) ==
    \/ ConsumerWaitItems(c) \/ ConsumerWaitMutex(c) \/ ConsumerTake(c)
    \/ ConsumerConsume(c) \/ ConsumerPostMutex(c) \/ ConsumerPostSpace(c)

(***************************************************************************)
(* main()                                                                  *)
(***************************************************************************)
mainProgress ==
    /\ Launch("p_space", "c_items") \/ ThreadsInitialized \/ JoinAll
    /\ UNCHANGED semVars

Next ==
    \/ \E p \in Producers : producer(p)
    \/ \E c \in Consumers : consumer(c)
    \/ mainProgress
    \/ CreateFails /\ UNCHANGED semVars
    \/ Ended /\ UNCHANGED vars

Spec == Init /\ [][Next]_vars

\* The kernel schedules every thread that can run.  No fairness is assumed of
\* the semaphores: a blocked thread may be overtaken whenever it is woken.
Fairness ==
    /\ \A p \in Producers : WF_vars(producer(p))
    /\ \A c \in Consumers : WF_vars(consumer(c))
    /\ WF_vars(mainProgress)

FairSpec == Spec /\ Fairness
-----------------------------------------------------------------------------
(***************************************************************************)
(* Properties                                                              *)
(***************************************************************************)
CriticalSection == {"p_produce", "p_append", "p_unlock", "c_take", "c_consume", "c_unlock"}

InCritical == Count(CriticalSection)

\* Slots a producer has waited for and not yet filled, or filled and not yet
\* announced; values a consumer has waited for and not yet taken, or taken
\* from a slot that it has not yet given back.
Reserved    == Count({"p_mutex", "p_produce", "p_append"})
Unannounced == Count({"p_unlock", "p_items"})
Claimed     == Count({"c_mutex", "c_take"})
Unreturned  == Count({"c_consume", "c_unlock", "c_space"})

\* At most one thread is between sem_wait and sem_post of mutual_ex_sem, so
\* produce() and append() of one producer, or take() and consume() of one
\* consumer, are never interleaved with those of another thread (lines 151-157).
MutualExclusion == \A s, t \in At(CriticalSection) : s = t

\* Every unit of the semaphores is accounted for: a slot is free, full, or in
\* the hands of a thread between its two semaphore calls (lines 147-158, 183-193).
SemaphoreAccounting ==
    /\ mutual_ex_sem + InCritical = 1
    /\ empty_space_in_buffer_sem + Reserved + Occupied + Unreturned = BUFFER_SIZE
    /\ items_in_buffer_sem + Unannounced + Claimed = Occupied

\* A semaphore lets the thread through only when it has a unit.
Blocked(t) ==
    \/ pc[t] = "p_space" /\ empty_space_in_buffer_sem = 0
    \/ pc[t] = "c_items" /\ items_in_buffer_sem = 0
    \/ pc[t] \in {"p_mutex", "c_mutex"} /\ mutual_ex_sem = 0

\* As long as main() waits for a thread that has not finished, some thread can go
\* on, if the surplus of production fits the buffer: the slots are waited for
\* before the mutex, so that nobody sleeps in the critical section (147-151).
NoDeadlock ==
    Balanced /\ main = "joining" =>
        \/ At({"done"}) = Threads
        \/ \E t \in Threads \ At({"unborn", "done"}) : ~ Blocked(t)

\* The inductive invariant from which the others follow.
IndInv == TypeOK /\ SemaphoreAccounting /\ RingContents /\ ConsumedInOrder
=============================================================================
