--------------------------- MODULE ProducerConsumer ---------------------------
(***************************************************************************)
(* What producerConsumerSemaphore.c and producerConsumerMonitor.c share:   *)
(* the loops of the producer and consumer threads around the calls on the  *)
(* circular buffer, and main(), which launches and joins the threads.  The *)
(* modules of the two programs add the synchronisation.  pc[t] names the   *)
(* call that thread t is about to make.                                    *)
(***************************************************************************)
EXTENDS CircularBuffer

VARIABLES
    main,     \* main(): "launching", "joining", "returned" or "failed"
    pc, i,    \* per thread: next call, and the loop counter
    result    \* per thread: producedResult or consumedResult

threadVars == <<main, pc, i, result>>

NoValue == -1   \* the local does not exist outside one iteration of the loop

At(labels) == {t \in Threads : pc[t] \in labels}
Count(labels) == Cardinality(At(labels))

ThreadTypeOK(labels) ==
    /\ main \in {"launching", "joining", "returned", "failed"}
    /\ pc \in [Threads -> labels \cup {"unborn", "done"}]
    /\ i \in [Threads -> Nat]
    /\ result \in [Threads -> Nat \cup {NoValue}]

ThreadInit ==
    /\ main = "launching"
    /\ pc = [t \in Threads |-> "unborn"]
    /\ i = [t \in Threads |-> 0]
    /\ result = [t \in Threads |-> NoValue]

-----------------------------------------------------------------------------
\* A thread of the running process moves from one call to the next.
Step(t, from, to) ==
    /\ main # "failed"
    /\ pc[t] = from
    /\ pc' = [pc EXCEPT ![t] = to]
    /\ UNCHANGED main

\* A call that concerns the synchronisation only.
SyncStep(t, from, to) == Step(t, from, to) /\ UNCHANGED <<i, result, bufferVars>>

\* The last call of an iteration: the local goes out of scope, and the for
\* loop goes round or ends.
EndIteration(t, from, head, limit) ==
    /\ Step(t, from, IF i[t] + 1 < limit THEN head ELSE "done")
    /\ i' = [i EXCEPT ![t] = @ + 1]
    /\ result' = [result EXCEPT ![t] = NoValue]
    /\ UNCHANGED bufferVars

(***************************************************************************)
(* The calls on the circular buffer, followed by the call named by `to'.   *)
(***************************************************************************)
CallProduce(p) ==
    /\ Step(p, "p_produce", "p_append")
    /\ produce
    /\ result' = [result EXCEPT ![p] = globalProductionCounter]
    /\ UNCHANGED <<i, buffer, insertAt, removeAt, console>>

CallAppend(p, to) ==
    /\ Step(p, "p_append", to)
    /\ append(result[p])
    /\ UNCHANGED <<i, result, removeAt, globalProductionCounter, console>>

CallTake(c) ==
    /\ Step(c, "c_take", "c_consume")
    /\ take
    /\ result' = [result EXCEPT ![c] = buffer[removeAt]]
    /\ UNCHANGED <<i, buffer, insertAt, globalProductionCounter, console>>

CallConsume(c, to) ==
    /\ Step(c, "c_consume", to)
    /\ consume(result[c])
    /\ UNCHANGED <<i, result, buffer, insertAt, removeAt, globalProductionCounter>>

(***************************************************************************)
(* main(): launches the producers, then the consumers, joins them all and  *)
(* returns.  A thread runs as soon as it is created.  When a thread cannot *)
(* be created main() returns -1, which ends the process and its threads.   *)
(***************************************************************************)
Create(t, entry) ==
    /\ main = "launching"
    /\ pc[t] = "unborn"
    /\ pc' = [pc EXCEPT ![t] = entry]
    /\ UNCHANGED <<main, i, result, bufferVars>>

\* Producers enter their loop at producerEntry, consumers at consumerEntry.
Launch(producerEntry, consumerEntry) ==
    \/ \E p \in Producers : Create(p, producerEntry)
    \/ /\ \A p \in Producers : pc[p] # "unborn"
       /\ \E c \in Consumers : Create(c, consumerEntry)

MainMoves(from, to) ==
    /\ main = from
    /\ main' = to
    /\ UNCHANGED <<pc, i, result, bufferVars>>

CreateFails == At({"unborn"}) # {} /\ MainMoves("launching", "failed")

ThreadsInitialized == At({"unborn"}) = {} /\ MainMoves("launching", "joining")

\* Slip: main() joins the consumers and forgets the producers.
JoinConsumersOnly == Consumers \subseteq At({"done"}) /\ MainMoves("joining", "returned")

JoinAll == At({"done"}) = Threads /\ MainMoves("joining", "returned")

Ended == main \in {"returned", "failed"}

-----------------------------------------------------------------------------
(***************************************************************************)
(* Properties of both programs                                             *)
(***************************************************************************)

\* Threads about to append the value they hold, and about to print it.
Appending == Count({"p_append"})
Consuming == Count({"c_consume"})

\* Values put into the buffer, values taken out of it, and those in between.
Appended == globalProductionCounter - Appending
Taken    == Len(console) + Consuming
Occupied == Appended - Taken

\* append() is never called on a full buffer nor take() on an empty one: what
\* the comments on append() and take() demand of their callers (semaphore
\* program 106 and 121, monitor program 109 and 123).
BufferNeverOverrun ==
    /\ At({"p_append"}) # {} => Occupied < BUFFER_SIZE
    /\ At({"c_take"}) # {} => Occupied > 0

\* Consumed values appear on the console in the order of production, with no
\* loss and no duplicate, whichever threads produced and consumed them: consume()
\* is inside the critical section for this (semaphore program 190-192).
ConsumedInOrder == \A k \in 1 .. Len(console) : console[k] = k - 1

\* The slots from removeAt on hold the values not yet taken, oldest first, and
\* end where the next one goes; a local variable holds the value that is on its
\* way into the buffer, or from the buffer to the console (append() and take()).
RingContents ==
    /\ insertAt = (removeAt + Occupied) % BUFFER_SIZE
    /\ \A k \in 0 .. Occupied - 1 : buffer[(removeAt + k) % BUFFER_SIZE] = Taken + k
    /\ \A p \in At({"p_append"}) : result[p] = Appended
    /\ \A c \in At({"c_consume"}) : result[c] = Len(console)

\* The surplus of production over consumption decides whether the program can
\* end.  The comment at 23-29 of the semaphore program asks for a surplus of at
\* least 0; the buffer has to hold it too, else the producers block with nobody
\* left to make room.
Surplus == Cardinality(Producers) * PRODUCTION_LIMIT
             - Cardinality(Consumers) * CONSUMPTION_LIMIT

Balanced == Surplus \in 0 .. BUFFER_SIZE

\* When main() returns, the values that were produced and not consumed are in the
\* buffer, all of them and no other ones; so it only returns 0 if they fit (the
\* joins at the end of main()).
Leftover == main = "returned" => Occupied = Surplus

\* A balanced program ends, even though nothing about the semaphores, the mutex
\* or the condition variables is fair: no thread waits forever for a signal that
\* was already sent or that never comes (joins at the end of main()).
Termination == Balanced => <>Ended

\* The buffer between removeAt and insertAt, oldest value first, and the values
\* that left it: together they are the abstract bounded queue.
BufferedValues == [k \in 1 .. Occupied |-> buffer[(removeAt + k - 1) % BUFFER_SIZE]]

TakenValues ==
    IF At({"c_consume"}) = {} THEN console
    ELSE Append(console, result[CHOOSE c \in At({"c_consume"}) : TRUE])

Fifo == INSTANCE BoundedFifo WITH
            Capacity <- BUFFER_SIZE, queue <- BufferedValues, delivered <- TakenValues

\* The circular buffer, used under the synchronisation of the program, implements
\* the bounded first-in first-out queue that the comment on `buffer' describes.
ImplementsFifo == Fifo!Spec
=============================================================================
