---------------------------- MODULE CircularBuffer ----------------------------
(***************************************************************************)
(* The data shared by the producer/consumer programs: the circular queue   *)
(* `buffer' with its two indices, the production counter, and the console  *)
(* on which consumed values are printed.  produce(), append(), take() and  *)
(* consume() have the same text in producerConsumerSemaphore.c and         *)
(* producerConsumerMonitor.c; the modules of those programs decide when    *)
(* each is called and what may happen in between.                          *)
(***************************************************************************)
EXTENDS Integers, Sequences, FiniteSets

CONSTANTS BUFFER_SIZE, PRODUCTION_LIMIT, CONSUMPTION_LIMIT,
          Producers, Consumers    \* thread identities

ASSUME BufferAssumption ==
    /\ BUFFER_SIZE \in Nat \ {0}
    /\ PRODUCTION_LIMIT \in Nat \ {0}
    /\ CONSUMPTION_LIMIT \in Nat \ {0}

ASSUME ThreadAssumption ==
    /\ IsFiniteSet(Producers) /\ IsFiniteSet(Consumers)
    /\ Producers \cap Consumers = {}

VARIABLES buffer, insertAt, removeAt, globalProductionCounter,
          console   \* the values printed by consume(), in order

bufferVars == <<buffer, insertAt, removeAt, globalProductionCounter, console>>

Threads == Producers \cup Consumers
Slots   == 0 .. BUFFER_SIZE - 1

BufferTypeOK ==
    /\ buffer \in [Slots -> Nat]
    /\ insertAt \in Slots
    /\ removeAt \in Slots
    /\ globalProductionCounter \in Nat
    /\ console \in Seq(Nat)

\* Static storage: every int starts at 0.
BufferInit ==
    /\ buffer = [s \in Slots |-> 0]
    /\ insertAt = 0
    /\ removeAt = 0
    /\ globalProductionCounter = 0
    /\ console = <<>>

\* Slip: no wrap around the circular queue.
FollowingUnwrapped(index) == index + 1

\* Modulus wraps around the circular queue.
Following(index) == (index + 1) % BUFFER_SIZE

\* produce(): the caller gets the current value of the counter.
produce == globalProductionCounter' = globalProductionCounter + 1

\* Slip: the index moves before the value is stored.
appendAdvancesFirst(toAdd) ==
    /\ buffer' = [buffer EXCEPT ![Following(insertAt)] = toAdd]
    /\ insertAt' = Following(insertAt)

append(toAdd) ==
    /\ buffer' = [buffer EXCEPT ![insertAt] = toAdd]
    /\ insertAt' = Following(insertAt)

\* take(): the caller gets buffer[removeAt].
take == removeAt' = Following(removeAt)

\* consume(): the value is printed.
consume(toConsume) == console' = Append(console, toConsume)
=============================================================================
