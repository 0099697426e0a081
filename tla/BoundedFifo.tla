----------------------------- MODULE BoundedFifo -----------------------------
(***************************************************************************)
(* What the comments of the producer/consumer programs promise of their    *)
(* circular buffer, whatever the synchronisation: the values 0, 1, 2, ...  *)
(* go through a first-in first-out queue of at most Capacity elements, so  *)
(* that no element is overwritten before it is consumed and none is        *)
(* consumed that does not exist (producerConsumerSemaphore.c, 91-98).      *)
(***************************************************************************)
EXTENDS Naturals, Sequences

CONSTANT Capacity

VARIABLES queue,      \* produced and not yet consumed, oldest first
          delivered   \* consumed values, in the order of consumption

fifoVars == <<queue, delivered>>

\* Values are consecutive integers: the next one is the number already made.
NextValue == Len(delivered) + Len(queue)

Init == queue = <<>> /\ delivered = <<>>

Put == /\ Len(queue) < Capacity
       /\ queue' = Append(queue, NextValue)
       /\ UNCHANGED delivered

Get == /\ queue # <<>>
       /\ delivered' = Append(delivered, Head(queue))
       /\ queue' = Tail(queue)

Next == Put \/ Get

Spec == Init /\ [][Next]_fifoVars
=============================================================================
