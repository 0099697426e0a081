----------------------- MODULE ProducerConsumer_proofs -----------------------
(***************************************************************************)
(* Facts about the threads and the circular buffer that hold whatever the  *)
(* synchronisation, provided that it lets one thread at a time into the    *)
(* buffer and keeps append() from a full and take() from an empty one.     *)
(* The proofs of the two programs supply these conditions.                 *)
(***************************************************************************)
EXTENDS ProducerConsumer, FiniteSetTheorems, SequenceTheorems, TLAPS

-----------------------------------------------------------------------------
(***************************************************************************)
(* Counting threads by label                                               *)
(***************************************************************************)
One(label, labels) == IF label \in labels THEN 1 ELSE 0

\* Counts are natural numbers, and a count is positive iff some thread is there.
LEMMA CountType ==
    ASSUME NEW labels
    PROVE  /\ IsFiniteSet(At(labels))
           /\ Count(labels) \in Nat
           /\ Count(labels) = 0 <=> At(labels) = {}
<1>1. IsFiniteSet(Threads)
  BY ThreadAssumption, FS_Union DEF Threads
<1>2. At(labels) \in SUBSET Threads
  BY DEF At
<1> QED
  BY <1>1, <1>2, FS_Subset, FS_CardinalityType, FS_EmptySet DEF Count

\* At most one thread is counted by a count of at most 1.
LEMMA CountAtMostOne ==
    ASSUME NEW labels, Count(labels) <= 1
    PROVE  \A s, t \in At(labels) : s = t
<1>1. CASE Count(labels) = 0
  BY <1>1, CountType
<1>2. CASE Count(labels) = 1
  BY <1>2, CountType, FS_Singleton DEF Count
<1> QED
  BY <1>1, <1>2, CountType

\* When one thread moves, a count changes by what that thread contributes.
LEMMA CountMove ==
    ASSUME NEW L, ThreadTypeOK(L), NEW t \in Threads, NEW from, NEW to, Step(t, from, to)
    PROVE  \A labels :
              Count(labels)' = Count(labels) - One(from, labels) + One(to, labels)
<1> SUFFICES ASSUME NEW labels
             PROVE  Count(labels)' = Count(labels) - One(from, labels) + One(to, labels)
  OBVIOUS
<1> DEFINE Others == At(labels) \ {t}
<1>1. /\ pc \in [Threads -> L \cup {"unborn", "done"}]
      /\ pc[t] = from
      /\ pc' = [pc EXCEPT ![t] = to]
  BY DEF ThreadTypeOK, Step
<1>2. IsFiniteSet(Others) /\ t \notin Others
  BY CountType, FS_RemoveElement
<1>3. At(labels) = IF from \in labels THEN Others \cup {t} ELSE Others
  BY <1>1 DEF At
<1>4. At(labels)' = IF to \in labels THEN Others \cup {t} ELSE Others
  BY <1>1 DEF At
<1>5. Cardinality(Others \cup {t}) = Cardinality(Others) + 1 /\ Cardinality(Others) \in Nat
  BY <1>2, FS_AddElement, FS_CardinalityType
<1> HIDE DEF Others
<1>6. Count(labels) = Cardinality(Others) + One(from, labels)
  BY <1>3, <1>5 DEF Count, One
<1>7. Count(labels)' = Cardinality(Others) + One(to, labels)
  BY <1>4, <1>5 DEF Count, One
<1> QED
  BY <1>5, <1>6, <1>7 DEF One

\* Nor does a set of threads change, except by the thread that moves.
LEMMA AtMove ==
    ASSUME NEW L, ThreadTypeOK(L), NEW t \in Threads, NEW from, NEW to, Step(t, from, to)
    PROVE  \A labels :
              At(labels)' = (At(labels) \ {t}) \cup (IF to \in labels THEN {t} ELSE {})
<1>1. /\ pc \in [Threads -> L \cup {"unborn", "done"}]
      /\ pc' = [pc EXCEPT ![t] = to]
  BY DEF ThreadTypeOK, Step
<1> QED
  BY <1>1 DEF At

\* Sets and counts do not change when pc does not.
LEMMA CountStill ==
    ASSUME pc' = pc
    PROVE  \A labels : At(labels)' = At(labels) /\ Count(labels)' = Count(labels)
<1>1. \A labels : At(labels)' = At(labels)
  BY DEF At
<1> QED
  BY <1>1 DEF Count

\* A thread at a label is in every set of labels that holds it.
LEMMA AtLabel ==
    ASSUME NEW t \in Threads, NEW from, NEW to, Step(t, from, to)
    PROVE  \A labels : t \in At(labels) <=> from \in labels
BY DEF Step, At

\* The counts of the invariant are natural numbers.
LEMMA RingCountType ==
    /\ Appending \in Nat /\ Consuming \in Nat
    /\ BufferTypeOK => Taken \in Nat /\ Appended \in Int /\ Occupied \in Int
<1>1. Appending \in Nat /\ Consuming \in Nat
  BY CountType DEF Appending, Consuming
<1>2. BufferTypeOK => Len(console) \in Nat /\ globalProductionCounter \in Nat
  BY DEF BufferTypeOK
<1> QED
  BY <1>1, <1>2 DEF Taken, Appended, Occupied
-----------------------------------------------------------------------------
(***************************************************************************)
(* Indices modulo the size of the ring                                     *)
(***************************************************************************)
\* Indices into the ring stay below twice its size.
LEMMA ModRing ==
    ASSUME NEW x \in Nat, x < 2 * BUFFER_SIZE
    PROVE  x % BUFFER_SIZE = IF x < BUFFER_SIZE THEN x ELSE x - BUFFER_SIZE
BY BufferAssumption

\* The slot after the one at distance x from the start of the buffer.
LEMMA ModSuccessor ==
    ASSUME NEW x \in Nat, x < 2 * BUFFER_SIZE - 1
    PROVE  ((x % BUFFER_SIZE) + 1) % BUFFER_SIZE = (x + 1) % BUFFER_SIZE
<1> DEFINE y == x % BUFFER_SIZE
           left == (y + 1) % BUFFER_SIZE
           right == (x + 1) % BUFFER_SIZE
<1>1. y = IF x < BUFFER_SIZE THEN x ELSE x - BUFFER_SIZE
  BY ModRing, BufferAssumption
<1>2. right = IF x + 1 < BUFFER_SIZE THEN x + 1 ELSE x + 1 - BUFFER_SIZE
  BY ModRing, BufferAssumption
<1> SUFFICES left = right
  OBVIOUS
<1> HIDE DEF y, right
<1>3. y \in Nat /\ y + 1 \in Nat /\ y + 1 < 2 * BUFFER_SIZE
  BY <1>1, BufferAssumption
<1>4. left = IF y + 1 < BUFFER_SIZE THEN y + 1 ELSE y + 1 - BUFFER_SIZE
  BY <1>3, BufferAssumption
<1> HIDE DEF left
<1> QED
  BY <1>1, <1>2, <1>4, BufferAssumption

\* Distances that differ by less than the size of the ring are distinct slots.
LEMMA ModDistinct ==
    ASSUME NEW s \in Slots, NEW j \in Nat, NEW k \in Nat, j < k, k < BUFFER_SIZE
    PROVE  (s + j) % BUFFER_SIZE # (s + k) % BUFFER_SIZE
<1>1. (s + j) % BUFFER_SIZE = IF s + j < BUFFER_SIZE THEN s + j ELSE s + j - BUFFER_SIZE
  BY ModRing, BufferAssumption DEF Slots
<1>2. (s + k) % BUFFER_SIZE = IF s + k < BUFFER_SIZE THEN s + k ELSE s + k - BUFFER_SIZE
  BY ModRing, BufferAssumption DEF Slots
<1> QED
  BY <1>1, <1>2, BufferAssumption DEF Slots

\* Counting from the next slot is counting from one further on.
LEMMA ModShift ==
    ASSUME NEW s \in Slots, NEW k \in Nat, k < BUFFER_SIZE
    PROVE  (((s + 1) % BUFFER_SIZE) + k) % BUFFER_SIZE = (s + (k + 1)) % BUFFER_SIZE
<1> DEFINE y == (s + 1) % BUFFER_SIZE
           left == (y + k) % BUFFER_SIZE
           right == (s + (k + 1)) % BUFFER_SIZE
<1>1. y = IF s + 1 < BUFFER_SIZE THEN s + 1 ELSE 0
  BY BufferAssumption DEF Slots
<1>2. right = IF s + k + 1 < BUFFER_SIZE THEN s + k + 1 ELSE s + k + 1 - BUFFER_SIZE
  BY BufferAssumption DEF Slots
<1> SUFFICES left = right
  OBVIOUS
<1> HIDE DEF y, right
<1>3. y \in Slots
  BY <1>1, BufferAssumption DEF Slots
<1>4. left = IF y + k < BUFFER_SIZE THEN y + k ELSE y + k - BUFFER_SIZE
  BY <1>3, BufferAssumption DEF Slots
<1> HIDE DEF left
<1> QED
  BY <1>1, <1>2, <1>4, BufferAssumption DEF Slots

-----------------------------------------------------------------------------
(***************************************************************************)
(* The contents of the ring                                                *)
(***************************************************************************)
RingInv == RingContents /\ ConsumedInOrder

LEMMA InitRing ==
    ASSUME BufferInit, ThreadInit
    PROVE  /\ RingInv /\ BufferTypeOK
           /\ Taken = 0 /\ Appended = 0 /\ Occupied = 0
           /\ \A labels : "unborn" \notin labels => At(labels) = {} /\ Count(labels) = 0
<1>1. \A labels : "unborn" \notin labels => At(labels) = {} /\ Count(labels) = 0
  BY CountType DEF ThreadInit, At
<1>2. Appending = 0 /\ Consuming = 0
  BY <1>1 DEF Appending, Consuming
<1>3. Taken = 0 /\ Appended = 0 /\ Occupied = 0
  <2>1. Len(console) = 0 /\ globalProductionCounter = 0
    BY DEF BufferInit
  <2> QED
    BY <1>2, <2>1 DEF Taken, Appended, Occupied
<1>4. BufferTypeOK
  BY BufferAssumption DEF BufferInit, BufferTypeOK, Slots
<1>5. RingInv
  BY <1>1, <1>3, ModRing, BufferAssumption
     DEF BufferInit, RingInv, RingContents, ConsumedInOrder
<1> QED
  BY <1>1, <1>3, <1>4, <1>5

\* A step that leaves the ring, its counters and the threads that hold a value
\* alone keeps the ring's invariant: all synchronisation calls are such steps.
LEMMA RingUntouched ==
    ASSUME NEW L, ThreadTypeOK(L), BufferTypeOK, RingInv,
           NEW t \in Threads, NEW from, NEW to, Step(t, from, to),
           from \notin {"p_append", "c_consume"}, to \notin {"p_append", "c_consume"},
           UNCHANGED bufferVars,
           \A s \in Threads \ {t} : result'[s] = result[s]
    PROVE  /\ RingInv' /\ BufferTypeOK'
           /\ Taken' = Taken /\ Appended' = Appended /\ Occupied' = Occupied
<1>1. Appending' = Appending /\ Consuming' = Consuming
  BY CountMove, RingCountType DEF Appending, Consuming, One
<1>2. Taken' = Taken /\ Appended' = Appended /\ Occupied' = Occupied
  BY <1>1 DEF bufferVars, Taken, Appended, Occupied
<1>3. /\ At({"p_append"})' = At({"p_append"}) /\ t \notin At({"p_append"})
      /\ At({"c_consume"})' = At({"c_consume"}) /\ t \notin At({"c_consume"})
  BY DEF At, Step, ThreadTypeOK
<1>4. At({"p_append"}) \subseteq Threads /\ At({"c_consume"}) \subseteq Threads
  BY DEF At
<1>5. RingContents'
  BY <1>2, <1>3, <1>4 DEF RingContents, RingInv, bufferVars
<1> QED
  BY <1>2, <1>5 DEF ConsumedInOrder, RingInv, bufferVars, BufferTypeOK

\* A synchronisation call, in the midst or at the end of an iteration, leaves the
\* ring alone.
LEMMA SyncRing ==
    ASSUME NEW L, ThreadTypeOK(L), BufferTypeOK, RingInv,
           NEW t \in Threads, NEW from, NEW to, Step(t, from, to),
           from \notin {"p_append", "c_consume"}, to \notin {"p_append", "c_consume"},
           to \in L \cup {"done"},
           UNCHANGED bufferVars,
           \/ UNCHANGED <<i, result>>
           \/ /\ i' = [i EXCEPT ![t] = @ + 1]
              /\ result' = [result EXCEPT ![t] = NoValue]
    PROVE  /\ ThreadTypeOK(L)' /\ BufferTypeOK' /\ RingInv'
           /\ Taken' = Taken /\ Appended' = Appended /\ Occupied' = Occupied
<1>1. ThreadTypeOK(L)'
  BY DEF ThreadTypeOK, Step
<1>2. \A s \in Threads \ {t} : result'[s] = result[s]
  BY DEF ThreadTypeOK
<1> QED
  BY <1>1, <1>2, RingUntouched

\* So does a step of main() or of the threads library.
LEMMA RingStill ==
    ASSUME BufferTypeOK, RingInv, UNCHANGED <<pc, result, bufferVars>>
    PROVE  /\ RingInv' /\ BufferTypeOK'
           /\ Taken' = Taken /\ Appended' = Appended /\ Occupied' = Occupied
<1>1. /\ At({"p_append"})' = At({"p_append"}) /\ At({"c_consume"})' = At({"c_consume"})
      /\ Appending' = Appending /\ Consuming' = Consuming
  BY CountStill DEF Appending, Consuming
<1>2. Taken' = Taken /\ Appended' = Appended /\ Occupied' = Occupied
  BY <1>1 DEF bufferVars, Taken, Appended, Occupied
<1> QED
  BY <1>1, <1>2
     DEF RingInv, RingContents, ConsumedInOrder, bufferVars, BufferTypeOK

\* produce() takes the next integer; the caller holds it until it appends it.
LEMMA RingProduce ==
    ASSUME NEW L, ThreadTypeOK(L), BufferTypeOK, RingInv,
           NEW p \in Threads, CallProduce(p),
           At({"p_append"}) = {}, At({"c_consume"}) = {}
    PROVE  /\ RingInv' /\ BufferTypeOK' /\ result' \in [Threads -> Nat \cup {NoValue}]
           /\ Taken' = Taken /\ Appended' = Appended /\ Occupied' = Occupied
<1>1. Step(p, "p_produce", "p_append")
  BY DEF CallProduce
<1>2. Appending' = Appending + 1 /\ Consuming' = Consuming
  BY <1>1, CountMove, RingCountType DEF Appending, Consuming, One
<1>3. Taken' = Taken /\ Appended' = Appended /\ Occupied' = Occupied
  BY <1>2, RingCountType
     DEF BufferTypeOK, CallProduce, produce, Taken, Appended, Occupied
<1>4. At({"p_append"})' = {p} /\ At({"c_consume"})' = {}
  BY <1>1, AtMove
<1>5. result'[p] = Appended'
  <2>1. Appending = 0
    BY CountType DEF Appending
  <2> QED
    BY <1>3, <2>1 DEF ThreadTypeOK, BufferTypeOK, CallProduce, Appended
<1>6. RingInv'
  BY <1>3, <1>4, <1>5 DEF RingInv, RingContents, ConsumedInOrder, CallProduce
<1> QED
  BY <1>3, <1>6 DEF BufferTypeOK, ThreadTypeOK, CallProduce, produce

\* append() fills the first free slot, when there is one.
LEMMA RingAppend ==
    ASSUME NEW L, ThreadTypeOK(L), BufferTypeOK, RingInv,
           NEW p \in Threads, NEW to, to \notin {"p_append", "c_consume"}, CallAppend(p, to),
           At({"p_append"}) = {p}, At({"c_consume"}) = {},
           Occupied \in 0 .. BUFFER_SIZE - 1
    PROVE  /\ RingInv' /\ BufferTypeOK'
           /\ Taken' = Taken /\ Appended' = Appended + 1 /\ Occupied' = Occupied + 1
<1>1. Step(p, "p_append", to)
  BY DEF CallAppend
<1>2. Appending' = Appending - 1 /\ Consuming' = Consuming
  BY <1>1, CountMove, RingCountType DEF Appending, Consuming, One
<1>3. Taken \in Nat /\ Appended \in Int
  BY RingCountType
<1>4. Taken' = Taken /\ Appended' = Appended + 1 /\ Occupied' = Occupied + 1
  BY <1>2, RingCountType
     DEF BufferTypeOK, CallAppend, append, Taken, Appended, Occupied
<1>5. Appended = Taken + Occupied
  BY <1>3 DEF Occupied
<1>6. /\ removeAt \in Slots /\ insertAt \in Slots /\ buffer \in [Slots -> Nat]
      /\ removeAt' = removeAt
      /\ insertAt = (removeAt + Occupied) % BUFFER_SIZE
      /\ insertAt' = (insertAt + 1) % BUFFER_SIZE
      /\ buffer' = [buffer EXCEPT ![insertAt] = Taken + Occupied]
  BY <1>5 DEF BufferTypeOK, CallAppend, append, Following, RingInv, RingContents
<1>7. insertAt' \in Slots
  BY <1>6, ModRing, BufferAssumption DEF Slots
<1>8. BufferTypeOK'
  BY <1>3, <1>6, <1>7 DEF BufferTypeOK, CallAppend
<1>9. insertAt' = (removeAt' + Occupied') % BUFFER_SIZE
  <2>1. removeAt + Occupied \in Nat /\ removeAt + Occupied < 2 * BUFFER_SIZE - 1
    BY <1>6, BufferAssumption DEF Slots
  <2>2. (((removeAt + Occupied) % BUFFER_SIZE) + 1) % BUFFER_SIZE
          = ((removeAt + Occupied) + 1) % BUFFER_SIZE
    BY <2>1, ModSuccessor
  <2>3. (removeAt + Occupied) + 1 = removeAt' + Occupied'
    BY <1>4, <1>6 DEF Slots
  <2> QED
    BY <1>6, <2>2, <2>3
<1>10. ASSUME NEW k \in 0 .. Occupied' - 1
       PROVE  buffer'[(removeAt' + k) % BUFFER_SIZE] = Taken' + k
  <2>1. (removeAt + k) % BUFFER_SIZE \in Slots
    BY <1>4, <1>6, ModRing, BufferAssumption DEF Slots
  <2>2. CASE k = Occupied
    BY <1>4, <1>6, <2>2
  <2>3. CASE k # Occupied
    <3>1. k \in 0 .. Occupied - 1
      BY <1>4, <2>3
    <3>2. (removeAt + k) % BUFFER_SIZE # insertAt
      <4>1. k \in Nat /\ Occupied \in Nat /\ k < Occupied /\ Occupied < BUFFER_SIZE
        BY <3>1, BufferAssumption
      <4> QED
        BY <1>6, <4>1, ModDistinct
    <3>3. buffer[(removeAt + k) % BUFFER_SIZE] = Taken + k
      BY <3>1 DEF RingInv, RingContents
    <3> QED
      BY <1>4, <1>6, <2>1, <3>2, <3>3
  <2> QED
    BY <2>2, <2>3
<1>11. At({"p_append"})' = {} /\ At({"c_consume"})' = {}
  BY <1>1, AtMove
<1>12. RingContents'
  BY <1>9, <1>10, <1>11 DEF RingContents
<1> QED
  BY <1>4, <1>8, <1>12 DEF RingInv, ConsumedInOrder, CallAppend

\* take() empties the oldest slot, when there is one.
LEMMA RingTake ==
    ASSUME NEW L, ThreadTypeOK(L), BufferTypeOK, RingInv,
           NEW c \in Threads, CallTake(c),
           At({"p_append"}) = {}, At({"c_consume"}) = {},
           Occupied \in 1 .. BUFFER_SIZE
    PROVE  /\ RingInv' /\ BufferTypeOK' /\ result' \in [Threads -> Nat \cup {NoValue}]
           /\ Taken' = Taken + 1 /\ Appended' = Appended /\ Occupied' = Occupied - 1
<1>1. Step(c, "c_take", "c_consume")
  BY DEF CallTake
<1>2. Appending' = Appending /\ Consuming' = Consuming + 1
  BY <1>1, CountMove, RingCountType DEF Appending, Consuming, One
<1>3. Taken \in Nat
  BY RingCountType
<1>4. Taken' = Taken + 1 /\ Appended' = Appended /\ Occupied' = Occupied - 1
  BY <1>2, RingCountType
     DEF BufferTypeOK, CallTake, take, Taken, Appended, Occupied
<1>5. /\ removeAt \in Slots /\ insertAt \in Slots /\ buffer \in [Slots -> Nat]
      /\ insertAt' = insertAt /\ buffer' = buffer
      /\ insertAt = (removeAt + Occupied) % BUFFER_SIZE
      /\ removeAt' = (removeAt + 1) % BUFFER_SIZE
      /\ \A k \in 0 .. Occupied - 1 : buffer[(removeAt + k) % BUFFER_SIZE] = Taken + k
  BY DEF BufferTypeOK, CallTake, take, Following, RingInv, RingContents
<1>6. removeAt' \in Slots
  BY <1>5, ModRing, BufferAssumption DEF Slots
<1>7. BufferTypeOK'
  BY <1>5, <1>6 DEF BufferTypeOK, CallTake
<1>8. ASSUME NEW k \in 0 .. Occupied - 1
      PROVE  (removeAt' + k) % BUFFER_SIZE = (removeAt + (k + 1)) % BUFFER_SIZE
  <2>1. k \in Nat /\ k < BUFFER_SIZE
    BY BufferAssumption
  <2> QED
    BY <1>5, <2>1, ModShift
<1>9. insertAt' = (removeAt' + Occupied') % BUFFER_SIZE
  <2>1. (removeAt' + (Occupied - 1)) % BUFFER_SIZE = (removeAt + ((Occupied - 1) + 1)) % BUFFER_SIZE
    <3>1. Occupied - 1 \in 0 .. Occupied - 1
      OBVIOUS
    <3> QED
      BY <1>8, <3>1
  <2>2. (Occupied - 1) + 1 = Occupied
    OBVIOUS
  <2> QED
    BY <1>4, <1>5, <2>1, <2>2
<1>10. ASSUME NEW k \in 0 .. Occupied' - 1
       PROVE  buffer'[(removeAt' + k) % BUFFER_SIZE] = Taken' + k
  <2>1. k \in 0 .. Occupied - 1 /\ k + 1 \in 0 .. Occupied - 1
    BY <1>4
  <2>2. (removeAt' + k) % BUFFER_SIZE = (removeAt + (k + 1)) % BUFFER_SIZE
    BY <1>8, <2>1
  <2>3. buffer[(removeAt + (k + 1)) % BUFFER_SIZE] = Taken + (k + 1)
    BY <1>5, <2>1
  <2>4. Taken + (k + 1) = Taken' + k
    BY <1>3, <1>4, <2>1
  <2> QED
    BY <1>5, <2>2, <2>3, <2>4
<1>11. At({"p_append"})' = {} /\ At({"c_consume"})' = {c}
  BY <1>1, AtMove
<1>12. /\ result' \in [Threads -> Nat \cup {NoValue}]
       /\ result'[c] = Len(console')
  <2>1. Consuming = 0
    BY CountType DEF Consuming
  <2>2. Taken = Len(console)
    BY <2>1 DEF Taken, BufferTypeOK
  <2>3. buffer[(removeAt + 0) % BUFFER_SIZE] = Taken + 0
    BY <1>5
  <2>4. (removeAt + 0) % BUFFER_SIZE = removeAt
    <3>1. removeAt \in Nat /\ removeAt + 0 = removeAt /\ removeAt < BUFFER_SIZE
      BY <1>5, BufferAssumption DEF Slots
    <3>2. removeAt % BUFFER_SIZE = removeAt
      BY <3>1, BufferAssumption
    <3> QED
      BY <3>1, <3>2
  <2>5. result' = [result EXCEPT ![c] = buffer[removeAt]] /\ console' = console
    BY DEF CallTake
  <2>6. result \in [Threads -> Nat \cup {NoValue}]
    BY DEF ThreadTypeOK
  <2> QED
    BY <1>3, <2>2, <2>3, <2>4, <2>5, <2>6
<1>13. RingContents'
  BY <1>9, <1>10, <1>11, <1>12 DEF RingContents
<1> QED
  BY <1>4, <1>7, <1>12, <1>13 DEF RingInv, ConsumedInOrder, CallTake

\* consume() prints the value that take() found, which is the next in order.
LEMMA RingConsume ==
    ASSUME NEW L, ThreadTypeOK(L), BufferTypeOK, RingInv,
           NEW c \in Threads, NEW to, to \notin {"p_append", "c_consume"}, CallConsume(c, to),
           At({"p_append"}) = {}, At({"c_consume"}) = {c}
    PROVE  /\ RingInv' /\ BufferTypeOK'
           /\ Taken' = Taken /\ Appended' = Appended /\ Occupied' = Occupied
<1>1. Step(c, "c_consume", to)
  BY DEF CallConsume
<1>2. Appending' = Appending /\ Consuming' = Consuming - 1
  BY <1>1, CountMove, RingCountType DEF Appending, Consuming, One
<1>3. result[c] = Len(console) /\ Len(console) \in Nat
  BY DEF RingInv, RingContents, BufferTypeOK
<1>4. console \in Seq(Nat) /\ console' = Append(console, Len(console))
  BY <1>3 DEF CallConsume, consume, BufferTypeOK
<1>5. BufferTypeOK'
  BY <1>3, <1>4 DEF BufferTypeOK, CallConsume
<1>6. Taken' = Taken /\ Appended' = Appended /\ Occupied' = Occupied
  BY <1>2, <1>3, <1>4, RingCountType
     DEF BufferTypeOK, CallConsume, Taken, Appended, Occupied
<1>7. At({"p_append"})' = {} /\ At({"c_consume"})' = {}
  BY <1>1, AtMove
<1>8. RingContents'
  BY <1>6, <1>7 DEF RingInv, RingContents, CallConsume
<1>9. ConsumedInOrder'
  BY <1>3, <1>4 DEF RingInv, ConsumedInOrder
<1> QED
  BY <1>5, <1>6, <1>8, <1>9 DEF RingInv
-----------------------------------------------------------------------------
(***************************************************************************)
(* The ring implements the abstract queue                                  *)
(***************************************************************************)
\* n consecutive integers from m on.
Numbers(m, n) == [k \in 1 .. n |-> m + k - 1]

LEMMA NumbersType ==
    ASSUME NEW m \in Nat, NEW n \in Nat
    PROVE  Numbers(m, n) \in Seq(Nat) /\ Len(Numbers(m, n)) = n
<1>1. Numbers(m, n) \in [1 .. n -> Nat]
  BY DEF Numbers
<1>2. Numbers(m, n) \in Seq(Nat)
  BY <1>1, SeqDef
<1>3. DOMAIN Numbers(m, n) = 1 .. n
  BY <1>1
<1> QED
  BY <1>2, <1>3, LenProperties

LEMMA NumbersAppend ==
    ASSUME NEW m \in Nat, NEW n \in Nat
    PROVE  Append(Numbers(m, n), m + n) = Numbers(m, n + 1)
<1>1. /\ Numbers(m, n) \in Seq(Nat) /\ Len(Numbers(m, n)) = n
      /\ Numbers(m, n + 1) \in Seq(Nat) /\ Len(Numbers(m, n + 1)) = n + 1
  BY NumbersType
<1> DEFINE longer == Append(Numbers(m, n), m + n)
<1>2. longer \in Seq(Nat) /\ Len(longer) = n + 1
  BY <1>1
<1>3. ASSUME NEW k \in 1 .. n + 1 PROVE longer[k] = Numbers(m, n + 1)[k]
  <2>1. CASE k = n + 1
    <3>1. longer[n + 1] = m + n
      BY <1>1
    <3>2. Numbers(m, n + 1)[n + 1] = m + n
      BY DEF Numbers
    <3> QED
      BY <2>1, <3>1, <3>2
  <2>2. CASE k \in 1 .. n
    <3>1. longer[k] = Numbers(m, n)[k]
      BY <1>1, <2>2
    <3>2. k \in 1 .. n + 1
      OBVIOUS
    <3>3. Numbers(m, n)[k] = m + k - 1 /\ Numbers(m, n + 1)[k] = m + k - 1
      BY <2>2, <3>2 DEF Numbers
    <3> QED
      BY <3>1, <3>3
  <2>3. k = n + 1 \/ k \in 1 .. n
    OBVIOUS
  <2> QED
    BY <2>1, <2>2, <2>3
<1> HIDE DEF longer
<1> QED
  BY <1>1, <1>2, <1>3, SeqEqual DEF longer

LEMMA NumbersTail ==
    ASSUME NEW m \in Nat, NEW n \in Nat \ {0}
    PROVE  /\ Numbers(m, n) # <<>> /\ Head(Numbers(m, n)) = m
           /\ Tail(Numbers(m, n)) = Numbers(m + 1, n - 1)
<1>1. /\ Numbers(m, n) \in Seq(Nat) /\ Len(Numbers(m, n)) = n
      /\ Numbers(m + 1, n - 1) \in Seq(Nat) /\ Len(Numbers(m + 1, n - 1)) = n - 1
  <2>1. m + 1 \in Nat /\ n - 1 \in Nat /\ n \in Nat
    OBVIOUS
  <2> QED
    BY <2>1, NumbersType
<1>2. Numbers(m, n) # <<>>
  BY <1>1
<1>3. Head(Numbers(m, n)) = m
  <2>1. Head(Numbers(m, n)) = Numbers(m, n)[1]
    BY <1>1, <1>2
  <2> QED
    BY <2>1 DEF Numbers
<1>4. /\ Tail(Numbers(m, n)) \in Seq(Nat)
      /\ Len(Tail(Numbers(m, n))) = n - 1
      /\ \A k \in 1 .. n - 1 : Tail(Numbers(m, n))[k] = Numbers(m, n)[k + 1]
  BY <1>1, <1>2, HeadTailProperties
<1>5. \A k \in 1 .. n - 1 : Numbers(m, n)[k + 1] = Numbers(m + 1, n - 1)[k]
  BY DEF Numbers
<1>6. Tail(Numbers(m, n)) = Numbers(m + 1, n - 1)
  BY <1>1, <1>4, <1>5, SeqEqual
<1> QED
  BY <1>2, <1>3, <1>6

\* The abstract queue holds the numbers from Taken on, those before are delivered.
FifoView == BufferedValues = Numbers(Taken, Occupied) /\ TakenValues = Numbers(0, Taken)

LEMMA RingFifoView ==
    ASSUME BufferTypeOK, RingInv, Occupied \in Nat, \A s, t \in At({"c_consume"}) : s = t
    PROVE  FifoView
<1>1. Taken \in Nat /\ Consuming \in Nat /\ Len(console) \in Nat /\ console \in Seq(Nat)
  BY RingCountType DEF BufferTypeOK
<1>2. BufferedValues = Numbers(Taken, Occupied)
  <2>1. ASSUME NEW k \in 1 .. Occupied
        PROVE  buffer[(removeAt + k - 1) % BUFFER_SIZE] = Taken + k - 1
    <3>1. k - 1 \in 0 .. Occupied - 1
      OBVIOUS
    <3>2. buffer[(removeAt + (k - 1)) % BUFFER_SIZE] = Taken + (k - 1)
      BY <3>1 DEF RingInv, RingContents
    <3>3. removeAt + (k - 1) = removeAt + k - 1 /\ Taken + (k - 1) = Taken + k - 1
      BY <1>1 DEF BufferTypeOK, Slots
    <3> QED
      BY <3>2, <3>3
  <2> QED
    BY <2>1 DEF BufferedValues, Numbers
<1>3. console = Numbers(0, Len(console))
  <2>1. Numbers(0, Len(console)) \in Seq(Nat) /\ Len(Numbers(0, Len(console))) = Len(console)
    BY <1>1, NumbersType
  <2>2. \A k \in 1 .. Len(console) : console[k] = Numbers(0, Len(console))[k]
    BY <1>1 DEF RingInv, ConsumedInOrder, Numbers
  <2> QED
    BY <1>1, <2>1, <2>2, SeqEqual
<1>4. CASE At({"c_consume"}) = {}
  <2>1. Taken = Len(console)
    BY <1>1, <1>4, CountType DEF Taken, Consuming
  <2> QED
    BY <1>2, <1>3, <1>4, <2>1 DEF FifoView, TakenValues
<1>5. CASE At({"c_consume"}) # {}
  <2>1. PICK c : At({"c_consume"}) = {c}
    BY <1>5
  <2>2. Consuming = 1
    BY <2>1, FS_Singleton DEF Consuming, Count
  <2>3. Taken = Len(console) + 1
    BY <2>2 DEF Taken
  <2>4. (CHOOSE d \in At({"c_consume"}) : TRUE) = c
    BY <2>1
  <2>5. result[c] = Len(console)
    BY <2>1 DEF RingInv, RingContents
  <2>6. TakenValues = Append(console, Len(console))
    BY <1>5, <2>4, <2>5 DEF TakenValues
  <2>7. Append(Numbers(0, Len(console)), 0 + Len(console)) = Numbers(0, Len(console) + 1)
    BY <1>1, NumbersAppend
  <2>8. 0 + Len(console) = Len(console)
    BY <1>1
  <2> QED
    BY <1>2, <1>3, <2>3, <2>6, <2>7, <2>8 DEF FifoView
<1> QED
  BY <1>4, <1>5

LEMMA FifoInit == ASSUME FifoView, Taken = 0, Occupied = 0 PROVE Fifo!Init
<1>1. Numbers(0, 0) = <<>>
  BY NumbersType, EmptySeq
<1> QED
  BY <1>1 DEF FifoView, Fifo!Init

\* append() adds a value, take() removes one, and no other step changes the queue.
QueueStep ==
    \/ Taken' = Taken /\ Occupied' = Occupied
    \/ Taken' = Taken /\ Occupied' = Occupied + 1 /\ Occupied < BUFFER_SIZE
    \/ Taken' = Taken + 1 /\ Occupied' = Occupied - 1 /\ Occupied > 0

LEMMA FifoStep ==
    ASSUME FifoView, FifoView', Taken \in Nat, Occupied \in 0 .. BUFFER_SIZE, QueueStep
    PROVE  [Fifo!Next]_Fifo!fifoVars
<1>1. /\ BufferedValues = Numbers(Taken, Occupied) /\ TakenValues = Numbers(0, Taken)
      /\ BufferedValues' = Numbers(Taken', Occupied') /\ TakenValues' = Numbers(0, Taken')
  BY DEF FifoView, Numbers
<1>2. Len(BufferedValues) = Occupied /\ Len(TakenValues) = Taken
  BY <1>1, NumbersType
<1>3. CASE Taken' = Taken /\ Occupied' = Occupied
  BY <1>1, <1>3 DEF Fifo!fifoVars
<1>4. CASE Taken' = Taken /\ Occupied' = Occupied + 1 /\ Occupied < BUFFER_SIZE
  <2>1. BufferedValues' = Append(BufferedValues, Taken + Occupied)
    <3>1. Append(Numbers(Taken, Occupied), Taken + Occupied) = Numbers(Taken, Occupied + 1)
      <4>1. Occupied \in Nat
        OBVIOUS
      <4> QED
        BY <4>1, NumbersAppend
    <3>2. Numbers(Taken', Occupied') = Numbers(Taken, Occupied + 1)
      BY <1>4
    <3> QED
      BY <1>1, <3>1, <3>2
  <2> QED
    BY <1>1, <1>2, <1>4, <2>1 DEF Fifo!Next, Fifo!Put, Fifo!NextValue
<1>5. CASE Taken' = Taken + 1 /\ Occupied' = Occupied - 1 /\ Occupied > 0
  <2>1. /\ BufferedValues # <<>> /\ Head(BufferedValues) = Taken
        /\ BufferedValues' = Tail(BufferedValues)
    <3>1. Occupied \in Nat \ {0}
      BY <1>5
    <3>2. /\ Numbers(Taken, Occupied) # <<>> /\ Head(Numbers(Taken, Occupied)) = Taken
          /\ Tail(Numbers(Taken, Occupied)) = Numbers(Taken + 1, Occupied - 1)
      BY <3>1, NumbersTail
    <3>3. Numbers(Taken', Occupied') = Numbers(Taken + 1, Occupied - 1)
      BY <1>5
    <3> QED
      BY <1>1, <3>2, <3>3
  <2>2. TakenValues' = Append(TakenValues, Taken)
    <3>1. Append(Numbers(0, Taken), 0 + Taken) = Numbers(0, Taken + 1)
      BY NumbersAppend
    <3> QED
      BY <1>1, <1>5, <3>1
  <2> QED
    BY <2>1, <2>2 DEF Fifo!Next, Fifo!Get
<1> QED
  BY <1>3, <1>4, <1>5 DEF QueueStep
-----------------------------------------------------------------------------
(***************************************************************************)
(* Counting iterations                                                     *)
(***************************************************************************)
\* The passes of the loops in which a thread of ts has made its call already:
\* the finished ones, and the one it is in when it is behind that call.
Calls(ts, limit, after) ==
    {x \in ts \X (0 .. limit - 1) :
        x[2] < i[x[1]] \/ (x[2] = i[x[1]] /\ pc[x[1]] \in after)}

InLoop(ts, limit) ==
    \A t \in ts : i[t] \in 0 .. limit /\ (i[t] = limit <=> pc[t] = "done")

LEMMA CallsType ==
    ASSUME NEW ts \in {Producers, Consumers}, NEW limit \in Nat, NEW after
    PROVE  /\ IsFiniteSet(ts \X (0 .. limit - 1))
           /\ Cardinality(ts \X (0 .. limit - 1)) = Cardinality(ts) * limit
           /\ Cardinality(ts) * limit \in Nat
           /\ IsFiniteSet(Calls(ts, limit, after))
<1>1. IsFiniteSet(ts)
  BY ThreadAssumption
<1>2. IsFiniteSet(0 .. limit - 1) /\ Cardinality(0 .. limit - 1) = limit
  BY FS_Interval
<1>3. Calls(ts, limit, after) \in SUBSET (ts \X (0 .. limit - 1))
  BY DEF Calls
<1>4. /\ IsFiniteSet(ts \X (0 .. limit - 1))
      /\ Cardinality(ts \X (0 .. limit - 1)) = Cardinality(ts) * Cardinality(0 .. limit - 1)
  BY <1>1, <1>2, FS_Product, Zenon
<1>5. Cardinality(ts \X (0 .. limit - 1)) \in Nat
  BY <1>4, FS_CardinalityType
<1> QED
  BY <1>1, <1>2, <1>3, <1>4, <1>5, FS_Subset, Zenon

LEMMA CallsInit ==
    ASSUME ThreadInit, NEW ts \in {Producers, Consumers}, NEW limit \in Nat \ {0}, NEW after,
           "unborn" \notin after
    PROVE  Cardinality(Calls(ts, limit, after)) = 0 /\ InLoop(ts, limit)
<1>1. \A t \in ts : i[t] = 0 /\ pc[t] = "unborn"
  BY DEF ThreadInit, Threads
<1>2. Calls(ts, limit, after) = {}
  BY <1>1 DEF Calls
<1> QED
  BY <1>1, <1>2, FS_EmptySet DEF InLoop

\* A move within an iteration that is not the call in question counts nothing.
LEMMA CallsStill ==
    ASSUME NEW L, ThreadTypeOK(L), NEW ts \in {Producers, Consumers}, NEW limit \in Nat, NEW after,
           NEW t \in Threads, NEW from, NEW to, Step(t, from, to), i' = i,
           t \in ts => (from \in after <=> to \in after),
           from # "done", to # "done", InLoop(ts, limit)
    PROVE  Calls(ts, limit, after)' = Calls(ts, limit, after) /\ InLoop(ts, limit)'
<1>1. \A u \in ts : IF u = t THEN pc[u] = from /\ pc'[u] = to ELSE pc'[u] = pc[u]
  BY DEF ThreadTypeOK, Step, Threads
<1>2. InLoop(ts, limit)'
  BY <1>1 DEF InLoop
<1>3. \A u \in ts : pc'[u] \in after <=> pc[u] \in after
  BY <1>1
<1>4. ASSUME NEW x \in ts \X (0 .. limit - 1)
      PROVE  (x[2] < i'[x[1]] \/ (x[2] = i'[x[1]] /\ pc'[x[1]] \in after))
               <=> (x[2] < i[x[1]] \/ (x[2] = i[x[1]] /\ pc[x[1]] \in after))
  BY <1>3
<1> QED
  BY <1>2, <1>4 DEF Calls

\* The call itself adds the pass that the thread is in.
LEMMA CallsCall ==
    ASSUME NEW L, ThreadTypeOK(L), NEW ts \in {Producers, Consumers}, NEW limit \in Nat, NEW after,
           NEW t \in ts, NEW from, NEW to, Step(t, from, to), i' = i,
           from \notin after, to \in after, from # "done", to # "done", InLoop(ts, limit)
    PROVE  /\ Cardinality(Calls(ts, limit, after))' = Cardinality(Calls(ts, limit, after)) + 1
           /\ InLoop(ts, limit)'
<1>1. t \in Threads /\ \A u \in ts : IF u = t THEN pc[u] = from /\ pc'[u] = to ELSE pc'[u] = pc[u]
  BY DEF ThreadTypeOK, Step, Threads
<1>2. InLoop(ts, limit)'
  BY <1>1 DEF InLoop
<1> DEFINE x == <<t, i[t]>>
<1>3. x \in ts \X (0 .. limit - 1) /\ x \notin Calls(ts, limit, after)
  BY <1>1 DEF InLoop, Calls
<1>4. Calls(ts, limit, after)' = Calls(ts, limit, after) \cup {x}
  <2>1. ASSUME NEW y \in ts \X (0 .. limit - 1)
        PROVE  (y[2] < i'[y[1]] \/ (y[2] = i'[y[1]] /\ pc'[y[1]] \in after))
                 <=> (y[2] < i[y[1]] \/ (y[2] = i[y[1]] /\ pc[y[1]] \in after)) \/ y = x
    BY <1>1
  <2> QED
    BY <1>3, <2>1 DEF Calls
<1>5. Cardinality(Calls(ts, limit, after) \cup {x}) = Cardinality(Calls(ts, limit, after)) + 1
  BY <1>3, CallsType, FS_AddElement
<1> QED
  BY <1>2, <1>4, <1>5

\* At the end of an iteration, the pass it was in is a finished one.
LEMMA CallsIteration ==
    ASSUME NEW L, ThreadTypeOK(L), NEW ts \in {Producers, Consumers}, NEW limit \in Nat, NEW after,
           NEW t \in ts, NEW from, NEW head, EndIteration(t, from, head, limit),
           from \in after, head \notin after, "done" \notin after, head # "done", from # "done",
           InLoop(ts, limit)
    PROVE  Calls(ts, limit, after)' = Calls(ts, limit, after) /\ InLoop(ts, limit)'
<1> DEFINE to == IF i[t] + 1 < limit THEN head ELSE "done"
<1>1. /\ Step(t, from, to) /\ to \notin after
      /\ \A u \in ts : i[u] \in Nat
      /\ \A u \in ts : IF u = t THEN pc[u] = from /\ pc'[u] = to /\ i'[u] = i[u] + 1
                                ELSE pc'[u] = pc[u] /\ i'[u] = i[u]
  BY DEF ThreadTypeOK, Step, EndIteration, Threads
<1>2. InLoop(ts, limit)'
  BY <1>1 DEF InLoop
<1>3. ASSUME NEW y \in ts \X (0 .. limit - 1)
      PROVE  (y[2] < i'[y[1]] \/ (y[2] = i'[y[1]] /\ pc'[y[1]] \in after))
               <=> (y[2] < i[y[1]] \/ (y[2] = i[y[1]] /\ pc[y[1]] \in after))
  <2> HIDE DEF to
  <2> QED
    BY <1>1
<1> QED
  BY <1>2, <1>3 DEF Calls

\* The threads of the other kind change nothing.
LEMMA CallsOther ==
    ASSUME NEW L, ThreadTypeOK(L), NEW ts \in {Producers, Consumers}, NEW limit \in Nat, NEW after,
           NEW t \in Threads \ ts, NEW from, NEW to, Step(t, from, to),
           i' \in {i, [i EXCEPT ![t] = @ + 1]}, InLoop(ts, limit)
    PROVE  Calls(ts, limit, after)' = Calls(ts, limit, after) /\ InLoop(ts, limit)'
<1>1. \A u \in ts : pc'[u] = pc[u] /\ i'[u] = i[u]
  BY DEF ThreadTypeOK, Step, Threads
<1>2. \A y \in ts \X (0 .. limit - 1) : pc'[y[1]] = pc[y[1]] /\ i'[y[1]] = i[y[1]]
  BY <1>1
<1> QED
  BY <1>1, <1>2 DEF Calls, InLoop

\* When the threads of a kind are done, each has made its call once in each pass.
LEMMA CallsDone ==
    ASSUME NEW ts \in {Producers, Consumers}, NEW limit \in Nat, NEW after, InLoop(ts, limit),
           ts \subseteq At({"done"})
    PROVE  Cardinality(Calls(ts, limit, after)) = Cardinality(ts) * limit
<1>1. \A t \in ts : i[t] = limit
  BY DEF At, InLoop
<1>2. Calls(ts, limit, after) = ts \X (0 .. limit - 1)
  BY <1>1 DEF Calls
<1> QED
  BY <1>2, CallsType

\* As long as one of them is still to make its call, there are fewer calls.
LEMMA CallsPending ==
    ASSUME NEW ts \in {Producers, Consumers}, NEW limit \in Nat, NEW after, InLoop(ts, limit),
           NEW t \in ts, pc[t] \notin after, pc[t] # "done"
    PROVE  /\ Cardinality(Calls(ts, limit, after)) < Cardinality(ts) * limit
           /\ Cardinality(Calls(ts, limit, after)) \in Nat
<1> DEFINE Passes == ts \X (0 .. limit - 1)
           x == <<t, i[t]>>
<1>1. x \in Passes /\ x \notin Calls(ts, limit, after) /\ Calls(ts, limit, after) \subseteq Passes
  BY DEF InLoop, Calls
<1>2. IsFiniteSet(Passes) /\ Cardinality(Passes) = Cardinality(ts) * limit
  BY CallsType
<1>3. Cardinality(ts) * limit \in Nat
  BY CallsType
<1> HIDE DEF Passes, x
<1>4. IsFiniteSet(Passes \ {x}) /\ Cardinality(Passes \ {x}) = Cardinality(Passes) - 1
  BY <1>1, <1>2, FS_RemoveElement
<1>5. Calls(ts, limit, after) \subseteq Passes \ {x}
  BY <1>1
<1>6. /\ Cardinality(Calls(ts, limit, after)) <= Cardinality(Passes \ {x})
      /\ Cardinality(Calls(ts, limit, after)) \in Nat
  BY <1>4, <1>5, FS_Subset, FS_CardinalityType
<1> QED
  BY <1>2, <1>3, <1>4, <1>6
-----------------------------------------------------------------------------
(***************************************************************************)
(* Every pass of a loop produces or consumes one value                     *)
(***************************************************************************)
\* What main() knows of the threads it launches and joins.
MainKnows ==
    /\ main \in {"joining", "returned"} => At({"unborn"}) = {}
    /\ main = "returned" => At({"done"}) = Threads

\* produced: the labels of a pass that lie behind produce(); consumed: those
\* behind consume().
CallsCounted(produced, consumed) ==
    /\ InLoop(Producers, PRODUCTION_LIMIT) /\ InLoop(Consumers, CONSUMPTION_LIMIT)
    /\ Cardinality(Calls(Producers, PRODUCTION_LIMIT, produced)) = globalProductionCounter
    /\ Cardinality(Calls(Consumers, CONSUMPTION_LIMIT, consumed)) = Len(console)
    /\ MainKnows

LEMMA CountedInit ==
    ASSUME ThreadInit, BufferInit, NEW P, NEW C, "unborn" \notin P, "unborn" \notin C
    PROVE  CallsCounted(P, C)
<1>1. Cardinality(Calls(Producers, PRODUCTION_LIMIT, P)) = 0 /\ InLoop(Producers, PRODUCTION_LIMIT)
  BY CallsInit, BufferAssumption
<1>2. Cardinality(Calls(Consumers, CONSUMPTION_LIMIT, C)) = 0 /\ InLoop(Consumers, CONSUMPTION_LIMIT)
  BY CallsInit, BufferAssumption
<1> QED
  BY <1>1, <1>2 DEF CallsCounted, MainKnows, ThreadInit, BufferInit

\* Only a thread that main() still waits for can move.
LEMMA MoverKnown ==
    ASSUME NEW t \in Threads, NEW from, NEW to, Step(t, from, to),
           from # "done", to # "unborn", NEW L, ThreadTypeOK(L), MainKnows
    PROVE  MainKnows'
<1>1. main' = main /\ main # "returned"
  BY DEF Step, MainKnows, At
<1>2. At({"unborn"})' \subseteq At({"unborn"})
  BY AtMove
<1> QED
  BY <1>1, <1>2 DEF MainKnows

\* A step of a thread that leaves its loop counter, the production counter and the
\* console alone counts nothing.
LEMMA CountedMove ==
    ASSUME NEW L, ThreadTypeOK(L), NEW P, NEW C, CallsCounted(P, C),
           NEW t \in Threads, NEW from, NEW to, Step(t, from, to), i' = i,
           from # "done", to # "done", to # "unborn",
           t \in Producers => (from \in P <=> to \in P),
           t \in Consumers => (from \in C <=> to \in C),
           globalProductionCounter' = globalProductionCounter, console' = console
    PROVE  CallsCounted(P, C)'
<1>1. /\ PRODUCTION_LIMIT \in Nat /\ CONSUMPTION_LIMIT \in Nat
      /\ InLoop(Producers, PRODUCTION_LIMIT) /\ InLoop(Consumers, CONSUMPTION_LIMIT)
  BY BufferAssumption DEF CallsCounted
<1>2. /\ Calls(Producers, PRODUCTION_LIMIT, P)' = Calls(Producers, PRODUCTION_LIMIT, P)
      /\ InLoop(Producers, PRODUCTION_LIMIT)'
  BY <1>1, CallsStill
<1>3. /\ Calls(Consumers, CONSUMPTION_LIMIT, C)' = Calls(Consumers, CONSUMPTION_LIMIT, C)
      /\ InLoop(Consumers, CONSUMPTION_LIMIT)'
  BY <1>1, CallsStill
<1>4. MainKnows'
  BY MoverKnown DEF CallsCounted
<1> QED
  BY <1>2, <1>3, <1>4 DEF CallsCounted

\* produce() adds one to the counter and to the calls of the producers.
LEMMA CountedProduce ==
    ASSUME NEW L, ThreadTypeOK(L), NEW P, NEW C, CallsCounted(P, C),
           NEW p \in Producers, CallProduce(p), "p_produce" \notin P, "p_append" \in P
    PROVE  CallsCounted(P, C)'
<1>1. /\ PRODUCTION_LIMIT \in Nat /\ CONSUMPTION_LIMIT \in Nat
      /\ InLoop(Producers, PRODUCTION_LIMIT) /\ InLoop(Consumers, CONSUMPTION_LIMIT)
      /\ p \in Threads \ Consumers /\ p \in Threads
  BY BufferAssumption, ThreadAssumption DEF CallsCounted, Threads
<1>2. /\ Step(p, "p_produce", "p_append") /\ i' = i
      /\ globalProductionCounter' = globalProductionCounter + 1 /\ console' = console
  BY DEF CallProduce, produce
<1>3. /\ Cardinality(Calls(Producers, PRODUCTION_LIMIT, P))'
           = Cardinality(Calls(Producers, PRODUCTION_LIMIT, P)) + 1
      /\ InLoop(Producers, PRODUCTION_LIMIT)'
  BY <1>1, <1>2, CallsCall
<1>4. /\ Calls(Consumers, CONSUMPTION_LIMIT, C)' = Calls(Consumers, CONSUMPTION_LIMIT, C)
      /\ InLoop(Consumers, CONSUMPTION_LIMIT)'
  BY <1>1, <1>2, CallsOther
<1>5. MainKnows'
  BY <1>1, <1>2, MoverKnown DEF CallsCounted
<1> QED
  BY <1>2, <1>3, <1>4, <1>5 DEF CallsCounted

\* consume() prints one value and adds one to the calls of the consumers.
LEMMA CountedConsume ==
    ASSUME NEW L, ThreadTypeOK(L), BufferTypeOK, NEW P, NEW C, CallsCounted(P, C),
           NEW c \in Consumers, NEW to, CallConsume(c, to), to # "done", to # "unborn",
           "c_consume" \notin C, to \in C
    PROVE  CallsCounted(P, C)'
<1>1. /\ PRODUCTION_LIMIT \in Nat /\ CONSUMPTION_LIMIT \in Nat
      /\ InLoop(Producers, PRODUCTION_LIMIT) /\ InLoop(Consumers, CONSUMPTION_LIMIT)
      /\ c \in Threads \ Producers /\ c \in Threads
  BY BufferAssumption, ThreadAssumption DEF CallsCounted, Threads
<1>2. /\ Step(c, "c_consume", to) /\ i' = i
      /\ globalProductionCounter' = globalProductionCounter /\ Len(console') = Len(console) + 1
  BY DEF CallConsume, consume, BufferTypeOK
<1>3. /\ Cardinality(Calls(Consumers, CONSUMPTION_LIMIT, C))'
           = Cardinality(Calls(Consumers, CONSUMPTION_LIMIT, C)) + 1
      /\ InLoop(Consumers, CONSUMPTION_LIMIT)'
  BY <1>1, <1>2, CallsCall
<1>4. /\ Calls(Producers, PRODUCTION_LIMIT, P)' = Calls(Producers, PRODUCTION_LIMIT, P)
      /\ InLoop(Producers, PRODUCTION_LIMIT)'
  BY <1>1, <1>2, CallsOther
<1>5. MainKnows'
  BY <1>1, <1>2, MoverKnown DEF CallsCounted
<1> QED
  BY <1>2, <1>3, <1>4, <1>5 DEF CallsCounted

\* The last call of a pass finishes it.
LEMMA CountedProducerPass ==
    ASSUME NEW L, ThreadTypeOK(L), NEW P, NEW C, CallsCounted(P, C),
           NEW p \in Producers, NEW from, NEW head, EndIteration(p, from, head, PRODUCTION_LIMIT),
           from \in P, head \notin P, "done" \notin P, from # "done", head # "done", head # "unborn"
    PROVE  CallsCounted(P, C)'
<1> DEFINE to == IF i[p] + 1 < PRODUCTION_LIMIT THEN head ELSE "done"
<1>1. /\ PRODUCTION_LIMIT \in Nat /\ CONSUMPTION_LIMIT \in Nat
      /\ InLoop(Producers, PRODUCTION_LIMIT) /\ InLoop(Consumers, CONSUMPTION_LIMIT)
      /\ p \in Threads \ Consumers /\ p \in Threads
  BY BufferAssumption, ThreadAssumption DEF CallsCounted, Threads
<1>2. /\ Step(p, from, to) /\ i' = [i EXCEPT ![p] = @ + 1] /\ to # "unborn"
      /\ globalProductionCounter' = globalProductionCounter /\ console' = console
  BY DEF EndIteration, bufferVars
<1> HIDE DEF to
<1>3. /\ Calls(Producers, PRODUCTION_LIMIT, P)' = Calls(Producers, PRODUCTION_LIMIT, P)
      /\ InLoop(Producers, PRODUCTION_LIMIT)'
  BY <1>1, CallsIteration
<1>4. /\ Calls(Consumers, CONSUMPTION_LIMIT, C)' = Calls(Consumers, CONSUMPTION_LIMIT, C)
      /\ InLoop(Consumers, CONSUMPTION_LIMIT)'
  BY <1>1, <1>2, CallsOther
<1>5. MainKnows'
  BY <1>1, <1>2, MoverKnown DEF CallsCounted
<1> QED
  BY <1>2, <1>3, <1>4, <1>5 DEF CallsCounted

LEMMA CountedConsumerPass ==
    ASSUME NEW L, ThreadTypeOK(L), NEW P, NEW C, CallsCounted(P, C),
           NEW c \in Consumers, NEW from, NEW head, EndIteration(c, from, head, CONSUMPTION_LIMIT),
           from \in C, head \notin C, "done" \notin C, from # "done", head # "done", head # "unborn"
    PROVE  CallsCounted(P, C)'
<1> DEFINE to == IF i[c] + 1 < CONSUMPTION_LIMIT THEN head ELSE "done"
<1>1. /\ PRODUCTION_LIMIT \in Nat /\ CONSUMPTION_LIMIT \in Nat
      /\ InLoop(Producers, PRODUCTION_LIMIT) /\ InLoop(Consumers, CONSUMPTION_LIMIT)
      /\ c \in Threads \ Producers /\ c \in Threads
  BY BufferAssumption, ThreadAssumption DEF CallsCounted, Threads
<1>2. /\ Step(c, from, to) /\ i' = [i EXCEPT ![c] = @ + 1] /\ to # "unborn"
      /\ globalProductionCounter' = globalProductionCounter /\ console' = console
  BY DEF EndIteration, bufferVars
<1> HIDE DEF to
<1>3. /\ Calls(Consumers, CONSUMPTION_LIMIT, C)' = Calls(Consumers, CONSUMPTION_LIMIT, C)
      /\ InLoop(Consumers, CONSUMPTION_LIMIT)'
  BY <1>1, CallsIteration
<1>4. /\ Calls(Producers, PRODUCTION_LIMIT, P)' = Calls(Producers, PRODUCTION_LIMIT, P)
      /\ InLoop(Producers, PRODUCTION_LIMIT)'
  BY <1>1, <1>2, CallsOther
<1>5. MainKnows'
  BY <1>1, <1>2, MoverKnown DEF CallsCounted
<1> QED
  BY <1>2, <1>3, <1>4, <1>5 DEF CallsCounted

\* A step that leaves the threads and the buffer alone counts nothing.
LEMMA CountedStill ==
    ASSUME NEW P, NEW C, CallsCounted(P, C), UNCHANGED <<pc, i, bufferVars>>,
           MainKnows'
    PROVE  CallsCounted(P, C)'
<1>1. /\ Calls(Producers, PRODUCTION_LIMIT, P)' = Calls(Producers, PRODUCTION_LIMIT, P)
      /\ Calls(Consumers, CONSUMPTION_LIMIT, C)' = Calls(Consumers, CONSUMPTION_LIMIT, C)
  BY DEF Calls
<1>2. InLoop(Producers, PRODUCTION_LIMIT)' /\ InLoop(Consumers, CONSUMPTION_LIMIT)'
  BY DEF InLoop, CallsCounted
<1> QED
  BY <1>1, <1>2 DEF CallsCounted, bufferVars

\* main() launches a thread at a label before its call, and joins them all.
LEMMA CountedMain ==
    ASSUME NEW L, ThreadTypeOK(L), NEW P, NEW C, CallsCounted(P, C),
           NEW pHead, NEW cHead, {pHead, cHead, "unborn"} \cap (P \cup C \cup {"done"}) = {},
           pHead # "unborn", cHead # "unborn",
           Launch(pHead, cHead) \/ ThreadsInitialized \/ JoinAll \/ CreateFails
    PROVE  CallsCounted(P, C)'
<1>1. CASE Launch(pHead, cHead)
  <2>1. PICK t \in Threads, entry \in {pHead, cHead} : Create(t, entry)
    BY <1>1 DEF Launch, Threads
  <2> DEFINE from == "unborn"
  <2>2. /\ Step(t, from, entry) /\ i' = i
        /\ from # "done" /\ entry # "done" /\ entry # "unborn"
        /\ from \in P <=> entry \in P
        /\ from \in C <=> entry \in C
        /\ globalProductionCounter' = globalProductionCounter /\ console' = console
    BY <2>1 DEF Create, Step, bufferVars
  <2> HIDE DEF from
  <2> QED
    BY <2>2, CountedMove
<1>2. CASE ThreadsInitialized \/ JoinAll \/ CreateFails
  <2>1. UNCHANGED <<pc, i, bufferVars>>
    BY <1>2 DEF ThreadsInitialized, JoinAll, CreateFails, MainMoves
  <2>2. MainKnows'
    BY <1>2 DEF ThreadsInitialized, JoinAll, CreateFails, MainMoves, MainKnows, CallsCounted, At
  <2> QED
    BY <2>1, <2>2, CountedStill
<1> QED
  BY <1>1, <1>2

\* What the buffer holds when no thread has a value in its hands: the surplus when
\* all threads are done; less than that while producers are left over, and more
\* while consumers are.
LEMMA SurplusCounted ==
    ASSUME BufferTypeOK, NEW P, NEW C, CallsCounted(P, C),
           At({"p_append"}) = {}, At({"c_consume"}) = {}
    PROVE  /\ At({"done"}) = Threads => Occupied = Surplus
           /\ \A p \in Producers :
                 Consumers \subseteq At({"done"}) /\ pc[p] \notin P /\ pc[p] # "done"
                     => Occupied < Surplus
           /\ \A c \in Consumers :
                 Producers \subseteq At({"done"}) /\ pc[c] \notin C /\ pc[c] # "done"
                     => Occupied > Surplus
<1> DEFINE Most(ts, limit) == Cardinality(ts) * limit
<1>1. /\ PRODUCTION_LIMIT \in Nat /\ CONSUMPTION_LIMIT \in Nat
      /\ InLoop(Producers, PRODUCTION_LIMIT) /\ InLoop(Consumers, CONSUMPTION_LIMIT)
  BY BufferAssumption DEF CallsCounted
<1>2. Occupied = globalProductionCounter - Len(console)
  <2>1. Appending = 0 /\ Consuming = 0
    BY CountType DEF Appending, Consuming
  <2> QED
    BY <2>1 DEF BufferTypeOK, Occupied, Appended, Taken
<1>3. /\ Most(Producers, PRODUCTION_LIMIT) \in Nat /\ Most(Consumers, CONSUMPTION_LIMIT) \in Nat
      /\ globalProductionCounter \in Nat /\ Len(console) \in Nat
  <2>1. Cardinality(Producers) * PRODUCTION_LIMIT \in Nat
    BY <1>1, CallsType
  <2>2. Cardinality(Consumers) * CONSUMPTION_LIMIT \in Nat
    BY <1>1, CallsType
  <2>3. globalProductionCounter \in Nat /\ Len(console) \in Nat
    BY DEF BufferTypeOK
  <2> QED
    BY <2>1, <2>2, <2>3
<1>4. Surplus = Most(Producers, PRODUCTION_LIMIT) - Most(Consumers, CONSUMPTION_LIMIT)
  BY DEF Surplus
<1>5. Producers \subseteq At({"done"}) => globalProductionCounter = Most(Producers, PRODUCTION_LIMIT)
  BY <1>1, CallsDone DEF CallsCounted
<1>6. Consumers \subseteq At({"done"}) => Len(console) = Most(Consumers, CONSUMPTION_LIMIT)
  BY <1>1, CallsDone DEF CallsCounted
<1>7. \A p \in Producers : pc[p] \notin P /\ pc[p] # "done"
                             => globalProductionCounter < Most(Producers, PRODUCTION_LIMIT)
  BY <1>1, CallsPending DEF CallsCounted
<1>8. \A c \in Consumers : pc[c] \notin C /\ pc[c] # "done"
                             => Len(console) < Most(Consumers, CONSUMPTION_LIMIT)
  BY <1>1, CallsPending DEF CallsCounted
<1>9. At({"done"}) = Threads => Producers \subseteq At({"done"}) /\ Consumers \subseteq At({"done"})
  BY DEF Threads
<1> HIDE DEF Most
<1> QED
  BY <1>2, <1>3, <1>4, <1>5, <1>6, <1>7, <1>8, <1>9
=============================================================================
