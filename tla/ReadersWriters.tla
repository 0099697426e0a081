---------------------------- MODULE ReadersWriters ----------------------------
(***************************************************************************)
(* What readerWriterSemaphore.c and readerWriterMutex.c share: the buffer  *)
(* and the flag `stillWriting', the accesses that writer() and reader()    *)
(* make to them, and main(), which launches the threads, joins the         *)
(* writers, clears the flag and joins the readers.  The modules of the two *)
(* programs add the synchronisation.  pc[t] names the next call or access  *)
(* of thread t.                                                            *)
(*                                                                         *)
(* Two consecutive accesses of one thread to buffer[0] and buffer[1] have  *)
(* no order in the C source when another thread can see them (a data       *)
(* race): the model makes them in either order.                            *)
(***************************************************************************)
EXTENDS Integers, FiniteSets

CONSTANTS WRITE_ACTIONS,
          Writers, Readers,   \* thread identities
          Nobody              \* the 0 that an int of static storage holds

ASSUME LimitAssumption == WRITE_ACTIONS \in Nat \ {0}

ASSUME ThreadAssumption ==
    /\ IsFiniteSet(Writers) /\ IsFiniteSet(Readers)
    /\ Writers \cap Readers = {}
    /\ Nobody \notin Writers

VARIABLES
    main,           \* "launching", "joining writers", "joining readers",
                    \* "returned" or "failed"
    pc, i,          \* next access per thread; loop counter per writer
    buffer, stillWriting,
    touched,        \* per thread: indices of buffer accessed in this pass
    b,              \* per reader: the locals b_0 and b_1
    misread         \* "Error reading buffer" has been printed

sharedVars == <<buffer, stillWriting, misread>>
threadVars == <<main, pc, i, touched, b>>

Threads == Writers \cup Readers
Indices == {0, 1}
Ids     == Writers \cup {Nobody}
Pair    == [Indices -> Ids]
Empty   == [k \in Indices |-> Nobody]

At(labels) == {t \in Threads : pc[t] \in labels}
Count(labels) == Cardinality(At(labels))

ThreadTypeOK(writerLabels, readerLabels) ==
    /\ main \in {"launching", "joining writers", "joining readers", "returned", "failed"}
    /\ pc \in [Threads -> writerLabels \cup readerLabels \cup {"unborn", "done"}]
    /\ \A w \in Writers : pc[w] \notin readerLabels
    /\ \A r \in Readers : pc[r] \notin writerLabels
    /\ i \in [Writers -> Nat]
    /\ buffer \in Pair
    /\ stillWriting \in BOOLEAN
    /\ touched \in [Threads -> SUBSET Indices]
    /\ b \in [Readers -> Pair]
    /\ misread \in BOOLEAN

ThreadInit ==
    /\ main = "launching"
    /\ pc = [t \in Threads |-> "unborn"]
    /\ i = [w \in Writers |-> 0]
    /\ buffer = Empty
    /\ stillWriting = TRUE
    /\ touched = [t \in Threads |-> {}]
    /\ b = [r \in Readers |-> Empty]
    /\ misread = FALSE

-----------------------------------------------------------------------------
\* A thread of the running process goes on from one access to the next.
Step(t, from, to) ==
    /\ main # "failed"
    /\ pc[t] = from
    /\ pc' = [pc EXCEPT ![t] = to]
    /\ UNCHANGED main

\* A call that concerns the synchronisation only.
SyncStep(t, from, to) ==
    Step(t, from, to) /\ UNCHANGED <<i, touched, b, sharedVars>>

\* One of the two accesses to the buffer at `from'; after both, `to' is next.
Access(t, k, from, to) ==
    /\ k \in Indices \ touched[t]
    /\ IF touched[t] \cup {k} = Indices
       THEN /\ Step(t, from, to)
            /\ touched' = [touched EXCEPT ![t] = {}]
       ELSE /\ Step(t, from, from)
            /\ touched' = [touched EXCEPT ![t] = @ \cup {k}]

\* Slip: both statements store to buffer[0].
StoreFirstCopy(w, k, to) ==
    /\ Access(w, k, "w_store", to)
    /\ buffer' = [buffer EXCEPT ![0] = w]
    /\ UNCHANGED <<i, b, stillWriting, misread>>

\* buffer[k] = threadID
Store(w, k, to) ==
    /\ Access(w, k, "w_store", to)
    /\ buffer' = [buffer EXCEPT ![k] = w]
    /\ UNCHANGED <<i, b, stillWriting, misread>>

\* int b_k = buffer[k]
Load(r, k) ==
    /\ Access(r, k, "r_load", "r_compare")
    /\ b' = [b EXCEPT ![r][k] = buffer[k]]
    /\ UNCHANGED <<i, sharedVars>>

\* The comparison of the two values and the line it prints.  The locals are not
\* used again in this pass.
Compare(r, to) ==
    /\ Step(r, "r_compare", to)
    /\ misread' = (misread \/ b[r][0] # b[r][1])
    /\ b' = [b EXCEPT ![r] = Empty]
    /\ UNCHANGED <<i, touched, buffer, stillWriting>>

\* stillWriting = true, the last statement of a pass through the writer's loop.
RaiseFlag(w, head, after) ==
    /\ Step(w, "w_flag", IF i[w] + 1 < WRITE_ACTIONS THEN head ELSE after)
    /\ i' = [i EXCEPT ![w] = @ + 1]
    /\ stillWriting' = TRUE
    /\ UNCHANGED <<touched, b, buffer, misread>>

\* while (stillWriting)
TestFlag(r, body) ==
    SyncStep(r, "r_while", IF stillWriting THEN body ELSE "done")

(***************************************************************************)
(* main().  A thread runs as soon as it is created.  When a thread cannot  *)
(* be created main() returns -1, which ends the process and its threads.   *)
(***************************************************************************)
Create(t, entry) ==
    /\ main = "launching"
    /\ pc[t] = "unborn"
    /\ pc' = [pc EXCEPT ![t] = entry]
    /\ UNCHANGED <<main, i, touched, b, sharedVars>>

\* Slip: the second loop of main() creates writers too.
LaunchWritersTwice(writerEntry) == \E t \in Threads : Create(t, writerEntry)

\* Writers enter their loop at writerEntry, readers at the test of the flag.
Launch(writerEntry) ==
    \/ \E w \in Writers : Create(w, writerEntry)
    \/ /\ \A w \in Writers : pc[w] # "unborn"
       /\ \E r \in Readers : Create(r, "r_while")

MainMoves(from, to) ==
    /\ main = from
    /\ main' = to
    /\ UNCHANGED <<pc, i, touched, b, buffer, misread>>

CreateFails ==
    At({"unborn"}) # {} /\ MainMoves("launching", "failed") /\ UNCHANGED stillWriting

ThreadsInitialized ==
    At({"unborn"}) = {} /\ MainMoves("launching", "joining writers") /\ UNCHANGED stillWriting

\* Slip: the flag is cleared before the writers have been joined.
WritersNotJoined ==
    /\ MainMoves("joining writers", "joining readers")
    /\ stillWriting' = FALSE

\* Slip: the readers are never told that writing has finished.
FlagNotCleared ==
    /\ Writers \subseteq At({"done"})
    /\ MainMoves("joining writers", "joining readers")
    /\ UNCHANGED stillWriting

\* The writers are joined; let readers know that writing is finished.
WritersComplete ==
    /\ Writers \subseteq At({"done"})
    /\ MainMoves("joining writers", "joining readers")
    /\ stillWriting' = FALSE

ReadersComplete ==
    /\ Readers \subseteq At({"done"})
    /\ MainMoves("joining readers", "returned")
    /\ UNCHANGED stillWriting

Ended == main \in {"returned", "failed"}

-----------------------------------------------------------------------------
(***************************************************************************)
(* Properties of both programs                                             *)
(***************************************************************************)

\* The flag is true as long as any writer thread is active (the comment on
\* stillWriting, semaphore program 55-59, mutex program 50-54).
FlagWhileWriting == (\E w \in Writers : pc[w] \notin {"unborn", "done"}) => stillWriting

\* What makes it so: main() clears the flag when every writer has been joined.
FlagCleared ==
    /\ ~ stillWriting => main \in {"joining readers", "returned"}
    /\ main \in {"joining readers", "returned"} => Writers \subseteq At({"done"})

\* Half a pass over the buffer is only left behind where it goes on.
TouchedInPass == \A t \in Threads : touched[t] # {} => pc[t] \in {"w_store", "r_load"}

\* The two halves of the buffer differ in the middle of a write only.
WritesWhole ==
    /\ \A w \in At({"w_store"}) : \A k \in touched[w] : buffer[k] = w
    /\ At({"w_store"}) = {} => buffer[0] = buffer[1]

\* No read ever prints "Error reading buffer": both halves come from one write
\* (the comments on reader(), semaphore program 97-104, mutex program 114-115).
NoMisread == ~ misread

\* Once every writer has finished, the two halves of the buffer agree and hold
\* the identifier of a writer: writes are never interleaved (writer()).
BufferSettles ==
    (Writers # {} /\ Writers \subseteq At({"done"})) =>
        buffer[0] = buffer[1] /\ buffer[0] \in Writers

\* When main() has told the readers that writing is finished, all of them leave
\* their loops and the program ends, whoever was blocked or reading then.
ReadersStop == main = "joining readers" ~> main = "returned"

\* Every writer gets to execute its critical section WRITE_ACTIONS times (the
\* comment on writer(), semaphore program 62-66).
WritersFinish == <>(Writers \subseteq At({"done"}) \/ main = "failed")

Termination == <>Ended

\* The buffer as one register: a write of both halves takes effect with its first
\* store, and outside of a write the register is the buffer as it is; what a read
\* returns is both locals, seen between the second load and the report.
Storing == {w \in At({"w_store"}) : touched[w] # {}}

Latest == IF Storing # {} THEN [k \in Indices |-> CHOOSE w \in Storing : TRUE] ELSE buffer

ReadOf(r) == IF pc[r] = "r_compare" THEN <<b[r]>> ELSE <<>>

Register == INSTANCE AtomicPair WITH
                register <- Latest, seen <- [r \in Readers |-> ReadOf(r)]

\* Under the synchronisation of the program the two-element buffer implements a
\* register that is read and written in one step: a write ends with both halves
\* written by it, no other write overlaps it, a read returns both halves of the
\* latest write, and none prints an error (47-52, 97-104).
ImplementsRegister == Register!Spec
=============================================================================
