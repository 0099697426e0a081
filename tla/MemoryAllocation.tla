--------------------------- MODULE MemoryAllocation ---------------------------
(***************************************************************************)
(* project 3/memoryAllocation.c: a simulation of memory allocation.  main()*)
(* reads request sizes from a file; allocate() makes room for each one by  *)
(* compaction or by vacating processes and hands it to the policy chosen   *)
(* on the command line.  A pass of the compaction loop, a pass of the      *)
(* eviction loop and a call of the policy are one step each.  A loop over  *)
(* memory is modelled by the memory that it leaves behind.                 *)
(*                                                                         *)
(* fillMemory() and lastAllocationPoint are never used and not modelled.   *)
(* The input file holds nonnegative integers.  A policy that writes past   *)
(* the end of memory overwrites what the build put there: the model stops  *)
(* in that state, "overrun", and says nothing of what the program does on. *)
(* An operator whose comment starts with `Slip' is a plausible mistake in  *)
(* the definition that follows it, kept to show that a property can fail.  *)
(***************************************************************************)
EXTENDS Integers, Sequences, FiniteSets

CONSTANTS MEM_SIZE,
          Sizes,         \* the request sizes that the input file may hold
          MaxRequests,   \* bound: lines of the input file
          MaxVacated,    \* bound: processesVacated stops counting there
          Policies       \* the policies to choose from on the command line

ASSUME MemoryAssumption ==
    /\ MEM_SIZE \in Nat \ {0}
    /\ Sizes \subseteq Nat
    /\ MaxRequests \in Nat /\ MaxVacated \in Nat
    /\ Policies \subseteq {"ff", "nf", "bf", "wf", "pages"}

VARIABLES
    policy,
    pc,          \* "read", "compact", "evict", "place", "written" or "overrun"
    memory,
    requests,    \* the sizes read so far; the last one belongs to requestID
    processesVacated, compactionEvents

vars == <<policy, pc, memory, requests, processesVacated, compactionEvents>>

Cells     == 0 .. MEM_SIZE - 1
paging    == policy = "pages"
requestID == Len(requests)
size      == requests[requestID]

-----------------------------------------------------------------------------
(***************************************************************************)
(* The scans of memory                                                     *)
(***************************************************************************)
Free(m) == {a \in Cells : m[a] = 0}

count_number_of_zeroes(m) == Cardinality(Free(m))

\* Maximal runs of equal cells, as pairs of their first and last cell.
Runs(m) ==
    {run \in Cells \X Cells :
        /\ \A a \in run[1] .. run[2] : m[a] = m[run[1]]
        /\ run[1] <= run[2]
        /\ run[1] > 0 => m[run[1] - 1] # m[run[1]]
        /\ run[2] < MEM_SIZE - 1 => m[run[2] + 1] # m[run[1]]}

Length(run) == run[2] - run[1] + 1

EmptySpaces(m) == {run \in Runs(m) : m[run[1]] = 0}

\* The first of the longest, and the first, of a nonempty set of runs.
FirstLongest(runs) ==
    CHOOSE r \in runs : \A s \in runs :
        Length(s) < Length(r) \/ (Length(s) = Length(r) /\ r[1] <= s[1])

First(runs) == CHOOSE r \in runs : \A s \in runs : r[1] <= s[1]

\* A run is only compared when another one follows, and its first cell is not
\* counted: a process in the last cells, or in one cell, is never returned.
id_of_longest_contig_sequence(m) ==
    LET counted == {run \in Runs(m) :
                       m[run[1]] # 0 /\ Length(run) > 1 /\ run[2] < MEM_SIZE - 1}
    IN  IF counted = {} THEN -1 ELSE m[FirstLongest(counted)[1]]

\* 1 when nothing is free.
index_of_longest_empty_space(m) ==
    IF EmptySpaces(m) = {} THEN 1 ELSE FirstLongest(EmptySpaces(m))[1]

\* An empty space at the end of memory is not considered.
size_of_longest_empty_space(m) ==
    LET followed == {run \in EmptySpaces(m) : run[2] < MEM_SIZE - 1}
    IN  IF followed = {} THEN 0 ELSE Length(FirstLongest(followed))

\* Slip: the length of the space is not taken off the cell where it was found.
find_tightest_spaceEnd(m, n) ==
    LET wide == {run \in EmptySpaces(m) : Length(run) > n}
    IN  IF wide = {} THEN 0 ELSE First(wide)[1] + n + 1

\* The first space with more than n cells, not the tightest one; else cell 0.
find_tightest_space(m, n) ==
    LET wide == {run \in EmptySpaces(m) : Length(run) > n}
    IN  IF wide = {} THEN 0 ELSE First(wide)[1]

\* A free cell 0 is not noticed.
is_compact(m) ==
    \A a, z \in Cells \ {0} : (m[z] = 0 /\ z < a) => m[a] = 0

-----------------------------------------------------------------------------
(***************************************************************************)
(* Compaction and eviction                                                 *)
(***************************************************************************)
Passed(m, a) == \E z \in Free(m) : z <= a

\* Slip: the last cell is copied and not cleared.
CopyingPass(m) ==
    [a \in Cells |-> IF Passed(m, a) /\ a + 1 \in Cells THEN m[a + 1] ELSE m[a]]

\* Slip: the loop stops one cell early.
ShortPass(m) ==
    [a \in Cells |-> IF Passed(m, a) /\ a + 2 \in Cells THEN m[a + 1]
                     ELSE IF Passed(m, a) /\ a + 1 \in Cells THEN 0 ELSE m[a]]

\* One pass of compaction() from left to right.  Behind a free cell each cell in
\* turn moves down by one, if it is not free itself, and is free afterwards: the
\* cells behind the first free one all move down, and the last one is free.
SwapPass(m) ==
    [a \in Cells |-> IF ~ Passed(m, a) THEN m[a]
                     ELSE IF a + 1 \in Cells THEN m[a + 1] ELSE 0]

\* vacateProcess(): -1 is the id of no process, so that nothing is freed.
Vacated(m, id) == [a \in Cells |-> IF m[a] = id THEN 0 ELSE m[a]]

-----------------------------------------------------------------------------
(***************************************************************************)
(* The policies.  What they return is not used by allocate().              *)
(***************************************************************************)
\* The first free cell that is early enough; MEM_SIZE when there is none.
firstFit(m, n) ==
    LET starts == {a \in Free(m) : a < MEM_SIZE - n}
    IN  IF starts = {} THEN MEM_SIZE ELSE CHOOSE a \in starts : \A s \in starts : a <= s

\* The cell from which firstFit(), bestFit() and worstFit() write.
Index(m, n) ==
    CASE policy = "ff" -> firstFit(m, n)
      [] policy = "bf" -> find_tightest_space(m, n)
      [] policy = "wf" -> index_of_longest_empty_space(m)

\* n cells from `index' on, whatever they hold; no cell from MEM_SIZE on.
Filled(m, index, id, n) == [a \in Cells |-> IF a \in index .. index + n - 1 THEN id ELSE m[a]]

\* The policy writes past the end of memory.
Overruns(m, n) ==
    /\ policy \in {"ff", "bf", "wf"}
    /\ Index(m, n) < MEM_SIZE /\ n > 0 /\ Index(m, n) + n > MEM_SIZE

\* Slip: one cell too many.
nextFitOneMore(m, id, n) ==
    [a \in Cells |-> IF a \in Free(m) /\ Cardinality({f \in Free(m) : f < a}) <= n
                     THEN id ELSE m[a]]

\* The first n free cells, wherever they are.
nextFit(m, id, n) ==
    [a \in Cells |-> IF a \in Free(m) /\ Cardinality({f \in Free(m) : f < a}) < n
                     THEN id ELSE m[a]]

\* Slip: a frame is taken for free when its second cell is.
FreeFramesBySecond(m) == {f \in Cells : f % 2 = 0 /\ f < MEM_SIZE - 1 /\ m[f + 1] = 0}

\* A frame is free when its first cell is.
FreeFrames(m) == {f \in Cells : f % 2 = 0 /\ f < MEM_SIZE - 1 /\ m[f] = 0}

\* Slip: the half of a frame that is left over is given to the next process.
pagesShared(m, id, n) == nextFit(m, id, n)

\* Whole frames, then for an odd size half of the next one; a request of 1 takes
\* a whole frame before the half.  The free frames may run out on the way.
pages(m, id, n) ==
    LET whole == IF n = 1 THEN 1 ELSE IF n > 1 THEN n \div 2 ELSE 0
        half  == n > 0 /\ n % 2 = 1
        rank(f) == Cardinality({g \in FreeFrames(m) : g < f})
        frame(a) == a - (a % 2)
    IN  [a \in Cells |->
            IF frame(a) \notin FreeFrames(m) THEN m[a]
            ELSE IF rank(frame(a)) < whole THEN id
            ELSE IF half /\ rank(frame(a)) = whole THEN (IF a % 2 = 0 THEN id ELSE 0)
            ELSE m[a]]

Placed(m, id, n) ==
    CASE policy = "nf" -> nextFit(m, id, n)
      [] policy = "pages" -> pages(m, id, n)
      [] OTHER -> Filled(m, Index(m, n), id, n)

-----------------------------------------------------------------------------
(***************************************************************************)
(* main() and allocate()                                                   *)
(***************************************************************************)
TypeOK ==
    /\ policy \in Policies
    /\ pc \in {"read", "compact", "evict", "place", "written", "overrun"}
    /\ memory \in [Cells -> 0 .. requestID]
    /\ requests \in Seq(Sizes)
    /\ pc \in {"compact", "evict", "place"} => requests # <<>>
    /\ processesVacated \in 0 .. MaxVacated
    /\ compactionEvents \in 0 .. requestID

Init ==
    /\ policy \in Policies
    /\ pc = "read"
    /\ memory = [a \in Cells |-> 0]    \* clearMemory()
    /\ requests = <<>>
    /\ processesVacated = 0
    /\ compactionEvents = 0

\* The branch of allocate() that compacts instead of vacating.
Fragmented(m, n) ==
    /\ ~ paging
    /\ n <= count_number_of_zeroes(m)
    /\ n > size_of_longest_empty_space(m)

\* The next line of the input file, and the first decisions of allocate().
Request(n) ==
    /\ pc = "read"
    /\ Len(requests) < MaxRequests
    /\ requests' = Append(requests, n)
    /\ IF Fragmented(memory, n) /\ ~ is_compact(memory)
       THEN pc' = "compact" /\ compactionEvents' = compactionEvents + 1
       ELSE /\ pc' = IF Fragmented(memory, n) THEN "place" ELSE "evict"
            /\ UNCHANGED compactionEvents
    /\ UNCHANGED <<policy, memory, processesVacated>>

CompactionPass ==
    /\ pc = "compact" /\ ~ is_compact(memory)
    /\ memory' = SwapPass(memory)
    /\ UNCHANGED <<policy, pc, requests, processesVacated, compactionEvents>>

CompactionDone ==
    /\ pc = "compact" /\ is_compact(memory)
    /\ pc' = "place"
    /\ UNCHANGED <<policy, memory, requests, processesVacated, compactionEvents>>

Vacate ==
    /\ pc = "evict" /\ size > count_number_of_zeroes(memory)
    /\ memory' = Vacated(memory, id_of_longest_contig_sequence(memory))
    /\ processesVacated' = IF processesVacated < MaxVacated THEN processesVacated + 1
                           ELSE MaxVacated
    /\ UNCHANGED <<policy, pc, requests, compactionEvents>>

EnoughZeroes ==
    /\ pc = "evict" /\ size <= count_number_of_zeroes(memory)
    /\ pc' = "place"
    /\ UNCHANGED <<policy, memory, requests, processesVacated, compactionEvents>>

\* Slip: requestID is incremented before the call.
PlaceNextID ==
    /\ pc = "place"
    /\ memory' = Placed(memory, requestID + 1, size)
    /\ pc' = IF Overruns(memory, size) THEN "overrun" ELSE "read"
    /\ UNCHANGED <<policy, requests, processesVacated, compactionEvents>>

\* policy(id, size)
Place ==
    /\ pc = "place"
    /\ memory' = Placed(memory, requestID, size)
    /\ pc' = IF Overruns(memory, size) THEN "overrun" ELSE "read"
    /\ UNCHANGED <<policy, requests, processesVacated, compactionEvents>>

\* End of the input file: the state of memory goes to the output file.
EndOfInput ==
    /\ pc = "read"
    /\ pc' = "written"
    /\ UNCHANGED <<policy, memory, requests, processesVacated, compactionEvents>>

allocate == CompactionPass \/ CompactionDone \/ Vacate \/ EnoughZeroes \/ Place

Next ==
    \/ \E n \in Sizes : Request(n)
    \/ allocate
    \/ EndOfInput
    \/ pc \in {"written", "overrun"} /\ UNCHANGED vars

Spec == Init /\ [][Next]_vars

\* allocate() runs on: it waits for nothing.
FairSpec == Spec /\ WF_vars(allocate)

-----------------------------------------------------------------------------
(***************************************************************************)
(* Properties                                                              *)
(***************************************************************************)
CellsOf(m, id) == {a \in Cells : m[a] = id}

Used(m) == Cells \ Free(m)

\* What memory holds, from cell 0 on, without the free cells: pairs of the number
\* of cells in use before this one and the process that holds it.
Contents(m) == {<<Cardinality({u \in Used(m) : u < a}), m[a]>> : a \in Used(m)}

\* Compaction moves processes towards cell 0 and never loses, duplicates or
\* reorders one of their cells (compaction(), 436-447).
CompactionKeepsContents ==
    [][pc = "compact" => Contents(memory') = Contents(memory)]_vars

\* What makes it end: each pass moves the last cell in use down by one.
CompactionShrinks ==
    [][pc = "compact" /\ pc' = "compact" =>
          \E last \in Used(memory) :
              /\ \A a \in Used(memory) : a <= last
              /\ last - 1 \in Used(memory') /\ \A a \in Used(memory') : a <= last - 1]_vars

\* The compaction loop ends (434-448).
CompactionEnds == pc = "compact" ~> pc = "place"

\* Under next-fit, a process gets as many cells as it asked for and keeps them
\* all until it is vacated: no later request, no compaction and no eviction of
\* another process takes some of them (allocate(), 467-490; nextFit(), 293-310).
WholeProcesses ==
    policy = "nf" => \A id \in 1 .. requestID :
        LET held == Cardinality(CellsOf(memory, id))
        IN  id < requestID \/ pc \in {"read", "written"} =>
                held = requests[id] \/ (id < requestID /\ held = 0)

\* "For paging, allocation should only fail if there are not enough free frames, in
\* which case the process occupying the most memory should be vacated before trying
\* again" (comment 456-458): a request that has been placed holds the cells it asked
\* for.
PagedWhole ==
    paging /\ requests # <<>> /\ pc \in {"read", "written"} =>
        Cardinality(CellsOf(memory, requestID)) >= size

\* The cells that pages() takes when there are frames enough: for a request of 1 a
\* frame and a half, though one frame would hold it (374-391).
Paged(n) == IF n = 1 THEN 3 ELSE n

\* What the code does instead of PagedWhole: it cuts a request short, without
\* vacating anybody or reporting it, when the free frames run out (395).
CutShortWhenFull ==
    paging /\ requests # <<>> /\ pc \in {"read", "written"} =>
        Cardinality(CellsOf(memory, requestID)) = Paged(size) \/ FreeFrames(memory) = {}

\* Under paging, a frame never holds cells of two processes (comment 338-343).
FramesUnshared ==
    policy = "pages" => \A f \in Cells :
        (f % 2 = 0 /\ f < MEM_SIZE - 1 /\ memory[f + 1] # 0) => memory[f] = memory[f + 1]

\* No policy but worst-fit writes past the end of memory (check at 41-44): there
\* is room behind the first free cell, and behind the cells that best-fit takes.
InBounds == policy # "wf" => pc # "overrun"

\* Next-fit and paging take no cell that another process holds (check at 37-40).
ReservedKept ==
    [][pc = "place" /\ policy \in {"nf", "pages"} =>
          \A a \in Cells : memory[a] # 0 => memory'[a] = memory[a]]_vars

\* "assign the process id to a contiguous region of memory with "size" number of
\* blocks. Return true on success, and false if no region large enough exists"
\* (comment 256-258), and "Never fill reserved space" (37).
RegionAssigned ==
    [][pc = "place" /\ policy # "pages" =>
          \/ /\ memory' = memory
             /\ \A run \in EmptySpaces(memory) : Length(run) < size
          \/ \E index \in 0 .. MEM_SIZE - size :
             /\ index .. index + size - 1 \subseteq Free(memory)
             /\ memory' = Filled(memory, index, requestID, size)]_vars

\* Making room comes to an end, and every request reaches its policy (comment
\* 463-466).
RequestsServed == pc = "evict" ~> pc = "place"

\* What the proofs need besides: paging does not compact; a request is placed when
\* that many cells are free; until then no cell holds its identifier.
PagingNeverCompacts == paging => pc # "compact"

RequestFits == pc \in {"compact", "place"} => size <= count_number_of_zeroes(memory)

Fresh == pc \in {"compact", "evict", "place"} => CellsOf(memory, requestID) = {}

\* The inductive invariant.
IndInv ==
    /\ TypeOK /\ PagingNeverCompacts /\ RequestFits /\ Fresh
    /\ WholeProcesses /\ CutShortWhenFull /\ FramesUnshared /\ InBounds
=============================================================================
