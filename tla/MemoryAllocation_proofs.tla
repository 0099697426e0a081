------------------------ MODULE MemoryAllocation_proofs ------------------------
(***************************************************************************)
(* Safety of MemoryAllocation, for any size of memory, any request sizes   *)
(* and any number of requests: what the policies may write to, and that no *)
(* request, compaction or eviction leaves a process with some of its cells.*)
(***************************************************************************)
EXTENDS MemoryAllocation, FiniteSetTheorems, FunctionTheorems, WellFoundedInduction, TLAPS

-----------------------------------------------------------------------------
(***************************************************************************)
(* The scans of memory                                                     *)
(***************************************************************************)
\* A nonempty set of numbers has a least one.
LEMMA LeastExists ==
    ASSUME NEW T \in SUBSET Nat, T # {}
    PROVE  \E x \in T : \A y \in T : x <= y
<1>1. PICK x \in T : \A y \in T : ~ (<<y, x>> \in OpToRel(<, Nat))
  BY NatLessThanWellFounded, WFMin, Zenon
<1>2. \A y \in T : ~ (y < x)
  BY <1>1 DEF OpToRel
<1>3. \A y \in T : x <= y
  BY <1>2
<1> QED
  BY <1>3

\* No more cells are free than there are.
LEMMA ZeroesBound ==
    ASSUME NEW m
    PROVE  count_number_of_zeroes(m) \in Nat /\ count_number_of_zeroes(m) <= MEM_SIZE
<1>1. MEM_SIZE \in Nat /\ MEM_SIZE # 0
  BY MemoryAssumption
<1>2. IsFiniteSet(Cells) /\ Cardinality(Cells) = MEM_SIZE
  BY <1>1, FS_Interval DEF Cells
<1>3. Free(m) \in SUBSET Cells
  BY DEF Free
<1>4. IsFiniteSet(Free(m)) /\ Cardinality(Free(m)) <= MEM_SIZE
  BY <1>2, <1>3, FS_Subset
<1> QED
  BY <1>4, FS_CardinalityType DEF count_number_of_zeroes

\* firstFit() finds a cell with room for n cells behind it, or none.
LEMMA FirstFitBound ==
    ASSUME NEW m, NEW n \in Nat
    PROVE  firstFit(m, n) = MEM_SIZE \/ (firstFit(m, n) \in Cells /\ firstFit(m, n) + n < MEM_SIZE)
<1> DEFINE starts == {a \in Free(m) : a < MEM_SIZE - n}
<1>1. MEM_SIZE \in Nat
  BY MemoryAssumption
<1>2. CASE starts = {}
  BY <1>2 DEF firstFit
<1>3. CASE starts # {}
  <2>1. starts \in SUBSET Nat
    BY <1>1 DEF Free, Cells
  <2>2. \E a \in starts : \A s \in starts : a <= s
    BY <1>3, <2>1, LeastExists
  <2>3. firstFit(m, n) \in starts
    BY <1>3, <2>2 DEF firstFit
  <2> QED
    BY <1>1, <2>3 DEF Free, Cells
<1> QED
  BY <1>2, <1>3

\* find_tightest_space() finds a space with room for n cells, or falls back on 0.
LEMMA TightestBound ==
    ASSUME NEW m, NEW n \in Nat
    PROVE  \/ find_tightest_space(m, n) = 0
           \/ find_tightest_space(m, n) \in Cells /\ find_tightest_space(m, n) + n < MEM_SIZE
<1> DEFINE wide == {run \in EmptySpaces(m) : Length(run) > n}
<1>1. MEM_SIZE \in Nat
  BY MemoryAssumption
<1>2. CASE wide = {}
  BY <1>2 DEF find_tightest_space
<1>3. CASE wide # {}
  <2>1. \A run \in wide : run \in Cells \X Cells /\ run[2] - run[1] + 1 > n
    BY DEF EmptySpaces, Runs, Length
  <2> HIDE DEF wide
  <2> DEFINE first == {run[1] : run \in wide}
  <2>2. first \in SUBSET Nat /\ first # {}
    BY <1>1, <1>3, <2>1 DEF Cells
  <2>3. PICK x \in first : \A y \in first : x <= y
    BY <2>2, LeastExists
  <2>4. \E r \in wide : \A s \in wide : r[1] <= s[1]
    BY <2>3
  <2>5. First(wide) \in wide
    BY <2>4 DEF First
  <2>6. find_tightest_space(m, n) = First(wide)[1]
    BY <1>3 DEF find_tightest_space, wide
  <2> QED
    BY <1>1, <2>1, <2>5, <2>6 DEF Cells
<1> QED
  BY <1>2, <1>3

-----------------------------------------------------------------------------
(***************************************************************************)
(* What the policies leave in memory                                       *)
(***************************************************************************)
Memories(k) == [Cells -> 0 .. k]

\* Only the identifier of the request and 0 get into memory.
LEMMA PlacedType ==
    ASSUME NEW k \in Nat, NEW m \in Memories(k), NEW id \in 0 .. k, NEW n
    PROVE  Placed(m, id, n) \in Memories(k)
<1>1. nextFit(m, id, n) \in Memories(k)
  BY DEF nextFit, Memories
<1>2. pages(m, id, n) \in Memories(k)
  BY DEF pages, Memories
<1>3. \A index : Filled(m, index, id, n) \in Memories(k)
  BY DEF Filled, Memories
<1> QED
  BY <1>1, <1>2, <1>3 DEF Placed

LEMMA SwapPassType ==
    ASSUME NEW k \in Nat, NEW m \in Memories(k)
    PROVE  SwapPass(m) \in Memories(k)
BY DEF SwapPass, Memories

LEMMA VacatedType ==
    ASSUME NEW k \in Nat, NEW m \in Memories(k), NEW id
    PROVE  Vacated(m, id) \in Memories(k)
BY DEF Vacated, Memories

\* The second cell of a frame is free, or belongs to the process of the first.
Unshared(m) ==
    \A f \in Cells : (f % 2 = 0 /\ f < MEM_SIZE - 1 /\ m[f + 1] # 0) => m[f] = m[f + 1]

LEMMA FrameOf ==
    ASSUME NEW f \in Cells, f % 2 = 0, f < MEM_SIZE - 1
    PROVE  /\ f + 1 \in Cells
           /\ f - (f % 2) = f
           /\ (f + 1) - ((f + 1) % 2) = f
           /\ (f + 1) % 2 = 1
BY MemoryAssumption DEF Cells

\* pages() takes and leaves whole frames.
LEMMA PagesUnshared ==
    ASSUME NEW m, Unshared(m), NEW id, NEW n
    PROVE  Unshared(pages(m, id, n))
<1> SUFFICES ASSUME NEW f \in Cells, f % 2 = 0, f < MEM_SIZE - 1,
                    pages(m, id, n)[f + 1] # 0
             PROVE  pages(m, id, n)[f] = pages(m, id, n)[f + 1]
  BY DEF Unshared
<1>1. /\ f + 1 \in Cells /\ f - (f % 2) = f /\ (f + 1) - ((f + 1) % 2) = f
      /\ (f + 1) % 2 # 0
  BY FrameOf
<1>2. m[f + 1] # 0 => m[f] = m[f + 1]
  BY DEF Unshared
<1>3. f \in FreeFrames(m) => m[f] = 0
  BY DEF FreeFrames
<1> DEFINE whole == IF n = 1 THEN 1 ELSE IF n > 1 THEN n \div 2 ELSE 0
           half  == n > 0 /\ n % 2 = 1
           rank  == Cardinality({g \in FreeFrames(m) : g < f})
<1>4. pages(m, id, n)[f] =
        IF f \notin FreeFrames(m) THEN m[f] ELSE IF rank < whole THEN id
        ELSE IF half /\ rank = whole THEN id ELSE m[f]
  BY <1>1 DEF pages
<1>5. pages(m, id, n)[f + 1] =
        IF f \notin FreeFrames(m) THEN m[f + 1] ELSE IF rank < whole THEN id
        ELSE IF half /\ rank = whole THEN 0 ELSE m[f + 1]
  BY <1>1 DEF pages
<1> HIDE DEF whole, half, rank
<1> QED
  BY <1>2, <1>3, <1>4, <1>5

\* To vacate a process frees all its cells.
LEMMA VacatedUnshared ==
    ASSUME NEW m, Unshared(m), NEW id
    PROVE  Unshared(Vacated(m, id))
BY FrameOf DEF Unshared, Vacated

\* Where frames are not shared, a cell in use is not in a free frame.
LEMMA PagesKeep ==
    ASSUME NEW m, Unshared(m), NEW id, NEW n, NEW a \in Cells, m[a] # 0
    PROVE  pages(m, id, n)[a] = m[a]
<1> DEFINE f == a - (a % 2)
<1>1. f \notin FreeFrames(m)
  <2> SUFFICES ASSUME f \in FreeFrames(m) PROVE FALSE
    OBVIOUS
  <2>1. f \in Cells /\ f % 2 = 0 /\ f < MEM_SIZE - 1 /\ m[f] = 0
    BY DEF FreeFrames
  <2>2. a = f \/ a = f + 1
    BY MemoryAssumption DEF Cells
  <2> QED
    BY <2>1, <2>2 DEF Unshared
<1> QED
  BY <1>1 DEF pages

-----------------------------------------------------------------------------
(***************************************************************************)
(* Counting cells                                                          *)
(***************************************************************************)
LEMMA CellsFinite ==
    ASSUME NEW F \in SUBSET Cells
    PROVE  IsFiniteSet(F) /\ Cardinality(F) \in Nat
<1>1. MEM_SIZE \in Nat
  BY MemoryAssumption
<1>2. IsFiniteSet(Cells)
  BY <1>1, FS_Interval DEF Cells
<1> QED
  BY <1>2, FS_Subset, FS_CardinalityType

\* A one-to-one map keeps the number of elements.
LEMMA SameNumber ==
    ASSUME NEW S, NEW T, IsFiniteSet(S), NEW f \in [S -> T],
           \A x, y \in S : f[x] = f[y] => x = y,
           \A y \in T : \E x \in S : f[x] = y
    PROVE  Cardinality(T) = Cardinality(S)
<1>1. f \in Bijection(S, T)
  BY Fun_IsBij
<1>2. ExistsBijection(S, T)
  BY <1>1, Fun_ExistsBij
<1> QED
  BY <1>2, FS_Bijection

\* The number of elements of F below a.
Rank(F, a) == Cardinality({g \in F : g < a})

\* Ranks are the numbers below the number of elements, each one once.
LEMMA Ranks ==
    ASSUME NEW F \in SUBSET Cells
    PROVE  /\ \A a \in F : Rank(F, a) \in 0 .. Cardinality(F) - 1
           /\ \A a, b \in F : Rank(F, a) = Rank(F, b) => a = b
           /\ \A k \in 0 .. Cardinality(F) - 1 : \E a \in F : Rank(F, a) = k
<1> DEFINE below(a) == {g \in F : g < a}
           T == 0 .. Cardinality(F) - 1
           r == [a \in F |-> Rank(F, a)]
<1>1. (\A g \in F : g \in Int) /\ IsFiniteSet(F) /\ Cardinality(F) \in Nat
  BY CellsFinite, MemoryAssumption DEF Cells
<1>2. \A a : IsFiniteSet(below(a)) /\ Rank(F, a) \in Nat /\ Rank(F, a) <= Cardinality(F)
  BY <1>1, FS_Subset, FS_CardinalityType DEF Rank
<1>3. ASSUME NEW a \in F, NEW b \in F, a < b PROVE Rank(F, a) < Rank(F, b)
  <2>1. a \in Int /\ b \in Int /\ \A g \in F : g \in Int
    BY <1>1
  <2>2. \A g \in F : g < a => g < b
    BY ONLY <1>3, <2>1
  <2>3. below(a) \in SUBSET below(b)
    BY ONLY <2>2
  <2>4. a \in below(b) /\ a \notin below(a)
    BY ONLY <1>3, <2>1
  <2>5. IsFiniteSet(below(b)) /\ Rank(F, a) = Cardinality(below(a)) /\ Rank(F, b) = Cardinality(below(b))
    BY <1>2 DEF Rank
  <2>6. Cardinality(below(a)) <= Cardinality(below(b)) /\ Cardinality(below(a)) # Cardinality(below(b))
    <3> HIDE DEF below
    <3> QED
      BY <2>3, <2>4, <2>5, FS_Subset
  <2>7. Rank(F, a) \in Nat /\ Rank(F, b) \in Nat
    BY <1>2
  <2> QED
    BY ONLY <2>5, <2>6, <2>7
<1>4. \A a \in F : Rank(F, a) \in T
  <2>1. ASSUME NEW a \in F PROVE Rank(F, a) # Cardinality(F)
    <3>1. below(a) \in SUBSET F /\ a \notin below(a)
      BY <1>1
    <3>2. below(a) # F
      BY <3>1
    <3> QED
      BY <1>1, <3>1, <3>2, FS_Subset DEF Rank
  <2>2. \A a \in F : Rank(F, a) \in Nat /\ Rank(F, a) <= Cardinality(F) /\ Rank(F, a) # Cardinality(F)
    BY <1>2, <2>1
  <2> QED
    BY <1>1, <2>2
<1>5. \A a, b \in F : Rank(F, a) = Rank(F, b) => a = b
  <2>1. SUFFICES ASSUME NEW a \in F, NEW b \in F, Rank(F, a) = Rank(F, b), a # b PROVE FALSE
    OBVIOUS
  <2>2. a < b \/ b < a
    BY <1>1, <2>1
  <2>3. Rank(F, a) < Rank(F, b) \/ Rank(F, b) < Rank(F, a)
    BY <1>3, <2>2
  <2>4. Rank(F, a) \in Nat /\ Rank(F, b) \in Nat
    BY <1>2
  <2> QED
    BY <2>1, <2>3, <2>4
<1>6. r \in Injection(F, T)
  BY <1>4, <1>5, Fun_IsInj
<1>7. IsFiniteSet(T) /\ Cardinality(T) = Cardinality(F)
  BY <1>1, FS_Interval
<1>8. r \in Surjection(F, T)
  BY <1>6, <1>7, FS_Injection
<1>9. \A k \in T : \E a \in F : r[a] = k
  BY <1>8 DEF Surjection
<1> QED
  BY <1>4, <1>5, <1>9

\* As many as asked for are among the first n.
LEMMA FirstOnes ==
    ASSUME NEW F \in SUBSET Cells, NEW n \in Nat, n <= Cardinality(F)
    PROVE  Cardinality({a \in F : Rank(F, a) < n}) = n
<1> DEFINE S == {a \in F : Rank(F, a) < n}
           T == 0 .. n - 1
           r == [a \in S |-> Rank(F, a)]
<1>1. Cardinality(F) \in Nat /\ IsFiniteSet(S)
  BY CellsFinite
<1>2. r \in [S -> T]
  BY <1>1, Ranks
<1>3. \A x, y \in S : r[x] = r[y] => x = y
  BY Ranks
<1>4. \A y \in T : \E x \in S : r[x] = y
  <2>1. SUFFICES ASSUME NEW y \in T PROVE \E x \in S : r[x] = y
    OBVIOUS
  <2>2. y \in 0 .. Cardinality(F) - 1 /\ y < n
    BY <1>1
  <2>3. PICK a \in F : Rank(F, a) = y
    BY <2>2, Ranks
  <2> QED
    BY <2>2, <2>3
<1>5. Cardinality(T) = Cardinality(S)
  <2> HIDE DEF r, S, T
  <2> QED
    BY <1>1, <1>2, <1>3, <1>4, SameNumber
<1>6. Cardinality(T) = n
  BY FS_Interval
<1> QED
  BY <1>5, <1>6

\* A pass of compaction permutes the cells: every process, and what is free,
\* keeps its number of cells.
LEMMA SwapPassCount ==
    ASSUME NEW k \in Nat, NEW m \in Memories(k), NEW id
    PROVE  Cardinality(CellsOf(SwapPass(m), id)) = Cardinality(CellsOf(m, id))
<1>1. MEM_SIZE \in Nat /\ MEM_SIZE - 1 \in Cells
  BY MemoryAssumption DEF Cells
<1>2. Free(m) \in SUBSET Nat /\ Free(m) \subseteq Cells /\ \A a \in Free(m) : m[a] = 0
  BY <1>1 DEF Free, Cells
<1>3. CASE Free(m) = {}
  <2>1. SwapPass(m) = m
    BY <1>3 DEF SwapPass, Passed, Memories
  <2> QED
    BY <2>1
<1>4. CASE Free(m) # {}
  <2>1. PICK z \in Free(m) : \A y \in Free(m) : z <= y
    BY <1>2, <1>4, LeastExists
  <2>2. z \in Cells /\ m[z] = 0
    BY <1>2
  <2>3. \A a \in Cells : Passed(m, a) <=> z <= a
    BY <1>1, <1>2, <2>1, <2>2 DEF Passed, Cells
  <2> DEFINE p == SwapPass(m)
             S == CellsOf(m, id)
             T == CellsOf(p, id)
             down == [a \in S |-> IF a < z THEN a ELSE IF a = z THEN MEM_SIZE - 1 ELSE a - 1]
  <2>4. \A a \in Cells : p[a] = IF a < z THEN m[a] ELSE IF a = MEM_SIZE - 1 THEN 0 ELSE m[a + 1]
    BY <1>1, <2>2, <2>3 DEF SwapPass, Cells
  <2> HIDE DEF p
  <2>5. ASSUME NEW a \in S PROVE down[a] \in T
    BY <1>1, <2>2, <2>4 DEF CellsOf, Cells
  <2>6. ASSUME NEW x \in S, NEW y \in S, down[x] = down[y] PROVE x = y
    BY <1>1, <2>2, <2>6 DEF CellsOf, Cells
  <2>7. ASSUME NEW y \in T PROVE \E x \in S : down[x] = y
    <3>1. y \in Cells /\ p[y] = id
      BY DEF CellsOf
    <3>2. CASE y < z
      <4>1. y \in S /\ down[y] = y
        BY <2>4, <3>1, <3>2 DEF CellsOf
      <4> QED
        BY <4>1
    <3>3. CASE ~ (y < z) /\ y = MEM_SIZE - 1
      <4>1. z \in S /\ down[z] = y
        BY <1>1, <2>2, <2>4, <3>1, <3>3 DEF CellsOf, Cells
      <4> QED
        BY <4>1
    <3>4. CASE ~ (y < z) /\ y # MEM_SIZE - 1
      <4>1. y + 1 \in S /\ down[y + 1] = y
        BY <1>1, <2>2, <2>4, <3>1, <3>4 DEF CellsOf, Cells
      <4> QED
        BY <4>1
    <3> QED
      BY <3>2, <3>3, <3>4
  <2>8. IsFiniteSet(S)
    BY CellsFinite DEF CellsOf
  <2>9. down \in [S -> T]
    BY <2>5
  <2> HIDE DEF S, T, down
  <2> QED
    BY <2>6, <2>7, <2>8, <2>9, SameNumber DEF S, T, p
<1> QED
  BY <1>3, <1>4

\* Where a pass puts the cell a, when z is the first free one: the cells in use
\* behind z all move down by one.
Down(z, a) == IF a < z THEN a ELSE a - 1

\* What a pass does: either nothing is free and nothing moves, or the cells in use
\* move down without changing their order or their identifier.
LEMMA SwapPassMoves ==
    ASSUME NEW k \in Nat, NEW m \in Memories(k)
    PROVE  \/ Free(m) = {} /\ SwapPass(m) = m
           \/ \E z \in Free(m) :
                 /\ \A y \in Free(m) : z <= y
                 /\ \A a \in Used(m) : /\ a \in Cells /\ a # z /\ Down(z, a) \in Used(SwapPass(m))
                                       /\ SwapPass(m)[Down(z, a)] = m[a]
                 /\ \A a, c \in Used(m) : a < c <=> Down(z, a) < Down(z, c)
                 /\ \A y \in Used(SwapPass(m)) : \E a \in Used(m) : Down(z, a) = y
<1>1. MEM_SIZE \in Nat /\ MEM_SIZE - 1 \in Cells /\ Cells \subseteq Nat
  BY MemoryAssumption DEF Cells
<1>2. Free(m) \in SUBSET Nat /\ \A a \in Free(m) : a \in Cells /\ m[a] = 0
  BY <1>1 DEF Free
<1>3. CASE Free(m) = {}
  BY <1>3 DEF SwapPass, Passed, Memories
<1>4. CASE Free(m) # {}
  <2>1. PICK z \in Free(m) : \A y \in Free(m) : z <= y
    BY <1>2, <1>4, LeastExists
  <2>2. z \in Cells /\ m[z] = 0
    BY <1>2
  <2>3. \A a \in Cells : Passed(m, a) <=> z <= a
    BY <1>1, <1>2, <2>1, <2>2 DEF Passed
  <2> DEFINE p == SwapPass(m)
  <2>4. \A a \in Cells : p[a] = IF a < z THEN m[a] ELSE IF a = MEM_SIZE - 1 THEN 0 ELSE m[a + 1]
    BY <1>1, <2>2, <2>3 DEF SwapPass, Cells
  <2> HIDE DEF p
  <2>5. /\ \A a : a \in Used(m) <=> a \in Cells /\ m[a] # 0
        /\ \A a : a \in Used(p) <=> a \in Cells /\ p[a] # 0
    BY DEF Used, Free
  <2>6. ASSUME NEW a \in Used(m)
        PROVE  a \in Cells /\ a # z /\ Down(z, a) \in Used(p) /\ p[Down(z, a)] = m[a]
    <3>1. a \in Cells /\ m[a] # 0 /\ a # z
      BY <2>2, <2>5
    <3>2. Down(z, a) \in Cells /\ p[Down(z, a)] = m[a]
      BY <1>1, <2>2, <2>4, <3>1 DEF Down, Cells
    <3> QED
      BY <2>5, <3>1, <3>2
  <2>7. \A a, c \in Used(m) : a < c <=> Down(z, a) < Down(z, c)
    <3>1. \A a \in Used(m) : a \in Nat /\ a # z
      BY <1>1, <2>6
    <3> QED
      BY <1>1, <2>2, <3>1 DEF Down
  <2>8. ASSUME NEW y \in Used(p) PROVE \E a \in Used(m) : Down(z, a) = y
    <3>1. y \in Cells /\ p[y] # 0
      BY <2>5
    <3>2. CASE y < z
      <4>1. y \in Used(m) /\ Down(z, y) = y
        BY <2>4, <2>5, <3>1, <3>2 DEF Down
      <4> QED
        BY <4>1
    <3>3. CASE ~ (y < z)
      <4>1. y + 1 \in Used(m)
        BY <1>1, <2>2, <2>4, <2>5, <3>1, <3>3 DEF Cells
      <4>2. Down(z, y + 1) = y
        BY <1>1, <2>2, <3>1, <3>3 DEF Down, Cells
      <4> QED
        BY <4>1, <4>2
    <3> QED
      BY <3>2, <3>3
  <2> QED
    BY <2>1, <2>6, <2>7, <2>8 DEF p
<1> QED
  BY <1>3, <1>4

\* So what memory holds stays the same, in the same order.
LEMMA SwapPassContents ==
    ASSUME NEW k \in Nat, NEW m \in Memories(k)
    PROVE  Contents(SwapPass(m)) = Contents(m)
<1> DEFINE p == SwapPass(m)
           U == Used(m)
           V == Used(p)
<1>1. CASE p = m
  BY <1>1
<1>2. ASSUME NEW z \in Free(m),
             \A a \in U : a \in Cells /\ a # z /\ Down(z, a) \in V /\ p[Down(z, a)] = m[a],
             \A a, c \in U : a < c <=> Down(z, a) < Down(z, c),
             \A y \in V : \E a \in U : Down(z, a) = y
      PROVE  Contents(p) = Contents(m)
  <2>0. Cells \subseteq Nat /\ U \in SUBSET Cells /\ z \in Nat
    BY MemoryAssumption DEF Cells, Used, Free
  <2> HIDE DEF p, U, V
  <2>1. ASSUME NEW a \in U
        PROVE  Cardinality({v \in V : v < Down(z, a)}) = Cardinality({u \in U : u < a})
    <3> DEFINE S == {u \in U : u < a}
               T == {v \in V : v < Down(z, a)}
               down == [u \in S |-> Down(z, u)]
    <3>1. IsFiniteSet(S)
      BY <2>0, CellsFinite
    <3>2. down \in [S -> T]
      BY <1>2
    <3>3. ASSUME NEW x \in S, NEW y \in S, down[x] = down[y] PROVE x = y
      <4>1. ~ (x < y) /\ ~ (y < x)
        <5>1. Down(z, x) \in Int /\ Down(z, x) = Down(z, y)
          BY <2>0, <3>3 DEF Down
        <5>2. ~ (Down(z, x) < Down(z, y)) /\ ~ (Down(z, y) < Down(z, x))
          BY <5>1
        <5> QED
          BY <1>2, <5>2
      <4> QED
        BY <2>0, <4>1
    <3>4. ASSUME NEW y \in T PROVE \E x \in S : down[x] = y
      <4>1. PICK x \in U : Down(z, x) = y
        BY <1>2
      <4>2. x \in S
        BY <1>2, <4>1
      <4> QED
        BY <4>1, <4>2
    <3> HIDE DEF S, T, down
    <3>5. Cardinality(T) = Cardinality(S)
      BY <3>1, <3>2, <3>3, <3>4, SameNumber
    <3> QED
      BY <3>5 DEF S, T
  <2> DEFINE order(F, a) == Cardinality({u \in F : u < a})
  <2>2. \A a \in U : order(V, Down(z, a)) = order(U, a) /\ p[Down(z, a)] = m[a] /\ Down(z, a) \in V
    BY <1>2, <2>1
  <2>3. Contents(m) = {<<order(U, a), m[a]>> : a \in U}
    BY DEF Contents, U
  <2>4. Contents(p) = {<<order(V, y), p[y]>> : y \in V}
    BY DEF Contents, V
  <2> HIDE DEF order
  <2>5. \A a \in U : <<order(U, a), m[a]>> \in Contents(p)
    BY <2>2, <2>4
  <2>6. \A y \in V : <<order(V, y), p[y]>> \in Contents(m)
    BY <1>2, <2>2, <2>3
  <2> QED
    BY <2>3, <2>4, <2>5, <2>6
<1> QED
  BY <1>1, <1>2, SwapPassMoves

\* A pass over memory that is not compact moves the last cell in use.
LEMMA SwapPassShrinks ==
    ASSUME NEW k \in Nat, NEW m \in Memories(k), ~ is_compact(m)
    PROVE  \E last \in Used(m) :
              /\ \A a \in Used(m) : a <= last
              /\ last - 1 \in Used(SwapPass(m)) /\ \A a \in Used(SwapPass(m)) : a <= last - 1
<1>1. Cells \subseteq Nat /\ Used(m) \subseteq Cells /\ MEM_SIZE \in Nat
  BY MemoryAssumption DEF Cells, Used
<1>2. PICK hole \in Free(m), high \in Used(m) : hole < high
  BY DEF is_compact, Used, Free
<1>3. PICK z \in Free(m) :
         /\ \A y \in Free(m) : z <= y
         /\ \A a \in Used(m) : /\ a \in Cells /\ a # z /\ Down(z, a) \in Used(SwapPass(m))
                               /\ SwapPass(m)[Down(z, a)] = m[a]
         /\ \A a, c \in Used(m) : a < c <=> Down(z, a) < Down(z, c)
         /\ \A y \in Used(SwapPass(m)) : \E a \in Used(m) : Down(z, a) = y
  BY <1>2, SwapPassMoves
<1>4. PICK last \in Used(m) : \A a \in Used(m) : a <= last
  <2> DEFINE above == {MEM_SIZE - a : a \in Used(m)}
  <2>1. above \in SUBSET Nat /\ above # {}
    BY <1>1, <1>2 DEF Cells
  <2>2. PICK x \in above : \A y \in above : x <= y
    BY <2>1, LeastExists
  <2>3. PICK a \in Used(m) : x = MEM_SIZE - a
    BY <2>2
  <2>4. ASSUME NEW c \in Used(m) PROVE c <= a
    <3>1. MEM_SIZE - a <= MEM_SIZE - c
      BY <2>2, <2>3
    <3>2. a \in Nat /\ c \in Nat /\ MEM_SIZE \in Nat
      BY <1>1
    <3> QED
      BY ONLY <3>1, <3>2
  <2> QED
    BY <2>4
<1>5. last \in Nat /\ high \in Nat /\ hole \in Nat /\ z \in Nat
  BY <1>1 DEF Free
<1>6. z < last
  BY <1>2, <1>3, <1>4, <1>5
<1>7. Down(z, last) = last - 1
  BY <1>5, <1>6 DEF Down
<1>8. last - 1 \in Used(SwapPass(m))
  BY <1>3, <1>7
<1>9. ASSUME NEW y \in Used(SwapPass(m)) PROVE y <= last - 1
  <2>1. PICK a \in Used(m) : Down(z, a) = y
    BY <1>3
  <2>2. a \in Nat /\ a <= last /\ a # z
    BY <1>1, <1>3, <1>4
  <2> QED
    BY <1>5, <1>6, <2>1, <2>2 DEF Down
<1> QED
  BY <1>4, <1>8, <1>9

\* To vacate a process takes all cells of one process, and none of another.
LEMMA VacatedCells ==
    ASSUME NEW m, NEW v, NEW id, id # 0
    PROVE  CellsOf(Vacated(m, v), id) = {} \/ CellsOf(Vacated(m, v), id) = CellsOf(m, id)
BY DEF CellsOf, Vacated

\* Next-fit gives a new process the cells that it asked for.
LEMMA NextFitCount ==
    ASSUME NEW m, NEW id, id # 0, CellsOf(m, id) = {},
           NEW n \in Nat, n <= count_number_of_zeroes(m)
    PROVE  Cardinality(CellsOf(nextFit(m, id, n), id)) = n
<1>1. Free(m) \in SUBSET Cells
  BY DEF Free
<1>2. CellsOf(nextFit(m, id, n), id) = {a \in Free(m) : Rank(Free(m), a) < n}
  BY DEF CellsOf, nextFit, Rank, Free
<1> QED
  BY <1>1, <1>2, FirstOnes DEF count_number_of_zeroes

\* It leaves every other process its cells.
LEMMA NextFitOthers ==
    ASSUME NEW m, NEW id, NEW n, NEW other, other # 0, other # id
    PROVE  CellsOf(nextFit(m, id, n), other) = CellsOf(m, other)
BY DEF CellsOf, nextFit, Free

\* Paging gives a new process all its cells, or takes every free frame there is.
LEMMA PagesCount ==
    ASSUME NEW m, NEW id, id # 0, CellsOf(m, id) = {}, NEW n \in Nat
    PROVE  \/ Cardinality(CellsOf(pages(m, id, n), id)) = Paged(n)
           \/ FreeFrames(pages(m, id, n)) = {}
<1> DEFINE F == FreeFrames(m)
           whole == IF n = 1 THEN 1 ELSE IF n > 1 THEN n \div 2 ELSE 0
           half  == n > 0 /\ n % 2 = 1
           frame(a) == a - (a % 2)
           rank(f) == Rank(F, f)
           p == pages(m, id, n)
<1>1. MEM_SIZE \in Nat /\ F \in SUBSET Cells /\ Cardinality(F) \in Nat
  BY CellsFinite, MemoryAssumption DEF FreeFrames
<1>2. whole \in Nat /\ Paged(n) = IF half THEN 2 * whole + 1 ELSE 2 * whole
  BY DEF Paged
<1>3. \A f \in F : /\ f \in Cells /\ f + 1 \in Cells /\ f % 2 = 0 /\ m[f] = 0
                   /\ frame(f) = f /\ frame(f + 1) = f /\ (f + 1) % 2 = 1
  <2>1. \A f \in F : f \in Cells /\ f % 2 = 0 /\ f < MEM_SIZE - 1 /\ m[f] = 0
    BY DEF FreeFrames
  <2> QED
    BY <2>1, FrameOf
<1>4. \A a \in Cells : p[a] =
        IF frame(a) \notin F THEN m[a] ELSE IF rank(frame(a)) < whole THEN id
        ELSE IF half /\ rank(frame(a)) = whole THEN (IF a % 2 = 0 THEN id ELSE 0)
        ELSE m[a]
  BY DEF pages, Rank
<1>5. \A f \in F : rank(f) \in 0 .. Cardinality(F) - 1
  BY <1>1, Ranks
<1>6. \A f, g \in F : rank(f) = rank(g) => f = g
  BY <1>1, Ranks
<1>7. \A k \in 0 .. Cardinality(F) - 1 : \E f \in F : rank(f) = k
  BY <1>1, Ranks
<1>8. \A f \in Cells : f \in FreeFrames(p) <=> f % 2 = 0 /\ f < MEM_SIZE - 1 /\ p[f] = 0
  BY DEF FreeFrames
<1>9. \A f \in Cells : f \in F <=> f % 2 = 0 /\ f < MEM_SIZE - 1 /\ m[f] = 0
  BY DEF FreeFrames
<1>10. \A a \in Cells : m[a] # id
  BY DEF CellsOf
<1>11. \A a \in Cells : a \in Int /\ a % 2 \in {0, 1} /\ a = frame(a) + (a % 2)
  BY <1>1 DEF Cells
<1>12. FreeFrames(p) \subseteq Cells
  BY DEF FreeFrames
<1> HIDE DEF F, p, whole, rank
<1>13. CASE \A f \in F : rank(f) < whole \/ (half /\ rank(f) = whole)
  <2>1. SUFFICES ASSUME NEW f \in FreeFrames(p) PROVE FALSE
    BY DEF p
  <2>2. f \in Cells /\ f % 2 = 0 /\ f < MEM_SIZE - 1 /\ p[f] = 0
    BY <1>8, <1>12
  <2>3. CASE f \in F
    <3>1. frame(f) = f /\ (rank(f) < whole \/ (half /\ rank(f) = whole))
      BY <1>3, <1>13, <2>3
    <3>2. p[f] = id
      BY <1>4, <2>2, <2>3, <3>1
    <3> QED
      BY <2>2, <3>2
  <2>4. CASE f \notin F
    <3>1. m[f] # 0 /\ frame(f) = f
      BY <1>9, <1>11, <2>2, <2>4
    <3>2. p[f] = m[f]
      BY <1>4, <2>2, <2>4, <3>1
    <3> QED
      BY <2>2, <3>1, <3>2
  <2> QED
    BY <2>3, <2>4
<1>14. CASE ~ \A f \in F : rank(f) < whole \/ (half /\ rank(f) = whole)
  <2> DEFINE S == CellsOf(p, id)
             T == 0 .. Paged(n) - 1
             number == [a \in S |-> 2 * rank(frame(a)) + (a % 2)]
  <2>1. /\ whole <= Cardinality(F) - 1
        /\ half => whole + 1 <= Cardinality(F) - 1
    <3>1. PICK f \in F : ~ (rank(f) < whole \/ (half /\ rank(f) = whole))
      BY <1>14
    <3>2. rank(f) \in 0 .. Cardinality(F) - 1
      BY <1>5
    <3> QED
      BY <1>1, <1>2, <3>1, <3>2
  <2>2. \A a \in S : /\ a \in Cells /\ frame(a) \in F /\ rank(frame(a)) \in Nat
                     /\ \/ rank(frame(a)) < whole
                        \/ half /\ rank(frame(a)) = whole /\ a % 2 = 0
    <3>1. SUFFICES ASSUME NEW a \in S
                   PROVE  /\ a \in Cells /\ frame(a) \in F /\ rank(frame(a)) \in Nat
                          /\ \/ rank(frame(a)) < whole
                             \/ half /\ rank(frame(a)) = whole /\ a % 2 = 0
      OBVIOUS
    <3>2. a \in Cells /\ p[a] = id /\ m[a] # id
      BY <1>10 DEF CellsOf
    <3>3. /\ frame(a) \in F
          /\ \/ rank(frame(a)) < whole
             \/ half /\ rank(frame(a)) = whole /\ a % 2 = 0
      <4> HIDE DEF frame, half
      <4> QED
        BY <1>4, <3>2
    <3>4. rank(frame(a)) \in Nat
      BY <1>1, <1>5, <3>3
    <3> QED
      BY <3>2, <3>3, <3>4
  <2>3. \A a \in Cells : (/\ frame(a) \in F
                          /\ \/ rank(frame(a)) < whole
                             \/ half /\ rank(frame(a)) = whole /\ a % 2 = 0) => a \in S
    <3> HIDE DEF frame, half
    <3> QED
      BY <1>2, <1>4 DEF CellsOf
  <2>4. ASSUME NEW a \in S PROVE number[a] \in T
    <3>1. /\ a % 2 \in {0, 1} /\ rank(frame(a)) \in Nat
          /\ \/ rank(frame(a)) < whole
             \/ half /\ rank(frame(a)) = whole /\ a % 2 = 0
      BY <1>11, <2>2
    <3>2. number[a] = 2 * rank(frame(a)) + (a % 2)
      OBVIOUS
    <3> HIDE DEF number, frame, half
    <3> QED
      BY <1>2, <3>1, <3>2
  <2>5. ASSUME NEW x \in S, NEW y \in S, number[x] = number[y] PROVE x = y
    <3>1. /\ x % 2 \in {0, 1} /\ rank(frame(x)) \in Nat /\ y % 2 \in {0, 1} /\ rank(frame(y)) \in Nat
          /\ 2 * rank(frame(x)) + (x % 2) = 2 * rank(frame(y)) + (y % 2)
      BY <1>11, <2>2, <2>5
    <3>2. rank(frame(x)) = rank(frame(y)) /\ x % 2 = y % 2
      <4> HIDE DEF frame
      <4> QED
        BY <3>1
    <3>3. frame(x) = frame(y)
      BY <1>6, <2>2, <3>2
    <3> QED
      BY <1>11, <2>2, <3>2, <3>3
  <2>6. ASSUME NEW y \in T PROVE \E x \in S : number[x] = y
    <3> DEFINE k == y \div 2
    <3>1. /\ y \in Nat /\ y = 2 * k + (y % 2) /\ y % 2 \in {0, 1} /\ k \in Nat
          /\ k < whole \/ (half /\ k = whole /\ y % 2 = 0)
      BY <1>2
    <3> HIDE DEF k
    <3>2. PICK f \in F : rank(f) = k
      BY <1>1, <1>2, <1>7, <2>1, <3>1
    <3>3. f + (y % 2) \in Cells /\ frame(f + (y % 2)) = f /\ (f + (y % 2)) % 2 = y % 2
      BY <1>3, <1>11, <3>1
    <3>4. f + (y % 2) \in S
      BY <2>3, <3>1, <3>2, <3>3
    <3>5. number[f + (y % 2)] = 2 * k + (y % 2)
      BY <3>2, <3>3, <3>4
    <3> QED
      BY <3>1, <3>4, <3>5
  <2>7. number \in [S -> T]
    BY <2>4
  <2>8. IsFiniteSet(S)
    BY CellsFinite DEF CellsOf
  <2>9. Cardinality(T) = Cardinality(S)
    <3> HIDE DEF S, T, number
    <3> QED
      BY <2>5, <2>6, <2>7, <2>8, SameNumber
  <2>10. Cardinality(T) = Paged(n)
    <3>1. Paged(n) \in Nat
      BY <1>2
    <3> QED
      BY <3>1, FS_Interval
  <2> QED
    BY <2>9, <2>10 DEF p
<1> QED
  BY <1>13, <1>14 DEF p

-----------------------------------------------------------------------------
(***************************************************************************)
(* The inductive invariant                                                 *)
(***************************************************************************)
LEMMA InitIndInv == Init => IndInv
<1> SUFFICES ASSUME Init PROVE IndInv
  OBVIOUS
<1>1. requests = <<>> /\ requestID = 0 /\ pc = "read"
  BY DEF Init, requestID
<1>2. \A a \in Cells : memory[a] = 0
  BY DEF Init
<1>3. memory \in [Cells -> 0 .. requestID] /\ TypeOK
  BY <1>1, MemoryAssumption DEF Init, TypeOK
<1>4. FramesUnshared
  BY <1>2, FrameOf DEF FramesUnshared
<1>5. WholeProcesses /\ CutShortWhenFull
  BY <1>1 DEF WholeProcesses, CutShortWhenFull
<1> QED
  BY <1>1, <1>3, <1>4, <1>5 DEF IndInv, PagingNeverCompacts, RequestFits, Fresh, InBounds

\* The current request is one of the sizes, and its identifier is positive.
LEMMA CurrentRequest ==
    ASSUME TypeOK
    PROVE  /\ requestID \in Nat
           /\ pc \in {"compact", "evict", "place"} => requestID > 0 /\ size \in Nat
<1>1. requestID \in Nat
  BY DEF TypeOK, requestID
<1>2. requests # <<>> => requestID > 0 /\ requests[requestID] \in Sizes
  BY <1>1 DEF TypeOK, requestID
<1> QED
  BY <1>1, <1>2, MemoryAssumption DEF TypeOK, size

\* Steps that leave the requests alone.
LEMMA SameRequest ==
    ASSUME requests' = requests
    PROVE  requestID' = requestID /\ size' = size
BY DEF requestID, size

LEMMA RequestStep ==
    ASSUME IndInv, NEW n \in Sizes, Request(n)
    PROVE  IndInv'
<1>1. TypeOK /\ requestID \in Nat
  BY CurrentRequest DEF IndInv
<1>2. /\ requests' = Append(requests, n) /\ requests \in Seq(Sizes)
      /\ policy' = policy /\ memory' = memory /\ processesVacated' = processesVacated
  BY <1>1 DEF Request, TypeOK
<1>3. requests' \in Seq(Sizes) /\ requests' # <<>> /\ requestID' = requestID + 1 /\ size' = n
  BY <1>2 DEF requestID, size
<1>4. compactionEvents' \in 0 .. requestID' /\ pc' \in {"compact", "place", "evict"}
  BY <1>1, <1>3 DEF Request, TypeOK
<1>5. memory' \in [Cells -> 0 .. requestID']
  <2>1. 0 .. requestID \subseteq 0 .. requestID'
    BY <1>1, <1>3
  <2> QED
    BY <1>1, <1>2, <2>1 DEF TypeOK
<1>6. TypeOK'
  BY <1>1, <1>2, <1>3, <1>4, <1>5 DEF TypeOK
<1>7. pc' \in {"compact", "place"} => Fragmented(memory, n)
  BY DEF Request
<1>8. RequestFits'
  BY <1>2, <1>3, <1>7 DEF RequestFits, Fragmented
<1>9. PagingNeverCompacts'
  BY <1>2, <1>7 DEF PagingNeverCompacts, paging, Fragmented
<1>10. FramesUnshared' /\ InBounds'
  BY <1>2, <1>4 DEF IndInv, FramesUnshared, InBounds
<1>11. Fresh'
  <2>1. \A a \in Cells : memory[a] # requestID + 1
    BY <1>1 DEF TypeOK
  <2> QED
    BY <1>2, <1>3, <2>1 DEF Fresh, CellsOf
<1>12. WholeProcesses'
  <2>1. ASSUME NEW id \in 1 .. requestID, policy = "nf"
        PROVE  \/ Cardinality(CellsOf(memory', id)) = requests'[id]
               \/ Cardinality(CellsOf(memory', id)) = 0
    <3>1. pc = "read" /\ requests'[id] = requests[id]
      BY <1>2 DEF Request, requestID
    <3> QED
      BY <1>2, <2>1, <3>1 DEF IndInv, WholeProcesses
  <2>2. /\ pc' \notin {"read", "written"} /\ policy' = policy
        /\ \A id \in 1 .. requestID' : id < requestID' <=> id \in 1 .. requestID
        /\ ~ (requestID' < requestID')
    BY <1>1, <1>2, <1>3, <1>4
  <2> QED
    BY <2>1, <2>2 DEF WholeProcesses
<1>13. CutShortWhenFull'
  BY <1>2, <1>4 DEF CutShortWhenFull
<1> QED
  BY <1>6, <1>8, <1>9, <1>10, <1>11, <1>12, <1>13 DEF IndInv

LEMMA CompactionStep ==
    ASSUME IndInv, CompactionPass \/ CompactionDone
    PROVE  IndInv'
<1>1. /\ TypeOK /\ requestID' = requestID /\ size' = size /\ requestID \in Nat
      /\ policy' = policy /\ policy # "pages" /\ pc = "compact" /\ pc' \in {"compact", "place"}
      /\ UNCHANGED <<requests, processesVacated, compactionEvents>>
  BY CurrentRequest, SameRequest
     DEF IndInv, CompactionPass, CompactionDone, PagingNeverCompacts, paging
<1>2. memory' \in [Cells -> 0 .. requestID]
  BY <1>1, SwapPassType DEF TypeOK, CompactionPass, CompactionDone, Memories
<1>3. TypeOK'
  BY <1>1, <1>2 DEF TypeOK
<1>4. \A id : Cardinality(CellsOf(memory', id)) = Cardinality(CellsOf(memory, id))
  BY <1>1, SwapPassCount DEF TypeOK, Memories, CompactionPass, CompactionDone
<1>5. RequestFits'
  <2>1. Free(memory) = CellsOf(memory, 0) /\ Free(memory') = CellsOf(memory', 0)
    BY DEF Free, CellsOf
  <2> QED
    BY <1>1, <1>4, <2>1 DEF IndInv, RequestFits, count_number_of_zeroes
<1>6. Fresh'
  <2>1. IsFiniteSet(CellsOf(memory, requestID)) /\ IsFiniteSet(CellsOf(memory', requestID))
    BY CellsFinite DEF CellsOf
  <2> QED
    BY <1>1, <1>4, <2>1, FS_EmptySet DEF IndInv, Fresh
<1>7. WholeProcesses'
  BY <1>1, <1>4 DEF IndInv, WholeProcesses
<1> QED
  BY <1>1, <1>3, <1>5, <1>6, <1>7
     DEF IndInv, PagingNeverCompacts, paging, CutShortWhenFull, FramesUnshared, InBounds

LEMMA EvictionStep ==
    ASSUME IndInv, Vacate \/ EnoughZeroes
    PROVE  IndInv'
<1>1. /\ TypeOK /\ requestID' = requestID /\ size' = size /\ requestID \in Nat
      /\ policy' = policy /\ pc = "evict" /\ pc' \in {"evict", "place"}
      /\ UNCHANGED <<requests, compactionEvents>>
  BY CurrentRequest, SameRequest DEF IndInv, Vacate, EnoughZeroes
<1>2. memory' = memory \/ \E id : memory' = Vacated(memory, id)
  BY DEF Vacate, EnoughZeroes
<1>3. TypeOK'
  <2>1. memory' \in [Cells -> 0 .. requestID]
    BY <1>1, <1>2, VacatedType DEF TypeOK, Memories
  <2>2. processesVacated' \in 0 .. MaxVacated
    BY <1>1, MemoryAssumption DEF TypeOK, Vacate, EnoughZeroes
  <2> QED
    BY <1>1, <2>1, <2>2 DEF TypeOK
<1>4. FramesUnshared'
  BY <1>1, <1>2, VacatedUnshared DEF IndInv, FramesUnshared, Unshared
<1>5. RequestFits'
  BY <1>1 DEF RequestFits, Vacate, EnoughZeroes
<1>6. ASSUME NEW id, id # 0
      PROVE  CellsOf(memory', id) = {} \/ CellsOf(memory', id) = CellsOf(memory, id)
  BY <1>2, <1>6, VacatedCells
<1>7. Fresh'
  <2>1. requestID # 0 /\ CellsOf(memory, requestID) = {}
    BY <1>1, CurrentRequest DEF IndInv, Fresh
  <2> QED
    BY <1>1, <1>6, <2>1 DEF Fresh
<1>8. WholeProcesses'
  <2> SUFFICES ASSUME NEW id \in 1 .. requestID, policy = "nf", id < requestID
               PROVE  LET held == Cardinality(CellsOf(memory', id))
                      IN  held = requests[id] \/ held = 0
    BY <1>1 DEF WholeProcesses
  <2>1. CellsOf(memory', id) = {} \/ CellsOf(memory', id) = CellsOf(memory, id)
    BY <1>1, <1>6
  <2> QED
    BY <2>1, FS_EmptySet DEF IndInv, WholeProcesses
<1> QED
  BY <1>1, <1>3, <1>4, <1>5, <1>7, <1>8 DEF IndInv, PagingNeverCompacts, CutShortWhenFull, InBounds

LEMMA PlaceStep ==
    ASSUME IndInv, Place
    PROVE  IndInv'
<1>1. /\ TypeOK /\ requestID' = requestID /\ size' = size /\ requestID \in Nat
      /\ size \in Nat /\ size <= count_number_of_zeroes(memory) /\ policy' = policy
      /\ requestID # 0 /\ CellsOf(memory, requestID) = {}
      /\ pc' = IF Overruns(memory, size) THEN "overrun" ELSE "read"
      /\ memory' = Placed(memory, requestID, size)
      /\ UNCHANGED <<requests, processesVacated, compactionEvents>>
  BY CurrentRequest, SameRequest DEF IndInv, Place, RequestFits, Fresh
<1>2. TypeOK'
  <2>1. memory' \in [Cells -> 0 .. requestID]
    BY <1>1, PlacedType DEF TypeOK, Memories
  <2> QED
    BY <1>1, <2>1 DEF TypeOK
<1>3. FramesUnshared'
  BY <1>1, PagesUnshared DEF IndInv, FramesUnshared, Unshared, Placed
<1>4. InBounds'
  <2>1. MEM_SIZE \in Nat /\ size <= MEM_SIZE
    BY <1>1, ZeroesBound, MemoryAssumption
  <2>2. CASE policy = "ff"
    <3>1. Index(memory, size) = firstFit(memory, size)
      BY <2>2 DEF Index
    <3>2. ~ Overruns(memory, size)
      BY <1>1, <2>1, <3>1, FirstFitBound DEF Overruns, Cells
    <3> QED
      BY <1>1, <3>2 DEF InBounds
  <2>3. CASE policy = "bf"
    <3>1. Index(memory, size) = find_tightest_space(memory, size)
      BY <2>3 DEF Index
    <3>2. ~ Overruns(memory, size)
      BY <1>1, <2>1, <3>1, TightestBound DEF Overruns, Cells
    <3> QED
      BY <1>1, <3>2 DEF InBounds
  <2>4. CASE policy \notin {"ff", "bf"}
    BY <1>1, <2>4 DEF InBounds, Overruns
  <2> QED
    BY <2>2, <2>3, <2>4
<1>5. WholeProcesses'
  <2>1. CASE policy = "nf"
    <3>1. memory' = nextFit(memory, requestID, size)
      BY <1>1, <2>1 DEF Placed
    <3>2. Cardinality(CellsOf(memory', requestID)) = requests[requestID]
      BY <1>1, <3>1, NextFitCount DEF size
    <3>3. ASSUME NEW id \in 1 .. requestID, id < requestID
          PROVE  LET held == Cardinality(CellsOf(memory', id)) IN held = requests[id] \/ held = 0
      <4>1. CellsOf(memory', id) = CellsOf(memory, id)
        BY <1>1, <3>1, <3>3, NextFitOthers
      <4> QED
        BY <2>1, <3>3, <4>1 DEF IndInv, WholeProcesses
    <3>4. \A id \in 1 .. requestID : id < requestID \/ id = requestID
      BY <1>1
    <3> QED
      BY <1>1, <2>1, <3>2, <3>3, <3>4 DEF WholeProcesses
  <2>2. CASE policy # "nf"
    BY <1>1, <2>2 DEF WholeProcesses
  <2> QED
    BY <2>1, <2>2
<1>6. CutShortWhenFull'
  <2>1. CASE policy = "pages"
    <3>1. memory' = pages(memory, requestID, size)
      BY <1>1, <2>1 DEF Placed
    <3>2. Cardinality(CellsOf(memory', requestID)) = Paged(size) \/ FreeFrames(memory') = {}
      BY <1>1, <3>1, PagesCount
    <3> QED
      BY <1>1, <3>2 DEF CutShortWhenFull
  <2>2. CASE policy # "pages"
    BY <1>1, <2>2 DEF CutShortWhenFull, paging
  <2> QED
    BY <2>1, <2>2
<1> QED
  BY <1>1, <1>2, <1>3, <1>4, <1>5, <1>6 DEF IndInv, PagingNeverCompacts, RequestFits, Fresh

\* One step per disjunct of Next.
LEMMA NextIndInv == IndInv /\ [Next]_vars => IndInv'
<1> SUFFICES ASSUME IndInv, [Next]_vars PROVE IndInv'
  OBVIOUS
<1>1. ASSUME NEW n \in Sizes, Request(n) PROVE IndInv'
  BY <1>1, RequestStep
<1>2. CASE allocate
  BY <1>2, CompactionStep, EvictionStep, PlaceStep DEF allocate
<1>3. CASE EndOfInput
  BY <1>3, SameRequest
     DEF EndOfInput, IndInv, TypeOK, PagingNeverCompacts, paging, RequestFits, Fresh,
         WholeProcesses, CutShortWhenFull, FramesUnshared, InBounds
<1>4. CASE UNCHANGED vars
  BY <1>4, SameRequest
     DEF vars, IndInv, TypeOK, PagingNeverCompacts, paging, RequestFits, Fresh,
         WholeProcesses, CutShortWhenFull, FramesUnshared, InBounds
<1> QED
  BY <1>1, <1>2, <1>3, <1>4 DEF Next

-----------------------------------------------------------------------------
(***************************************************************************)
(* The theorems                                                            *)
(***************************************************************************)
\* The inductive invariant holds in every state.
THEOREM Invariance == Spec => []IndInv
BY InitIndInv, NextIndInv, PTL DEF Spec

\* Every variable keeps its type: memory holds identifiers of requests read so far.
THEOREM TypeCorrectness == Spec => []TypeOK
<1>1. IndInv => TypeOK
  BY DEF IndInv
<1> QED
  BY <1>1, Invariance, PTL

\* Under paging no frame is shared by two processes.
THEOREM FramesStayWhole == Spec => []FramesUnshared
<1>1. IndInv => FramesUnshared
  BY DEF IndInv
<1> QED
  BY <1>1, Invariance, PTL

\* Next-fit gives each process as many cells as it asked for, and compaction,
\* eviction and later requests never take some of them only.
THEOREM ProcessesStayWhole == Spec => []WholeProcesses
<1>1. IndInv => WholeProcesses
  BY DEF IndInv
<1> QED
  BY <1>1, Invariance, PTL

\* Paging cuts a request short only when no free frame is left: then it does so
\* instead of vacating a process.
THEOREM ShortOnlyWhenFull == Spec => []CutShortWhenFull
<1>1. IndInv => CutShortWhenFull
  BY DEF IndInv
<1> QED
  BY <1>1, Invariance, PTL

\* First-fit, next-fit, best-fit and paging write inside memory.
THEOREM Bounds == Spec => []InBounds
<1>1. IndInv => InBounds
  BY DEF IndInv
<1> QED
  BY <1>1, Invariance, PTL

\* Next-fit and paging write to free cells only.
THEOREM NothingOverwritten == Spec => ReservedKept
<1> DEFINE Keeps == pc = "place" /\ policy \in {"nf", "pages"} =>
                      \A a \in Cells : memory[a] # 0 => memory'[a] = memory[a]
<1>1. IndInv /\ [Next]_vars => [Keeps]_vars
  <2> SUFFICES ASSUME IndInv, Next, pc = "place", policy \in {"nf", "pages"},
                      NEW a \in Cells, memory[a] # 0
               PROVE  memory'[a] = memory[a]
    OBVIOUS
  <2>1. Place
    BY DEF Next, Request, allocate, CompactionPass, CompactionDone, Vacate, EnoughZeroes, EndOfInput
  <2>2. CASE policy = "nf"
    BY <2>1, <2>2 DEF Place, Placed, nextFit, Free
  <2>3. CASE policy = "pages"
    BY <2>1, <2>3, PagesKeep DEF Place, Placed, IndInv, FramesUnshared, Unshared
  <2> QED
    BY <2>2, <2>3
<1> QED
  BY <1>1, Invariance, PTL DEF Spec, ReservedKept

\* Compaction never loses, duplicates or reorders a cell of a process, nor gives it
\* to another one.
THEOREM ContentsKept == Spec => CompactionKeepsContents
<1> DEFINE Keeps == pc = "compact" => Contents(memory') = Contents(memory)
<1>1. IndInv /\ [Next]_vars => [Keeps]_vars
  <2> SUFFICES ASSUME IndInv, Next, pc = "compact" PROVE Contents(memory') = Contents(memory)
    BY DEF vars
  <2>1. requestID \in Nat /\ memory \in Memories(requestID)
    BY CurrentRequest DEF IndInv, TypeOK, Memories
  <2>2. memory' = SwapPass(memory) \/ memory' = memory
    BY DEF Next, Request, allocate, CompactionPass, CompactionDone, Vacate, EnoughZeroes, Place,
           EndOfInput, vars
  <2> QED
    BY <2>1, <2>2, SwapPassContents
<1> QED
  BY <1>1, Invariance, PTL DEF Spec, CompactionKeepsContents

\* Each pass of the compaction loop moves the last cell in use down by one, so that
\* there are no more passes than cells.
THEOREM Shrinks == Spec => CompactionShrinks
<1> DEFINE Shorter ==
        pc = "compact" /\ pc' = "compact" =>
            \E last \in Used(memory) :
                /\ \A a \in Used(memory) : a <= last
                /\ last - 1 \in Used(memory') /\ \A a \in Used(memory') : a <= last - 1
<1>1. IndInv /\ [Next]_vars => [Shorter]_vars
  <2> SUFFICES ASSUME IndInv, Next, pc = "compact", pc' = "compact", vars' # vars PROVE Shorter
    OBVIOUS
  <2>1. requestID \in Nat /\ memory \in Memories(requestID)
    BY CurrentRequest DEF IndInv, TypeOK, Memories
  <2>2. memory' = SwapPass(memory) /\ ~ is_compact(memory)
    BY DEF Next, Request, allocate, CompactionPass, CompactionDone, Vacate, EnoughZeroes, Place,
           EndOfInput
  <2> QED
    BY <2>1, <2>2, SwapPassShrinks
<1> QED
  BY <1>1, Invariance, PTL DEF Spec, CompactionShrinks
=============================================================================
