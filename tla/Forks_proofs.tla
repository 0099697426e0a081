----------------------------- MODULE Forks_proofs -----------------------------
(***************************************************************************)
(* Safety of Forks, for any MAX and NUM_CHILDREN: what the factorial       *)
(* program prints, and which lines the programs that loop write.           *)
(***************************************************************************)
EXTENDS Forks, FiniteSetTheorems, FunctionTheorems, NaturalsInduction, WellFoundedInduction, TLAPS

-----------------------------------------------------------------------------
(***************************************************************************)
(* The factorial function                                                  *)
(***************************************************************************)
\* A nonempty set of natural numbers has a least element.
LEMMA LeastExists ==
    ASSUME NEW S \in SUBSET Nat, S # {}
    PROVE  \E k \in S : \A m \in S : k <= m
<1>1. PICK k \in S : \A m \in S : ~ (<<m, k>> \in OpToRel(<, Nat))
  BY NatLessThanWellFounded, WFMin, Zenon
<1>2. \A m \in S : ~ (m < k)
  BY <1>1 DEF OpToRel
<1>3. \A m \in S : k <= m
  BY <1>2
<1> QED
  BY <1>3

\* The beginnings of the factorial function.
Beginnings(k) ==
    {g \in [0 .. k -> Nat] : \A m \in 0 .. k : g[m] = IF m = 0 THEN 1 ELSE m * g[m - 1]}

LEMMA BeginningExists == \A k \in Nat : Beginnings(k) # {}
<1> SUFFICES ASSUME NEW j \in Nat, Beginnings(j) = {} PROVE FALSE
  OBVIOUS
<1> DEFINE Failing == {k \in Nat : Beginnings(k) = {}}
<1>1. PICK k \in Failing : \A m \in Failing : k <= m
  <2>1. Failing \in SUBSET Nat /\ Failing # {}
    OBVIOUS
  <2> QED
    BY <2>1, LeastExists
<1>2. CASE k = 0
  <2> DEFINE g == [m \in 0 .. 0 |-> 1]
  <2>1. g \in Beginnings(0)
    BY DEF Beginnings
  <2> QED
    BY <1>1, <1>2, <2>1
<1>3. CASE k # 0
  <2>1. k - 1 \in Nat /\ k - 1 \notin Failing
    BY <1>1, <1>3
  <2>2. PICK g \in Beginnings(k - 1) : TRUE
    BY <2>1
  <2> DEFINE h == [m \in 0 .. k |-> IF m = k THEN k * g[k - 1] ELSE g[m]]
  <2>3. /\ g \in [0 .. k - 1 -> Nat]
        /\ \A m \in 0 .. k - 1 : g[m] = IF m = 0 THEN 1 ELSE m * g[m - 1]
    BY <2>2 DEF Beginnings
  <2>4. h \in [0 .. k -> Nat]
    <3>1. k \in Nat /\ g[k - 1] \in Nat
      BY <1>1, <2>1, <2>3
    <3>2. k * g[k - 1] \in Nat
      BY <3>1
    <3> QED
      BY <2>3, <3>1, <3>2
  <2>5. \A m \in 0 .. k : h[m] = IF m = 0 THEN 1 ELSE m * h[m - 1]
    <3> SUFFICES ASSUME NEW m \in 0 .. k PROVE h[m] = IF m = 0 THEN 1 ELSE m * h[m - 1]
      OBVIOUS
    <3>1. CASE m = k
      BY <1>1, <1>3, <3>1
    <3>2. CASE m # k
      BY <1>1, <2>3, <3>2
    <3> QED
      BY <3>1, <3>2
  <2> HIDE DEF h
  <2>6. h \in Beginnings(k)
    BY <2>4, <2>5 DEF Beginnings
  <2> QED
    BY <1>1, <2>6
<1> QED
  BY <1>2, <1>3

\* They agree where two of them are defined.
LEMMA BeginningsAgree ==
    ASSUME NEW j \in Nat, NEW k \in Nat, NEW g \in Beginnings(j), NEW h \in Beginnings(k)
    PROVE  \A m \in Nat : m <= j /\ m <= k => g[m] = h[m]
<1> SUFFICES ASSUME NEW l \in Nat, l <= j, l <= k, g[l] # h[l] PROVE FALSE
  OBVIOUS
<1> DEFINE Differing == {m \in Nat : m <= j /\ m <= k /\ g[m] # h[m]}
<1>1. PICK m \in Differing : \A d \in Differing : m <= d
  <2>1. Differing \in SUBSET Nat /\ Differing # {}
    OBVIOUS
  <2> QED
    BY <2>1, LeastExists
<1>2. /\ g[m] = IF m = 0 THEN 1 ELSE m * g[m - 1]
      /\ h[m] = IF m = 0 THEN 1 ELSE m * h[m - 1]
  BY <1>1 DEF Beginnings
<1>3. m # 0 /\ m - 1 \in Nat /\ m - 1 \notin Differing
  BY <1>1, <1>2
<1>4. g[m - 1] = h[m - 1]
  BY <1>1, <1>3
<1> QED
  BY <1>1, <1>2, <1>3, <1>4

\* So the recursive definition has a solution.
LEMMA FactorialValue ==
    /\ factorial \in [Nat -> Nat]
    /\ factorial[0] = 1
    /\ \A m \in Nat \ {0} : factorial[m] = m * factorial[m - 1]
<1> DEFINE first(k) == CHOOSE g \in Beginnings(k) : TRUE
           f == [m \in Nat |-> first(m)[m]]
<1>1. \A k \in Nat : first(k) \in Beginnings(k)
  BY BeginningExists
<1> HIDE DEF first
<1>2. \A m \in Nat : f[m] \in Nat
  <2> SUFFICES ASSUME NEW m \in Nat PROVE first(m)[m] \in Nat
    OBVIOUS
  <2>1. first(m) \in [0 .. m -> Nat]
    BY <1>1 DEF Beginnings
  <2> QED
    BY <2>1
<1>3. \A m \in Nat : f[m] = IF m = 0 THEN 1 ELSE m * f[m - 1]
  <2> SUFFICES ASSUME NEW m \in Nat PROVE f[m] = IF m = 0 THEN 1 ELSE m * f[m - 1]
    OBVIOUS
  <2>1. first(m)[m] = IF m = 0 THEN 1 ELSE m * first(m)[m - 1]
    <3>1. first(m) \in Beginnings(m) /\ m \in 0 .. m
      BY <1>1
    <3> QED
      BY <3>1 DEF Beginnings
  <2>2. CASE m = 0
    BY <2>1, <2>2
  <2>3. CASE m # 0
    <3>1. m - 1 \in Nat /\ m - 1 <= m
      BY <2>3
    <3>2. first(m)[m - 1] = first(m - 1)[m - 1]
      BY <1>1, <3>1, BeginningsAgree
    <3> QED
      BY <2>1, <2>3, <3>1, <3>2
  <2> QED
    BY <2>2, <2>3
<1> HIDE DEF f
<1>4. f = [m \in Nat |-> IF m = 0 THEN 1 ELSE m * f[m - 1]]
  <2>1. f = [m \in Nat |-> f[m]]
    BY DEF f
  <2> QED
    BY <1>3, <2>1
<1>5. factorial = [m \in Nat |-> IF m = 0 THEN 1 ELSE m * factorial[m - 1]]
  BY <1>4 DEF factorial
<1>6. \A m \in Nat : factorial[m] = f[m]
  <2> SUFFICES ASSUME NEW l \in Nat, factorial[l] # f[l] PROVE FALSE
    OBVIOUS
  <2> DEFINE Differing == {m \in Nat : factorial[m] # f[m]}
  <2>1. PICK m \in Differing : \A d \in Differing : m <= d
    <3>1. Differing \in SUBSET Nat /\ Differing # {}
      OBVIOUS
    <3> QED
      BY <3>1, LeastExists
  <2>2. /\ f[m] = IF m = 0 THEN 1 ELSE m * f[m - 1]
        /\ factorial[m] = IF m = 0 THEN 1 ELSE m * factorial[m - 1]
    BY <1>3, <1>5, <2>1
  <2>3. m # 0 /\ m - 1 \in Nat /\ m - 1 \notin Differing
    BY <2>1, <2>2
  <2> QED
    BY <2>1, <2>2, <2>3
<1>7. factorial \in [Nat -> Nat]
  BY <1>2, <1>5, <1>6
<1> QED
  BY <1>5, <1>7

\* A factorial is positive.
LEMMA FactorialPositive == \A m \in Nat : factorial[m] > 0
<1> SUFFICES ASSUME NEW l \in Nat, ~ factorial[l] > 0 PROVE FALSE
  OBVIOUS
<1> DEFINE Failing == {m \in Nat : ~ factorial[m] > 0}
<1>1. PICK m \in Failing : \A d \in Failing : m <= d
  <2>1. Failing \in SUBSET Nat /\ Failing # {}
    OBVIOUS
  <2> QED
    BY <2>1, LeastExists
<1>2. m # 0 /\ m - 1 \in Nat /\ m - 1 \notin Failing
  BY <1>1, FactorialValue
<1>3. factorial[m - 1] \in Nat /\ factorial[m - 1] > 0 /\ factorial[m] = m * factorial[m - 1]
  BY <1>1, <1>2, FactorialValue
<1> QED
  BY <1>1, <1>2, <1>3

\* A product by a positive factor is divided by it.
LEMMA Quotient ==
    ASSUME NEW f \in Nat, f > 0, NEW q \in Nat
    PROVE  (f * q) \div f = q
OBVIOUS

\* A factorial is a multiple of every smaller one.
LEMMA FactorialMultiple ==
    ASSUME NEW low \in Nat
    PROVE  \A m \in Nat : low <= m => \E q \in Nat : factorial[m] = factorial[low] * q
<1> DEFINE Multiple(m) == \E q \in Nat : factorial[m] = factorial[low] * q
           Failing == {m \in Nat : low <= m /\ ~ Multiple(m)}
<1> SUFFICES ASSUME Failing # {} PROVE FALSE
  OBVIOUS
<1>1. PICK m \in Failing : \A d \in Failing : m <= d
  <2>1. Failing \in SUBSET Nat
    OBVIOUS
  <2> QED
    BY <2>1, LeastExists
<1>2. m # low
  <2>1. factorial[low] = factorial[low] * 1
    BY FactorialValue
  <2> QED
    BY <1>1, <2>1
<1>3. m - 1 \in Nat /\ m # 0 /\ Multiple(m - 1)
  <2>1. m - 1 \in Nat /\ low <= m - 1 /\ m - 1 \notin Failing /\ m # 0
    BY <1>1, <1>2
  <2> QED
    BY <2>1
<1>4. PICK q \in Nat : factorial[m - 1] = factorial[low] * q
  BY <1>3
<1>5. m * q \in Nat /\ factorial[m] = factorial[low] * (m * q)
  <2>1. factorial[m] = m * factorial[m - 1] /\ factorial[low] \in Nat /\ m \in Nat
    BY <1>1, <1>3, FactorialValue
  <2> QED
    BY <1>4, <2>1
<1> QED
  BY <1>1, <1>5

\* The next factorial is divided factor by factor.
LEMMA FactorialQuotient ==
    ASSUME NEW low \in Nat, NEW m \in Nat, low < m
    PROVE  /\ factorial[m - 1] \div factorial[low] \in Nat
           /\ factorial[m] \div factorial[low] = (factorial[m - 1] \div factorial[low]) * m
<1>1. m - 1 \in Nat /\ low <= m - 1 /\ m # 0
  OBVIOUS
<1>2. PICK q \in Nat : factorial[m - 1] = factorial[low] * q
  BY <1>1, FactorialMultiple
<1>3. factorial[low] \in Nat /\ factorial[low] > 0 /\ factorial[m] = m * factorial[m - 1]
  BY <1>1, FactorialValue, FactorialPositive
<1>4. factorial[m] = factorial[low] * (q * m) /\ q * m \in Nat
  BY <1>2, <1>3
<1>5. factorial[m - 1] \div factorial[low] = q
  BY <1>2, <1>3, Quotient
<1>6. factorial[m] \div factorial[low] = q * m
  BY <1>3, <1>4, Quotient
<1> QED
  BY <1>5, <1>6

\* The remainder of a product does not change when a factor is replaced by its
\* remainder.
LEMMA RemainderOfProduct ==
    ASSUME NEW a \in Nat, NEW m \in Nat
    PROVE  ((a % 256) * m) % 256 = (a * m) % 256
<1> DEFINE q == a \div 256
           r == a % 256
<1>1. a = 256 * q + r /\ q \in Nat /\ r \in Nat
  OBVIOUS
<1> HIDE DEF q, r
<1>2. a * m = 256 * (q * m) + r * m /\ q * m \in Nat /\ r * m \in Nat
  BY <1>1
<1>3. \A x, y \in Nat : (256 * x + y) % 256 = y % 256
  OBVIOUS
<1>4. (256 * (q * m) + r * m) % 256 = (r * m) % 256
  BY <1>2, <1>3
<1> QED
  BY <1>2, <1>4 DEF r

-----------------------------------------------------------------------------
\* Sequences with an empty part.
LEMMA EmptyParts ==
    ASSUME NEW S, NEW s \in Seq(S), NEW line \in S
    PROVE  /\ s \o <<>> = s /\ <<>> \o s = s
           /\ Append(<<>>, line) = <<line>> /\ <<line>> \in Seq(S)
OBVIOUS

-----------------------------------------------------------------------------
(***************************************************************************)
(* Counting lines                                                          *)
(***************************************************************************)
\* No line is in an empty sequence.
LEMMA LinesInEmpty ==
    ASSUME NEW text, NEW p, NEW numbers
    PROVE  LinesIn(<<>>, text, p, numbers) = 0
<1>1. {k \in DOMAIN <<>> :
          <<>>[k].text = text /\ <<>>[k].by = p /\ <<>>[k].value \in numbers} = {}
  OBVIOUS
<1> QED
  BY <1>1, FS_EmptySet DEF LinesIn

\* The places where a line is found are finitely many.
LEMMA LinesInType ==
    ASSUME NEW S, NEW s \in Seq(S), NEW text, NEW p, NEW numbers
    PROVE  LinesIn(s, text, p, numbers) \in Nat
<1>1. IsFiniteSet(1 .. Len(s))
  BY FS_Interval
<1>2. {k \in DOMAIN s : s[k].text = text /\ s[k].by = p /\ s[k].value \in numbers}
         \subseteq 1 .. Len(s)
  OBVIOUS
<1> QED
  BY <1>1, <1>2, FS_Subset, FS_CardinalityType DEF LinesIn

\* A line that is printed is counted where it matches.
LEMMA LinesInAppend ==
    ASSUME NEW S, NEW s \in Seq(S), NEW line \in S, NEW text, NEW p, NEW numbers
    PROVE  LinesIn(Append(s, line), text, p, numbers) =
              LinesIn(s, text, p, numbers) +
              IF line.text = text /\ line.by = p /\ line.value \in numbers THEN 1 ELSE 0
<1> DEFINE Matches(l) == l.text = text /\ l.by = p /\ l.value \in numbers
           Found(t) == {k \in DOMAIN t : Matches(t[k])}
           last == Len(s) + 1
<1>1. IsFiniteSet(Found(s)) /\ last \notin Found(s)
  <2>1. IsFiniteSet(1 .. Len(s)) /\ Found(s) \subseteq 1 .. Len(s)
    BY FS_Interval
  <2> QED
    BY <2>1, FS_Subset
<1>2. /\ DOMAIN Append(s, line) = 1 .. last
      /\ DOMAIN s = 1 .. Len(s)
      /\ \A k \in 1 .. Len(s) : Append(s, line)[k] = s[k]
      /\ Append(s, line)[last] = line
  OBVIOUS
<1> HIDE DEF Matches
<1>3. Found(Append(s, line)) = IF Matches(line) THEN Found(s) \cup {last} ELSE Found(s)
  BY <1>2
<1> HIDE DEF Found
<1>4. Cardinality(Found(Append(s, line))) = Cardinality(Found(s)) + IF Matches(line) THEN 1 ELSE 0
  <2>1. Cardinality(Found(s)) \in Nat /\ Cardinality(Found(s) \cup {last}) = Cardinality(Found(s)) + 1
    BY <1>1, FS_AddElement, FS_CardinalityType
  <2> QED
    BY <1>3, <2>1
<1> QED
  BY <1>4 DEF LinesIn, Matches, Found

\* What a process writes when it exits adds up with what was written before.
LEMMA LinesInConcat ==
    ASSUME NEW S, NEW s \in Seq(S), NEW t \in Seq(S), NEW text, NEW p, NEW numbers
    PROVE  LinesIn(s \o t, text, p, numbers) =
              LinesIn(s, text, p, numbers) + LinesIn(t, text, p, numbers)
<1> DEFINE Matches(l) == l.text = text /\ l.by = p /\ l.value \in numbers
           Found(u) == {k \in DOMAIN u : Matches(u[k])}
           Moved == {k + Len(s) : k \in Found(t)}
<1>1. IsFiniteSet(Found(s)) /\ IsFiniteSet(Found(t))
  <2>1. /\ IsFiniteSet(1 .. Len(s)) /\ Found(s) \subseteq 1 .. Len(s)
        /\ IsFiniteSet(1 .. Len(t)) /\ Found(t) \subseteq 1 .. Len(t)
    BY FS_Interval
  <2> QED
    BY <2>1, FS_Subset
<1>2. /\ s \o t \in Seq(S) /\ DOMAIN (s \o t) = 1 .. Len(s) + Len(t)
      /\ DOMAIN s = 1 .. Len(s) /\ DOMAIN t = 1 .. Len(t)
      /\ Len(s) \in Nat /\ Len(t) \in Nat
      /\ \A k \in 1 .. Len(s) : (s \o t)[k] = s[k]
      /\ \A k \in 1 .. Len(t) : (s \o t)[k + Len(s)] = t[k]
  OBVIOUS
<1> HIDE DEF Matches
<1>3. Found(s \o t) = Found(s) \cup Moved
  <2>1. ASSUME NEW k \in Found(s \o t) PROVE k \in Found(s) \cup Moved
    <3>1. CASE k <= Len(s)
      BY <1>2, <2>1, <3>1
    <3>2. CASE k > Len(s)
      <4>1. k - Len(s) \in 1 .. Len(t) /\ k = (k - Len(s)) + Len(s)
        BY <1>2, <2>1, <3>2
      <4>2. k - Len(s) \in Found(t)
        BY <1>2, <2>1, <4>1
      <4> QED
        BY <4>1, <4>2
    <3> QED
      BY <1>2, <2>1, <3>1, <3>2
  <2>2. Found(s) \subseteq Found(s \o t)
    BY <1>2
  <2>3. Moved \subseteq Found(s \o t)
    <3> SUFFICES ASSUME NEW k \in Found(t) PROVE k + Len(s) \in Found(s \o t)
      OBVIOUS
    <3>1. k \in 1 .. Len(t) /\ Matches(t[k]) /\ k + Len(s) \in 1 .. Len(s) + Len(t)
      BY <1>2
    <3> QED
      BY <1>2, <3>1
  <2> QED
    BY <2>1, <2>2, <2>3
<1>4. IsFiniteSet(Moved) /\ Cardinality(Moved) = Cardinality(Found(t))
  <2> DEFINE f == [k \in Found(t) |-> k + Len(s)]
  <2>1. f \in [Found(t) -> Moved] /\ \A y \in Moved : \E x \in Found(t) : f[x] = y
    OBVIOUS
  <2>2. \A x, y \in Found(t) : f[x] = f[y] => x = y
    BY <1>2
  <2>3. f \in Bijection(Found(t), Moved)
    BY <2>1, <2>2, Fun_IsBij
  <2>4. ExistsBijection(Found(t), Moved)
    BY <2>3, Fun_ExistsBij
  <2> QED
    BY <1>1, <2>4, FS_Bijection
<1>5. Found(s) \cap Moved = {}
  BY <1>2
<1> HIDE DEF Found, Moved
<1>6. Cardinality(Found(s \o t)) = Cardinality(Found(s)) + Cardinality(Found(t))
  <2>1. Cardinality(Found(s) \cup Moved) =
           Cardinality(Found(s)) + Cardinality(Moved) - Cardinality(Found(s) \cap Moved)
    BY <1>1, <1>4, FS_Union
  <2>2. Cardinality(Found(s)) \in Nat /\ Cardinality(Moved) \in Nat /\ Cardinality({}) = 0
    BY <1>1, <1>4, FS_CardinalityType, FS_EmptySet
  <2>3. Cardinality(Found(s) \cap Moved) = 0
    BY <1>5, <2>2
  <2>4. Cardinality(Found(s) \cup Moved) = Cardinality(Found(s)) + Cardinality(Found(t))
    BY <1>4, <2>1, <2>2, <2>3
  <2> QED
    BY <1>3, <2>4
<1> QED
  BY <1>6 DEF LinesIn, Matches, Found

-----------------------------------------------------------------------------
(***************************************************************************)
(* The calls of a process keep the types                                   *)
(***************************************************************************)
Live == Labels \ {"unborn", "ended"}

\* The child starts with the lines of its parent, none on a terminal.
LEMMA ForkType ==
    ASSUME TypeOK, NEW p \in Processes, NEW child \in Processes, NEW next \in Live,
           NEW childNext \in Live, fork(p, child, next, childNext),
           program' = program, arg' = arg, i' \in 0 .. NUM_CHILDREN
    PROVE  TypeOK'
BY DEF TypeOK, fork, Live, Labels

\* A line goes to the console or to the process that prints it.
LEMMA PrintType ==
    ASSUME TypeOK, NEW p \in Processes, NEW next \in Live, NEW line \in Lines,
           process' = [process EXCEPT ![p] = next], printf(p, line),
           program' = program, arg' = arg, i' \in 0 .. NUM_CHILDREN
    PROVE  TypeOK'
<1>1. Append(console, line) \in Seq(Lines) /\ Append(pending[p], line) \in Seq(Lines)
  BY DEF TypeOK
<1>2. console' \in Seq(Lines) /\ pending' \in [Processes -> Seq(Lines)]
  BY <1>1 DEF TypeOK, printf
<1>3. process' \in [Processes -> Labels]
  BY DEF TypeOK, Live
<1>4. \A q \in Processes : terminal' \/ process'[q] \in {"unborn", "ended"} => pending'[q] = <<>>
  BY DEF TypeOK, printf, Live
<1> QED
  BY <1>2, <1>3, <1>4 DEF TypeOK, printf

\* A silent step.
LEMMA SilentType ==
    ASSUME TypeOK, NEW p \in Processes, NEW next \in Live, Goto(p, next), Silent,
           process[p] \in Live, program' = program, arg' = arg, i' \in 0 .. NUM_CHILDREN
    PROVE  TypeOK'
BY DEF TypeOK, Goto, Silent, Live, Labels

\* exit() writes what is left and keeps 8 bits of the status.
LEMMA ExitType ==
    ASSUME TypeOK, NEW p \in Processes, NEW code \in Int, exit(p, code),
           program' = program, arg' = arg, i' \in 0 .. NUM_CHILDREN
    PROVE  TypeOK'
<1>1. code % 256 \in 0 .. 255
  OBVIOUS
<1>2. console \o pending[p] \in Seq(Lines) /\ <<>> \in Seq(Lines)
  BY DEF TypeOK
<1>3. /\ status' \in [Processes -> 0 .. 255] /\ process' \in [Processes -> Labels]
      /\ console' \in Seq(Lines) /\ pending' \in [Processes -> Seq(Lines)]
  BY <1>1, <1>2 DEF TypeOK, exit, Goto, Labels
<1>4. \A q \in Processes : terminal' \/ process'[q] \in {"unborn", "ended"} => pending'[q] = <<>>
  BY DEF TypeOK, exit, Goto
<1> QED
  BY <1>3, <1>4 DEF TypeOK, exit

-----------------------------------------------------------------------------
(***************************************************************************)
(* The chain of processes of the factorial program                         *)
(***************************************************************************)
\* The last process of the chain is the only one that can fork.
LEMMA ChainFacts ==
    ASSUME TypeOK, Chain
    PROVE  /\ \A p \in Processes : n(p) \in Int /\ (Born(p) => p <= arg + 2)
           /\ \A p \in Processes :
                 process[p] \in {"call", "wait", "exit"} => p + 1 \in Processes /\ p <= arg + 1
           /\ \A p, q \in Processes : process[p] = "call" => (Born(q) <=> q <= p)
           /\ \A p, q \in Processes : Born(q) /\ p <= q => Born(p)
<1>1. PICK last \in 0 .. arg + 2 : \A p \in Processes : Born(p) <=> p <= last
  BY DEF Chain
<1>2. /\ Processes \subseteq Nat /\ 0 .. MAX + 2 \subseteq Processes
      /\ MAX \in Nat /\ arg \in 0 .. MAX
  BY ProcessAssumption, ArgumentAssumption DEF TypeOK
<1>3. \A p \in Processes : n(p) \in Int /\ (Born(p) => p <= arg + 2)
  BY <1>1, <1>2 DEF n
<1>4. \A p \in Processes :
         process[p] \in {"call", "wait", "exit"} => p + 1 \in Processes /\ p <= arg + 1
  BY <1>2 DEF Chain, n, Recurses
<1>5. ASSUME NEW p \in Processes, NEW q \in Processes, process[p] = "call"
      PROVE  Born(q) <=> q <= p
  <2>1. Born(p) /\ ~ Born(p + 1) /\ p + 1 \in Processes
    BY <1>4, <1>5 DEF Chain, Born
  <2>2. p = last
    BY <1>1, <1>2, <2>1
  <2> QED
    BY <1>1, <2>2
<1>6. \A p, q \in Processes : Born(q) /\ p <= q => Born(p)
  BY <1>1, <1>2
<1> QED
  BY <1>3, <1>4, <1>5, <1>6

\* No process ends before the last one of the chain.
LEMMA NoneEnded ==
    ASSUME TypeOK, Chain, ChainEnded, NEW p \in Processes, process[p] = "call"
    PROVE  \A q \in Processes : process[q] # "ended"
<1> SUFFICES ASSUME NEW q \in Processes, process[q] = "ended" PROVE FALSE
  OBVIOUS
<1>1. q <= p /\ q # p
  BY ChainFacts DEF Born
<1>2. q < p /\ Born(p) /\ n(p) >= 0
  BY <1>1, ProcessAssumption DEF Born, Chain
<1> QED
  BY <1>2 DEF ChainEnded

\* The number at which the chain ends.
LEMMA BaseValue ==
    ASSUME TypeOK, NEW last \in Processes, \A p \in Processes : Born(p) <=> p <= last
    PROVE  Base = IF n(last) < 0 THEN 0 ELSE n(last)
<1> DEFINE ends == {n(p) : p \in {q \in Processes : Born(q)}}
           low == CHOOSE m \in ends : \A k \in ends : m <= k
<1>1. last \in Nat /\ Processes \subseteq Nat /\ arg \in Nat
  BY ProcessAssumption, ArgumentAssumption DEF TypeOK
<1>2. n(last) \in ends /\ n(last) \in Int
  BY <1>1 DEF n
<1>3. \A k \in ends : k \in Int /\ n(last) <= k
  BY <1>1 DEF n
<1> HIDE DEF ends
<1>4. low \in ends /\ \A k \in ends : low <= k
  BY <1>2, <1>3
<1>5. low = n(last)
  BY <1>2, <1>3, <1>4
<1> QED
  BY <1>5 DEF Base, ends

\* It is below every number that takes part.
LEMMA BaseBelow ==
    ASSUME TypeOK, Chain
    PROVE  /\ Base \in Nat
           /\ \A p \in Processes : Born(p) /\ n(p) >= 0 => Base <= n(p)
<1>1. PICK last \in 0 .. arg + 2 : \A p \in Processes : Born(p) <=> p <= last
  BY DEF Chain
<1>2. /\ last \in Processes /\ Processes \subseteq Nat /\ arg \in Nat
  BY ProcessAssumption, ArgumentAssumption DEF TypeOK
<1>3. Base = IF n(last) < 0 THEN 0 ELSE n(last)
  BY <1>1, <1>2, BaseValue
<1> QED
  BY <1>1, <1>2, <1>3 DEF n

\* It does not change while no process is born.
LEMMA BaseKept ==
    ASSUME \A p \in Processes : Born(p)' <=> Born(p), arg' = arg
    PROVE  Base' = Base
<1> DEFINE ends == {n(p) : p \in {q \in Processes : Born(q)}}
           low == CHOOSE m \in ends : \A k \in ends : m <= k
<1>1. ends' = ends
  <2>1. {q \in Processes : Born(q)}' = {q \in Processes : Born(q)}
    OBVIOUS
  <2> QED
    BY <2>1 DEF n
<1>2. Base = (IF low < 0 THEN 0 ELSE low) /\ Base' = (IF low < 0 THEN 0 ELSE low)'
  BY DEF Base
<1> HIDE DEF ends
<1>3. low' = low
  BY <1>1
<1> HIDE DEF low
<1> QED
  BY <1>2, <1>3

-----------------------------------------------------------------------------
(***************************************************************************)
(* The steps of the factorial program                                      *)
(***************************************************************************)
\* What every step starts from.
LEMMA FactorialFacts ==
    ASSUME TypeOK, FactorialInv
    PROVE  /\ Processes \subseteq Nat /\ 0 \in Processes /\ 1 \in Processes /\ arg \in Nat
           /\ process \in [Processes -> Labels] /\ status \in [Processes -> 0 .. 255]
           /\ pending \in [Processes -> Seq(Lines)] /\ console \in Seq(Lines)
           /\ Recurses(0) /\ n(1) = arg /\ 0 .. arg + 2 \subseteq Processes
           /\ process[0] \in {"exit", "ended"} /\ Born(1) => process[1] = "ended"
<1>1. /\ Processes \subseteq Nat /\ 0 \in Processes /\ 1 \in Processes /\ arg \in Nat
  BY ProcessAssumption, ArgumentAssumption DEF TypeOK
<1>2. Recurses(0) /\ n(1) = arg /\ 0 .. arg + 2 \subseteq Processes
  BY <1>1, ArgumentAssumption DEF Recurses, n, TypeOK
<1>3. process[0] \in {"exit", "ended"} /\ Born(1) => process[1] = "ended"
  BY <1>1, <1>2 DEF FactorialInv, Chain, ChainEnded
<1> QED
  BY <1>1, <1>2, <1>3 DEF TypeOK

\* Before the chain has its last process, nothing is printed and nobody has ended.
LEMMA ForkStep ==
    ASSUME TypeOK, FactorialInv, NEW p \in Processes, FactorialFork(p),
           UNCHANGED <<program, arg, i>>
    PROVE  TypeOK' /\ FactorialInv'
<1>1. /\ TypeOK /\ Chain /\ ChainEnded /\ Printed
      /\ process[p] = "call" /\ n(p) >= 0 /\ ~ Born(p + 1)
      /\ p + 1 \in Processes /\ p <= arg + 1 /\ p \in Nat /\ arg \in Nat
      /\ process \in [Processes -> Labels]
      /\ Processes \subseteq Nat /\ 0 \in Processes /\ 1 \in Processes
      /\ 0 .. arg + 2 \subseteq Processes
  BY ChainFacts, FactorialFacts DEF FactorialFork, FactorialInv, Chain
<1>2. PICK next \in Live, childNext \in Live :
         /\ fork(p, p + 1, next, childNext)
         /\ IF Recurses(p) THEN next = "wait" /\ childNext = "call"
            ELSE next = "return" /\ childNext = "return"
  BY DEF FactorialFork, Live, Labels
<1>3. TypeOK'
  BY <1>1, <1>2, ForkType DEF TypeOK
<1>4. /\ process'[p] = next /\ process'[p + 1] = childNext
      /\ \A q \in Processes \ {p, p + 1} : process'[q] = process[q]
      /\ UNCHANGED <<terminal, status, console>>
      /\ pending' = [pending EXCEPT ![p + 1] = pending[p]]
  BY <1>1, <1>2 DEF fork
<1>5. \A q \in Processes : process[q] # "ended" /\ process'[q] # "ended"
  BY <1>1, <1>2, <1>4, NoneEnded
<1>6. \A q \in Processes : Born(q) <=> q <= p
  BY <1>1, ChainFacts
<1>7. \A q \in Processes : Born(q)' <=> q <= p + 1
  <2> SUFFICES ASSUME NEW q \in Processes PROVE Born(q)' <=> q <= p + 1
    OBVIOUS
  <2>1. CASE q \in {p, p + 1}
    BY <1>1, <1>2, <1>4, <2>1 DEF Born, Live
  <2>2. CASE q \notin {p, p + 1}
    BY <1>1, <1>4, <1>6, <2>2 DEF Born
  <2> QED
    BY <2>1, <2>2
<1>8. Chain'
  <2>1. p + 1 \in 0 .. arg' + 2
    BY <1>1
  <2>2. ASSUME NEW q \in Processes
        PROVE  /\ process'[q] \in {"unborn", "call", "wait", "return", "exit", "ended"}
               /\ process'[q] = "call" => n(q)' >= 0 /\ ~ Born(q + 1)'
               /\ process'[q] \in {"wait", "exit"} => Recurses(q)' /\ Born(q + 1)'
               /\ process'[q] = "exit" => process'[q + 1] = "ended"
               /\ process'[q] = "return" => ~ Recurses(q)' \/ ~ Born(q + 1)'
    <3>1. n(q)' = n(q) /\ (Recurses(q)' <=> Recurses(q))
      BY DEF n, Recurses
    <3>2. CASE q = p
      BY <1>1, <1>2, <1>4, <1>7, <3>1, <3>2
    <3>3. CASE q = p + 1
      <4>1. Recurses(p) => n(q) >= 0 /\ q + 1 \in Processes
        BY <1>1, <3>3 DEF Recurses, n
      <4>2. Recurses(p) => ~ Born(q + 1)'
        BY <1>1, <1>7, <3>3, <4>1
      <4>3. ~ Recurses(p) => ~ Recurses(q)
        BY <1>1, <3>3 DEF Recurses, n
      <4>4. process'[q] = IF Recurses(p) THEN "call" ELSE "return"
        BY <1>2, <1>4, <3>3
      <4> QED
        BY <3>1, <4>1, <4>2, <4>3, <4>4
    <3>4. CASE q \notin {p, p + 1}
      <4>1. process'[q] = process[q] /\ process[q] # "exit"
        BY <1>1, <1>4, <1>5, <3>4, ChainFacts DEF Chain
      <4>2. process[q] # "call"
        BY <1>1, <1>6, <3>4, ChainFacts DEF Born
      <4>3. process[q] = "wait" => Recurses(q) /\ Born(q + 1)'
        <5> SUFFICES ASSUME process[q] = "wait" PROVE Recurses(q) /\ Born(q + 1)'
          OBVIOUS
        <5>1. Recurses(q) /\ Born(q + 1) /\ q + 1 \in Processes
          BY <1>1, ChainFacts DEF Chain
        <5>2. q + 1 <= p
          BY <1>6, <5>1
        <5> QED
          BY <1>1, <1>7, <5>1, <5>2
      <4>4. process[q] = "return" => ~ Recurses(q) \/ ~ Born(q + 1)'
        <5> SUFFICES ASSUME process[q] = "return", Recurses(q) PROVE ~ Born(q + 1)'
          OBVIOUS
        <5>1. q + 1 \in Processes /\ q \in Nat
          BY <1>1 DEF Recurses, n
        <5>2. ~ Born(q + 1) /\ Born(q)
          BY <1>1 DEF Chain, Born
        <5>3. q <= p /\ ~ (q + 1 <= p)
          BY <1>6, <5>1, <5>2
        <5> QED
          BY <1>1, <3>4, <5>1, <5>3
      <4>5. process[q] \in {"unborn", "call", "wait", "return", "exit", "ended"}
        BY <1>1 DEF Chain
      <4> QED
        BY <3>1, <4>1, <4>2, <4>3, <4>4, <4>5
    <3> QED
      BY <3>2, <3>3, <3>4
  <2> QED
    BY <1>7, <2>1, <2>2 DEF Chain
<1>9. ChainEnded' /\ StatusIsProduct'
  BY <1>5 DEF ChainEnded, StatusIsProduct
<1>10. Printed'
  <2>1. process[0] \notin {"exit", "ended"} /\ process'[0] \notin {"exit", "ended"}
    BY <1>1, <1>2, <1>4, <1>5 DEF Chain
  <2>2. console \o pending[0] = <<>>
    BY <1>1, <2>1 DEF Printed
  <2>3. pending[0] = <<>>
    BY <1>1, <2>2 DEF TypeOK
  <2>4. \A q \in Processes : pending[q] = <<>>
    BY <1>1, <2>3 DEF Printed
  <2>5. \A q \in Processes : pending'[q] = <<>>
    BY <1>1, <1>4, <2>4 DEF TypeOK
  <2>6. console' \o pending'[0] = <<>>
    BY <1>1, <1>4, <2>2, <2>3, <2>5
  <2> QED
    BY <2>1, <2>5, <2>6 DEF Printed
<1> QED
  BY <1>3, <1>8, <1>9, <1>10 DEF FactorialInv

\* The other steps leave the chain as long as it is.
LEMMA ChainKept ==
    ASSUME TypeOK, FactorialInv, NEW p \in Processes, NEW next \in {"return", "exit", "ended"},
           Goto(p, next), process[p] \in Live, arg' = arg,
           next = "return" => ~ Recurses(p) \/ ~ Born(p + 1),
           next = "exit" => process[p] = "wait" /\ process[p + 1] = "ended",
           next = "ended" => process[p] \in {"exit", "return"}
    PROVE  /\ Chain' /\ ChainEnded'
           /\ \A q \in Processes : Born(q)' <=> Born(q)
           /\ Base' = Base
<1>1. /\ Chain /\ ChainEnded
      /\ Processes \subseteq Nat /\ 0 .. arg + 2 \subseteq Processes /\ arg \in Nat
      /\ process \in [Processes -> Labels] /\ p \in Nat
  BY FactorialFacts DEF FactorialInv
<1>2. process'[p] = next /\ \A q \in Processes \ {p} : process'[q] = process[q]
  BY <1>1 DEF Goto
<1>3. \A q \in Processes : Born(q)' <=> Born(q)
  BY <1>1, <1>2 DEF Born, Live
<1>4. \A q : n(q)' = n(q) /\ (Recurses(q)' <=> Recurses(q))
  BY DEF n, Recurses
<1>5. Chain'
  <2>1. \E last \in 0 .. arg' + 2 : \A q \in Processes : Born(q)' <=> q <= last
    BY <1>1, <1>3 DEF Chain
  <2>2. ASSUME NEW q \in Processes
        PROVE  /\ process'[q] \in {"unborn", "call", "wait", "return", "exit", "ended"}
               /\ process'[q] = "call" => n(q)' >= 0 /\ ~ Born(q + 1)'
               /\ process'[q] \in {"wait", "exit"} => Recurses(q)' /\ Born(q + 1)'
               /\ process'[q] = "exit" => process'[q + 1] = "ended"
               /\ process'[q] = "return" => ~ Recurses(q)' \/ ~ Born(q + 1)'
    <3>1. process[q] \in {"call", "wait", "exit"} => q + 1 \in Processes
      BY <1>1, ChainFacts
    <3>2. Recurses(q) => q + 1 \in Processes
      BY <1>1 DEF Recurses, n
    <3>3. /\ process[q] \in {"unborn", "call", "wait", "return", "exit", "ended"}
          /\ process[q] = "call" => n(q) >= 0 /\ ~ Born(q + 1)
          /\ process[q] \in {"wait", "exit"} => Recurses(q) /\ Born(q + 1)
          /\ process[q] = "exit" => process[q + 1] = "ended"
          /\ process[q] = "return" => ~ Recurses(q) \/ ~ Born(q + 1)
      BY <1>1 DEF Chain
    <3>4. CASE q = p
      <4>1. CASE next = "return"
        BY <1>2, <1>3, <1>4, <3>2, <3>4, <4>1
      <4>2. CASE next = "exit"
        <5>1. p + 1 # p /\ p + 1 \in Processes
          BY <1>1, <3>1, <3>4, <4>2
        <5> QED
          BY <1>2, <1>3, <1>4, <3>3, <3>4, <4>2, <5>1
      <4>3. CASE next = "ended"
        BY <1>2, <3>4, <4>3
      <4> QED
        BY <4>1, <4>2, <4>3
    <3>5. CASE q # p
      <4>1. process'[q] = process[q]
        BY <1>2, <3>5
      <4>2. process[q] = "exit" => process'[q + 1] = "ended"
        BY <1>2, <3>1, <3>3 DEF Live
      <4> QED
        BY <1>3, <1>4, <3>1, <3>2, <3>3, <4>1, <4>2
    <3> QED
      BY <3>4, <3>5
  <2> QED
    BY <2>1, <2>2 DEF Chain
<1>6. ChainEnded'
  <2> SUFFICES ASSUME NEW q \in Processes, NEW r \in Processes, process'[q] = "ended", q < r,
                      Born(r), n(r) >= 0
               PROVE  process'[r] = "ended"
    BY <1>3, <1>4 DEF ChainEnded
  <2>1. process[r] = "ended" => process'[r] = "ended"
    BY <1>2 DEF Live
  <2>2. CASE q = p
    <3>1. next = "ended" /\ p + 1 \in Processes /\ r \in Nat
      BY <1>1, <1>2, <2>2, ChainFacts
    <3>2. Born(p + 1)
      BY <1>1, <2>2, <3>1, ChainFacts
    <3>3. n(r) < n(p)
      BY <1>1, <2>2 DEF n
    <3>4. process[p] = "exit"
      BY <1>1, <3>1, <3>2, <3>3 DEF Chain, Recurses, n
    <3>5. process[p + 1] = "ended"
      BY <1>1, <3>4 DEF Chain
    <3>6. r = p + 1 \/ p + 1 < r
      BY <1>1, <2>2, <3>1
    <3> QED
      BY <1>1, <2>1, <3>1, <3>5, <3>6 DEF ChainEnded
  <2>3. CASE q # p
    BY <1>1, <1>2, <2>1, <2>3 DEF ChainEnded
  <2> QED
    BY <2>2, <2>3
<1>7. Base' = Base
  BY <1>3, BaseKept
<1> QED
  BY <1>3, <1>5, <1>6, <1>7

\* A failed fork().
LEMMA ForkFailsStep ==
    ASSUME TypeOK, FactorialInv, NEW p \in Processes, FactorialForkFails(p),
           UNCHANGED <<program, arg, i>>
    PROVE  TypeOK' /\ FactorialInv'
<1>1. /\ Chain /\ ChainEnded /\ Printed /\ process[p] = "call" /\ ~ Born(p + 1)
      /\ Goto(p, "return") /\ Silent /\ process[p] \in Live
      /\ process \in [Processes -> Labels]
  BY FactorialFacts DEF FactorialInv, Chain, FactorialForkFails, Live, Labels
<1>2. TypeOK'
  BY <1>1, SilentType DEF Live, Labels, TypeOK
<1>3. Chain' /\ ChainEnded'
  BY <1>1, ChainKept
<1>4. \A q \in Processes : process[q] # "ended" /\ process'[q] # "ended"
  BY <1>1, NoneEnded DEF Goto
<1>5. StatusIsProduct'
  BY <1>4 DEF StatusIsProduct
<1>6. Printed'
  <2>1. process[0] \notin {"exit", "ended"} /\ process'[0] \notin {"exit", "ended"}
    BY <1>1, <1>4, FactorialFacts DEF Chain, Goto
  <2> QED
    BY <1>1, <2>1 DEF Printed, Silent
<1> QED
  BY <1>2, <1>3, <1>5, <1>6 DEF FactorialInv

\* wait(): the child has ended, and with it the chain below it.
LEMMA WaitStep ==
    ASSUME TypeOK, FactorialInv, NEW p \in Processes, FactorialWait(p),
           UNCHANGED <<program, arg, i>>
    PROVE  TypeOK' /\ FactorialInv'
<1>1. /\ Chain /\ ChainEnded /\ Printed /\ StatusIsProduct
      /\ process[p] = "wait" /\ process[p + 1] = "ended" /\ Goto(p, "exit")
      /\ process[p] \in Live /\ Born(p + 1)
      /\ process \in [Processes -> Labels] /\ status \in [Processes -> 0 .. 255]
      /\ pending \in [Processes -> Seq(Lines)] /\ console \in Seq(Lines)
      /\ Processes \subseteq Nat /\ 0 \in Processes /\ 1 \in Processes
      /\ program' = program /\ arg' = arg /\ i' \in 0 .. NUM_CHILDREN
      /\ "exit" \in Live
  BY FactorialFacts DEF FactorialInv, FactorialWait, Live, Labels, Born, TypeOK
<1>2. Chain' /\ ChainEnded' /\ Base' = Base /\ \A q \in Processes : Born(q)' <=> Born(q)
  BY <1>1, ChainKept
<1>3. /\ process'[p] = "exit" /\ \A q \in Processes \ {p} : process'[q] = process[q]
  BY <1>1 DEF Goto
<1>4. Total(0) = [text |-> "total", by |-> 0, value |-> status[1]] /\ Total(0) \in Lines
  <2>1. status[1] \in Int
    <3>1. status[1] \in 0 .. 255
      BY <1>1
    <3> QED
      BY <3>1
  <2>2. Total(0) = [text |-> "total", by |-> 0, value |-> status[1]]
    BY DEF Total
  <2> QED
    BY <1>1, <2>1, <2>2 DEF Lines
<1>5. status' = status
  BY DEF FactorialWait, printf, Silent
<1>6. StatusIsProduct'
  BY <1>1, <1>2, <1>3, <1>5 DEF StatusIsProduct, n
<1>7. CASE p = 0
  <2>1. printf(0, Total(0))
    BY <1>7 DEF FactorialWait
  <2>2. TypeOK'
    BY <1>1, <1>4, <1>7, <2>1, PrintType DEF Goto
  <2>3. console \o pending[0] = <<>> /\ Born(1)
    BY <1>1, <1>7 DEF Printed
  <2>4. console = <<>> /\ pending[0] = <<>>
    BY <1>1, <2>3
  <2>5. console' \o pending'[0] = <<Total(0)>>
    <3>1. CASE terminal
      <4>1. console' = <<Total(0)>> /\ pending'[0] = <<>>
        BY <1>4, <2>1, <2>4, <3>1, EmptyParts DEF printf
      <4> QED
        BY <1>4, <4>1, EmptyParts
    <3>2. CASE ~ terminal
      <4>1. console' = <<>> /\ pending'[0] = <<Total(0)>>
        BY <1>1, <1>4, <2>1, <2>4, <3>2, EmptyParts DEF printf
      <4> QED
        BY <1>4, <4>1, EmptyParts
    <3> QED
      BY <3>1, <3>2
  <2>6. \A q \in Processes \ {0} : pending'[q] = <<>>
    BY <1>1, <2>1 DEF printf, Printed
  <2>7. Total(0)' = Total(0) /\ Born(1)' /\ process'[0] = "exit"
    BY <1>1, <1>2, <1>3, <1>5, <1>7, <2>3 DEF Total
  <2>8. Printed'
    BY <2>5, <2>6, <2>7 DEF Printed
  <2> QED
    BY <1>2, <1>6, <2>2, <2>8 DEF FactorialInv
<1>8. CASE p # 0
  <2>1. Silent
    BY <1>8 DEF FactorialWait
  <2>2. TypeOK'
    BY <1>1, <2>1, SilentType
  <2>3. Total(0)' = Total(0) /\ process'[0] = process[0] /\ UNCHANGED <<pending, console>>
    BY <1>1, <1>3, <1>8, <2>1 DEF Total, Silent
  <2>4. Printed'
    BY <1>1, <1>2, <2>3 DEF Printed
  <2> QED
    BY <1>2, <1>6, <2>2, <2>4 DEF FactorialInv
<1> QED
  BY <1>7, <1>8

\* exit() brings what the first process has printed to the console.
LEMMA ExitPrinted ==
    ASSUME TypeOK, FactorialInv, NEW p \in Processes, NEW code, exit(p, code),
           process[p] \in {"exit", "return"}, Born(1)' <=> Born(1)
    PROVE  Printed'
<1>1. /\ Chain /\ ChainEnded /\ Printed
      /\ process \in [Processes -> Labels] /\ status \in [Processes -> 0 .. 255]
      /\ pending \in [Processes -> Seq(Lines)] /\ console \in Seq(Lines)
      /\ Processes \subseteq Nat /\ 0 \in Processes /\ 1 \in Processes
      /\ Recurses(0)
      /\ process[0] \in {"exit", "ended"} /\ Born(1) => process[1] = "ended"
  BY FactorialFacts DEF FactorialInv
<1>2. /\ process'[p] = "ended" /\ \A q \in Processes \ {p} : process'[q] = process[q]
      /\ \A q \in Processes \ {p} : pending'[q] = pending[q] /\ status'[q] = status[q]
      /\ pending'[p] = <<>> /\ console' = console \o pending[p]
  BY <1>1 DEF exit, Goto
<1>3. console' \o pending'[0] = console \o pending[0]
  <2>1. \A s \in Seq(Lines) : s \o <<>> = s
    BY EmptyParts
  <2>2. CASE p = 0
    <3>1. console \o pending[0] \in Seq(Lines)
      BY <1>1
    <3> QED
      BY <1>2, <2>1, <2>2, <3>1
  <2>3. CASE p # 0
    <3>1. pending[p] = <<>> /\ pending'[0] = pending[0]
      BY <1>1, <1>2, <2>3 DEF Printed
    <3>2. console' = console
      BY <1>1, <1>2, <2>1, <3>1
    <3> QED
      BY <3>1, <3>2
  <2> QED
    BY <2>2, <2>3
<1>4. \A q \in Processes \ {0} : pending'[q] = <<>>
  BY <1>1, <1>2 DEF Printed
<1>5. process'[0] \in {"exit", "ended"} /\ Born(1) <=> process[0] \in {"exit", "ended"} /\ Born(1)
  <2>1. process[0] = "return" => ~ Born(1)
    BY <1>1 DEF Chain
  <2> QED
    BY <1>1, <1>2, <2>1
<1>6. process'[0] \in {"exit", "ended"} /\ Born(1) => Total(0)' = Total(0)
  <2> SUFFICES ASSUME process[0] \in {"exit", "ended"}, Born(1) PROVE Total(0)' = Total(0)
    BY <1>5
  <2>1. p # 1
    BY <1>1
  <2>2. status'[1] = status[1]
    BY <1>1, <1>2, <2>1
  <2> QED
    BY <2>2 DEF Total
<1> QED
  BY <1>1, <1>3, <1>4, <1>5, <1>6 DEF Printed

\* A process that has waited returns the product of its number and its child's.
LEMMA ExitStep ==
    ASSUME TypeOK, FactorialInv, NEW p \in Processes, FactorialExit(p),
           UNCHANGED <<program, arg, i>>
    PROVE  TypeOK' /\ FactorialInv'
<1> DEFINE code == status[p + 1] * n(p)
<1>1. /\ Chain /\ StatusIsProduct
      /\ process[p] = "exit" /\ process[p + 1] = "ended" /\ exit(p, code)
      /\ p + 1 \in Processes /\ p \in Nat /\ arg \in Nat
      /\ Recurses(p) /\ Born(p + 1) /\ process[p] \in Live
      /\ process \in [Processes -> Labels] /\ status \in [Processes -> 0 .. 255]
      /\ program' = program /\ arg' = arg /\ i' \in 0 .. NUM_CHILDREN
  BY FactorialFacts, ChainFacts DEF FactorialInv, Chain, FactorialExit, Live, Labels, TypeOK
<1>2. n(p) \in Nat /\ n(p) > 0 /\ n(p + 1) = n(p) - 1 /\ status[p + 1] \in Nat
  BY <1>1 DEF n, Recurses
<1>3. code \in Int
  BY <1>2
<1>4. TypeOK'
  BY <1>1, <1>3, ExitType
<1>5. Chain' /\ ChainEnded' /\ Base' = Base /\ \A q \in Processes : Born(q)' <=> Born(q)
  BY <1>1, ChainKept DEF exit
<1>6. Printed'
  BY <1>1, <1>5, ExitPrinted, FactorialFacts
<1>7. p # 0 => code % 256 = (factorial[n(p)] \div factorial[Base]) % 256
  <2>1. Base \in Nat /\ Base < n(p)
    BY <1>1, <1>2, BaseBelow
  <2> DEFINE below == factorial[n(p) - 1] \div factorial[Base]
  <2>2. below \in Nat /\ factorial[n(p)] \div factorial[Base] = below * n(p)
    BY <1>2, <2>1, FactorialQuotient
  <2>3. status[p + 1] = below % 256
    BY <1>1, <1>2 DEF StatusIsProduct
  <2>4. ((below % 256) * n(p)) % 256 = (below * n(p)) % 256
    BY <1>2, <2>2, RemainderOfProduct
  <2> QED
    BY <2>2, <2>3, <2>4
<1>8. StatusIsProduct'
  <2> SUFFICES ASSUME NEW q \in Processes \ {0}, process'[q] = "ended", n(q) >= 0
               PROVE  status'[q] = (factorial[n(q)] \div factorial[Base]) % 256
    BY <1>1, <1>5 DEF StatusIsProduct, n
  <2>1. CASE q = p
    BY <1>1, <1>7, <2>1 DEF exit
  <2>2. CASE q # p
    BY <1>1, <2>2 DEF exit, Goto, StatusIsProduct
  <2> QED
    BY <2>1, <2>2
<1> QED
  BY <1>4, <1>5, <1>6, <1>8 DEF FactorialInv

\* The last process of the chain, or a twin of it, returns 1.
LEMMA ReturnStep ==
    ASSUME TypeOK, FactorialInv, NEW p \in Processes, FactorialReturn(p),
           UNCHANGED <<program, arg, i>>
    PROVE  TypeOK' /\ FactorialInv'
<1> DEFINE code == IF p = 0 THEN 0 ELSE 1
<1>1. /\ Chain /\ StatusIsProduct
      /\ process[p] = "return" /\ exit(p, code) /\ code \in Int
      /\ ~ Recurses(p) \/ ~ Born(p + 1)
      /\ p \in Nat /\ arg \in Nat /\ Processes \subseteq Nat /\ 0 .. arg + 2 \subseteq Processes
      /\ Born(p) /\ process[p] \in Live
      /\ process \in [Processes -> Labels] /\ status \in [Processes -> 0 .. 255]
      /\ program' = program /\ arg' = arg /\ i' \in 0 .. NUM_CHILDREN
  <2>1. Chain /\ StatusIsProduct /\ process[p] = "return" /\ exit(p, code) /\ code \in Int
    BY DEF FactorialInv, FactorialReturn
  <2>2. (~ Recurses(p) \/ ~ Born(p + 1)) /\ Born(p) /\ process[p] \in Live
    BY <2>1 DEF Chain, Born, Live, Labels
  <2>3. program' = program /\ arg' = arg /\ i' \in 0 .. NUM_CHILDREN
    BY DEF TypeOK
  <2> HIDE DEF code
  <2> QED
    BY <2>1, <2>2, <2>3, FactorialFacts
<1>2. TypeOK'
  BY <1>1, ExitType
<1>3. Chain' /\ ChainEnded' /\ Base' = Base /\ \A q \in Processes : Born(q)' <=> Born(q)
  BY <1>1, ChainKept DEF exit
<1>4. Printed'
  BY <1>1, <1>3, ExitPrinted, FactorialFacts
<1>5. p # 0 /\ n(p) >= 0 => (factorial[n(p)] \div factorial[Base]) % 256 = 1
  <2> SUFFICES ASSUME n(p) >= 0 PROVE (factorial[n(p)] \div factorial[Base]) % 256 = 1
    OBVIOUS
  <2>1. n(p) \in Nat /\ (Recurses(p) <=> n(p) # 0)
    BY <1>1 DEF n, Recurses
  <2>2. Base = n(p)
    <3>1. CASE ~ Recurses(p)
      BY <1>1, <2>1, <3>1, BaseBelow
    <3>2. CASE ~ Born(p + 1) /\ Recurses(p)
      <4>1. p + 1 \in Processes
        BY <1>1, <2>1, <3>2 DEF n
      <4>2. \A q \in Processes : Born(q) <=> q <= p
        BY <1>1, <3>2, <4>1 DEF Chain
      <4> QED
        BY <2>1, <4>2, BaseValue
    <3> QED
      BY <1>1, <3>1, <3>2
  <2>3. factorial[n(p)] \div factorial[n(p)] = 1
    BY <2>1, FactorialValue, FactorialPositive, Quotient
  <2> QED
    BY <2>2, <2>3
<1>6. StatusIsProduct'
  <2> SUFFICES ASSUME NEW q \in Processes \ {0}, process'[q] = "ended", n(q) >= 0
               PROVE  status'[q] = (factorial[n(q)] \div factorial[Base]) % 256
    BY <1>1, <1>3 DEF StatusIsProduct, n
  <2>1. CASE q = p
    BY <1>1, <1>5, <2>1 DEF exit
  <2>2. CASE q # p
    BY <1>1, <2>2 DEF exit, Goto, StatusIsProduct
  <2> QED
    BY <2>1, <2>2
<1> QED
  BY <1>2, <1>3, <1>4, <1>6 DEF FactorialInv

\* One step per disjunct of doFactorial().
LEMMA FactorialNext ==
    ASSUME TypeOK, FactorialInv, NEW p \in Processes, doFactorial(p),
           UNCHANGED <<program, arg, i>>
    PROVE  TypeOK' /\ FactorialInv'
BY ForkStep, ForkFailsStep, WaitStep, ExitStep, ReturnStep DEF doFactorial

LEMMA FactorialStart == program = "factorial" /\ FactorialInit /\ i = 0 => TypeOK /\ FactorialInv
<1> SUFFICES ASSUME program = "factorial", FactorialInit, i = 0 PROVE TypeOK /\ FactorialInv
  OBVIOUS
<1>1. /\ Processes \subseteq Nat /\ 0 \in Processes /\ arg \in 0 .. MAX /\ MAX \in Nat
      /\ 0 .. MAX + 2 \subseteq Processes
  BY ProcessAssumption, ArgumentAssumption DEF FactorialInit
<1>2. TypeOK
  <2>1. <<>> \in Seq(Lines)
    OBVIOUS
  <2> QED
    BY <1>1, <2>1, ChildrenAssumption DEF TypeOK, FactorialInit, ProcessInit, Labels
<1>3. \A p \in Processes : process[p] = IF p = 0 THEN "call" ELSE "unborn"
  BY DEF FactorialInit, ProcessInit
<1>4. \A p \in Processes : Born(p) <=> p <= 0
  BY <1>1, <1>3 DEF Born
<1>5. Chain
  <2>1. 0 \in 0 .. arg + 2 /\ n(0) >= 0 /\ 0 + 1 \in Processes
    BY <1>1 DEF n
  <2>2. ~ Born(0 + 1)
    BY <1>4, <2>1
  <2> QED
    BY <1>3, <1>4, <2>1, <2>2 DEF Chain
<1>6. ChainEnded /\ StatusIsProduct
  BY <1>3 DEF ChainEnded, StatusIsProduct
<1>7. Printed
  <2>1. console = <<>> /\ \A p \in Processes : pending[p] = <<>>
    BY DEF FactorialInit, ProcessInit
  <2>2. console \o pending[0] = <<>>
    BY <1>1, <2>1
  <2> QED
    BY <1>1, <1>3, <2>1, <2>2 DEF Printed
<1> QED
  BY <1>2, <1>5, <1>6, <1>7 DEF FactorialInv

-----------------------------------------------------------------------------
(***************************************************************************)
(* The children and the copies of a line                                   *)
(***************************************************************************)
\* What a loop program starts each step from.
LEMMA LoopFacts ==
    ASSUME TypeOK, Passes
    PROVE  /\ Processes \subseteq Nat /\ 0 \in Processes /\ NUM_CHILDREN \in Nat
           /\ 0 .. NUM_CHILDREN \subseteq Processes /\ i \in 0 .. NUM_CHILDREN
           /\ process \in [Processes -> Labels]
           /\ pending \in [Processes -> Seq(Lines)] /\ console \in Seq(Lines)
           /\ 0 \notin Children /\ Children \subseteq Processes /\ IsFiniteSet(Children)
           /\ \A k : Holders(k) \subseteq Processes /\ IsFiniteSet(Holders(k)) /\ 0 \in Holders(k)
<1>1. /\ Processes \subseteq Nat /\ 0 \in Processes /\ NUM_CHILDREN \in Nat
      /\ 0 .. NUM_CHILDREN \subseteq Processes
  BY ProcessAssumption, ChildrenAssumption
<1>2. 0 \notin Children /\ Children \subseteq 1 .. NUM_CHILDREN
  BY <1>1 DEF Children
<1>3. IsFiniteSet(Children) /\ Children \subseteq Processes
  <2>1. IsFiniteSet(1 .. NUM_CHILDREN)
    BY <1>1, FS_Interval
  <2>2. 1 .. NUM_CHILDREN \subseteq Processes
    BY <1>1
  <2> QED
    BY <1>2, <2>1, <2>2, FS_Subset
<1>4. \A k : Holders(k) \subseteq Processes /\ IsFiniteSet(Holders(k)) /\ 0 \in Holders(k)
  <2> SUFFICES ASSUME NEW k
               PROVE  Holders(k) \subseteq Processes /\ IsFiniteSet(Holders(k)) /\ 0 \in Holders(k)
    OBVIOUS
  <2>1. IsFiniteSet({p \in Children : p > k})
    BY <1>3, FS_Subset
  <2>2. IsFiniteSet({p \in Children : p > k} \cup {0})
    BY <2>1, FS_AddElement
  <2>3. Holders(k) = {p \in Children : p > k} \cup {0}
    BY DEF Holders
  <2> QED
    BY <1>1, <1>3, <2>2, <2>3
<1> QED
  BY <1>1, <1>2, <1>3, <1>4 DEF TypeOK

\* What printf() and exit() do to the number of lines of a kind.
LEMMA PrintCount ==
    ASSUME TypeOK, NEW p \in Processes, NEW line \in Lines, printf(p, line),
           NEW text, NEW author, NEW numbers
    PROVE  LET match == IF line.text = text /\ line.by = author /\ line.value \in numbers
                        THEN 1 ELSE 0
           IN  /\ LinesIn(console', text, author, numbers) =
                     LinesIn(console, text, author, numbers) + IF terminal THEN match ELSE 0
               /\ LinesIn(pending'[p], text, author, numbers) =
                     LinesIn(pending[p], text, author, numbers) + IF terminal THEN 0 ELSE match
               /\ \A q \in Processes \ {p} : pending'[q] = pending[q]
<1>1. /\ console \in Seq(Lines) /\ pending[p] \in Seq(Lines) /\ pending \in [Processes -> Seq(Lines)]
  BY DEF TypeOK
<1>2. /\ LinesIn(console, text, author, numbers) \in Nat
      /\ LinesIn(pending[p], text, author, numbers) \in Nat
  BY <1>1, LinesInType
<1>3. CASE terminal
  <2>1. console' = Append(console, line) /\ pending' = pending
    BY <1>3 DEF printf
  <2> QED
    BY <1>1, <1>2, <1>3, <2>1, LinesInAppend
<1>4. CASE ~ terminal
  <2>1. console' = console /\ pending' = [pending EXCEPT ![p] = Append(pending[p], line)]
    BY <1>4 DEF printf
  <2>2. pending'[p] = Append(pending[p], line) /\ \A q \in Processes \ {p} : pending'[q] = pending[q]
    BY <1>1, <2>1
  <2> QED
    BY <1>1, <1>2, <1>4, <2>1, <2>2, LinesInAppend
<1> QED
  BY <1>3, <1>4

LEMMA ExitCount ==
    ASSUME TypeOK, NEW p \in Processes, NEW code, exit(p, code),
           NEW text, NEW author, NEW numbers
    PROVE  /\ LinesIn(console', text, author, numbers) =
                 LinesIn(console, text, author, numbers) + LinesIn(pending[p], text, author, numbers)
           /\ LinesIn(pending'[p], text, author, numbers) = 0
           /\ \A q \in Processes \ {p} : pending'[q] = pending[q]
<1>1. /\ console \in Seq(Lines) /\ pending[p] \in Seq(Lines)
      /\ console' = console \o pending[p] /\ pending'[p] = <<>>
      /\ \A q \in Processes \ {p} : pending'[q] = pending[q]
  BY DEF TypeOK, exit
<1> QED
  BY <1>1, LinesInConcat, LinesInEmpty

\* On a terminal no process keeps a line.
LEMMA NothingPending ==
    ASSUME TypeOK, terminal
    PROVE  \A p \in Processes : \A text, author, numbers :
              LinesIn(pending[p], text, author, numbers) = 0
BY LinesInEmpty DEF TypeOK

\* The holders do not change unless a child is born.
LEMMA HoldersKept ==
    ASSUME \A p \in Processes : Born(p)' <=> Born(p)
    PROVE  Children' = Children /\ \A k : Holders(k)' = Holders(k)
<1>1. Children' = Children
  <2>1. 1 .. NUM_CHILDREN \subseteq Processes
    BY ChildrenAssumption
  <2> QED
    BY <2>1 DEF Children
<1> QED
  BY <1>1 DEF Holders

\* A line is accounted for by what is on the console and what is pending.
LEMMA AccountedKept ==
    ASSUME NEW text, NEW k, NEW printed \in BOOLEAN, Accounted(text, k, printed), Passes, TypeOK,
           terminal' = terminal,
           \A p \in Processes : /\ Born(p)' <=> Born(p)
                                /\ process'[p] = "ended" <=> process[p] = "ended",
           LinesIn(console', text, 0, {k}) = LinesIn(console, text, 0, {k}),
           \A p \in Processes :
              LinesIn(pending'[p], text, 0, {k}) = LinesIn(pending[p], text, 0, {k})
    PROVE  Accounted(text, k, printed)'
<1>1. Holders(k)' = Holders(k) /\ Holders(k) \subseteq Processes
  <2>1. \A p \in Processes : Born(p)' <=> Born(p)
    OBVIOUS
  <2>2. Holders(k)' = Holders(k)
    BY <2>1, HoldersKept
  <2> QED
    BY <2>2, LoopFacts
<1>2. {p \in Holders(k) : process[p] = "ended"}' = {p \in Holders(k) : process[p] = "ended"}
  BY <1>1
<1> QED
  BY <1>1, <1>2 DEF Accounted, Copies

\* What a fork() of main() changes.
LEMMA LaunchEffect ==
    ASSUME Passes, TypeOK, LaunchChild
    PROVE  LET child == i + 1
           IN  /\ i' = child /\ child \in Processes /\ child # 0 /\ child \in 1 .. NUM_CHILDREN
               /\ process[0] = "loop" /\ process[child] = "unborn" /\ child \notin Children
               /\ terminal' = terminal /\ console' = console /\ status' = status
               /\ process'[child] = "child" /\ process'[0] = "loop"
               /\ \A p \in Processes \ {child} : process'[p] = process[p]
               /\ pending'[child] = pending[0]
               /\ \A p \in Processes \ {child} : pending'[p] = pending[p]
<1> DEFINE child == i + 1
<1>1. /\ process[0] = "loop" /\ child \in Processes /\ child # 0 /\ child \in 1 .. NUM_CHILDREN
      /\ process' = [process EXCEPT ![0] = "loop", ![child] = "child"]
      /\ pending' = [pending EXCEPT ![child] = pending[0]]
      /\ i' = child /\ terminal' = terminal /\ console' = console /\ status' = status
      /\ i \in Nat /\ Processes \subseteq Nat /\ 0 \in Processes
      /\ process \in [Processes -> Labels] /\ pending \in [Processes -> Seq(Lines)]
  <2>1. /\ i \in 0 .. NUM_CHILDREN /\ NUM_CHILDREN \in Nat /\ 0 .. NUM_CHILDREN \subseteq Processes
        /\ Processes \subseteq Nat /\ 0 \in Processes
        /\ process \in [Processes -> Labels] /\ pending \in [Processes -> Seq(Lines)]
    BY LoopFacts
  <2>2. process[0] = "loop" /\ i < NUM_CHILDREN /\ i' = child /\ fork(0, i', "loop", "child")
    BY DEF LaunchChild
  <2>3. /\ process' = [process EXCEPT ![0] = "loop", ![child] = "child"]
        /\ pending' = [pending EXCEPT ![child] = pending[0]]
        /\ terminal' = terminal /\ console' = console /\ status' = status
    BY <2>2 DEF fork
  <2>4. child \in Processes /\ child # 0 /\ child \in 1 .. NUM_CHILDREN /\ i \in Nat
    BY <2>1, <2>2
  <2> QED
    BY <2>1, <2>2, <2>3, <2>4
<1>2. process[child] = "unborn" /\ child \notin Children
  BY <1>1 DEF Passes, Born, Children
<1>3. /\ process'[child] = "child" /\ process'[0] = "loop"
      /\ \A p \in Processes \ {child} : process'[p] = process[p]
      /\ pending'[child] = pending[0]
      /\ \A p \in Processes \ {child} : pending'[p] = pending[p]
  BY <1>1
<1> QED
  BY <1>1, <1>2, <1>3

\* A fork() hands the printed lines of main() to the child.
LEMMA AccountedFork ==
    ASSUME NEW text, NEW k \in Nat, NEW printed \in BOOLEAN, Accounted(text, k, printed), Passes,
           TypeOK, LaunchChild, printed => k <= i
    PROVE  Accounted(text, k, printed)'
<1> DEFINE child == i + 1
<1>1. /\ child \in Processes /\ child # 0 /\ child \in 1 .. NUM_CHILDREN
      /\ terminal' = terminal /\ console' = console
      /\ i \in Nat /\ Processes \subseteq Nat /\ 0 \in Processes
  BY LaunchEffect, LoopFacts
<1>2. process[child] = "unborn" /\ child \notin Children
  BY LaunchEffect
<1>3. /\ process[0] = "loop" /\ process'[child] = "child" /\ process'[0] = "loop"
      /\ \A p \in Processes \ {child} : process'[p] = process[p]
      /\ pending'[child] = pending[0]
      /\ \A p \in Processes \ {child} : pending'[p] = pending[p]
  BY LaunchEffect
<1>4. Children' = Children \cup {child}
  <2>1. 1 .. NUM_CHILDREN \subseteq Processes
    BY ChildrenAssumption
  <2> QED
    BY <1>1, <1>3, <2>1 DEF Children, Born
<1>5. Holders(k)' = IF child > k THEN Holders(k) \cup {child} ELSE Holders(k)
  BY <1>4 DEF Holders
<1>6. Holders(k) \subseteq Processes /\ child \notin Holders(k) /\ 0 \in Holders(k)
  BY <1>1, <1>2, LoopFacts DEF Holders
<1>7. {p \in Holders(k) : process[p] = "ended"}' = {p \in Holders(k) : process[p] = "ended"}
  BY <1>3, <1>5, <1>6
<1>8. Copies(text, 0, {k})' = Copies(text, 0, {k})
  BY <1>1 DEF Copies
<1>9. ASSUME NEW p \in Processes
      PROVE  LinesIn(pending'[p], text, 0, {k}) =
                IF printed /\ ~ terminal' /\ p \in Holders(k)' /\ process'[p] # "ended" THEN 1 ELSE 0
  <2>1. CASE p = child
    <3>1. LinesIn(pending'[p], text, 0, {k}) = IF printed /\ ~ terminal THEN 1 ELSE 0
      BY <1>1, <1>3, <1>6, <2>1 DEF Accounted
    <3>2. printed => child \in Holders(k)'
      BY <1>1, <1>5
    <3> QED
      BY <1>1, <1>3, <2>1, <3>1, <3>2
  <2>2. CASE p # child
    <3>1. p \in Holders(k)' <=> p \in Holders(k)
      BY <1>5, <2>2
    <3> QED
      BY <1>1, <1>3, <2>2, <3>1 DEF Accounted
  <2> QED
    BY <2>1, <2>2
<1> QED
  BY <1>1, <1>7, <1>8, <1>9 DEF Accounted

\* When main() prints a line nobody but main() holds it.
LEMMA AccountedPrint ==
    ASSUME NEW text, NEW k \in Nat, Accounted(text, k, FALSE), Passes, TypeOK, i <= k,
           Line(text, 0, k) \in Lines, printf(0, Line(text, 0, k)), process[0] # "ended",
           \A p \in Processes : /\ Born(p)' <=> Born(p)
                                /\ process'[p] = "ended" <=> process[p] = "ended"
    PROVE  Accounted(text, k, TRUE)'
<1>1. Holders(k)' = {0}
  <2>1. Holders(k)' = Holders(k)
    <3>1. \A p \in Processes : Born(p)' <=> Born(p)
      OBVIOUS
    <3> QED
      BY <3>1, HoldersKept
  <2>2. {p \in Children : p > k} = {}
    BY LoopFacts DEF Passes, Children
  <2> QED
    BY <2>1, <2>2 DEF Holders
<1>2. {p \in Holders(k) : process[p] = "ended"}' = {} /\ Cardinality({}) = 0 /\ 0 \in Processes
  BY <1>1, LoopFacts, FS_EmptySet
<1>3. /\ LinesIn(console', text, 0, {k}) = LinesIn(console, text, 0, {k}) + IF terminal THEN 1 ELSE 0
      /\ LinesIn(pending'[0], text, 0, {k}) = LinesIn(pending[0], text, 0, {k}) + IF terminal THEN 0 ELSE 1
      /\ \A q \in Processes \ {0} : pending'[q] = pending[q]
      /\ terminal' = terminal
  <2> DEFINE line == Line(text, 0, k)
  <2>1. line \in Lines /\ printf(0, line) /\ line.text = text /\ line.by = 0 /\ line.value \in {k}
    BY DEF Line
  <2> HIDE DEF line
  <2>2. terminal' = terminal
    BY <2>1 DEF printf
  <2> DEFINE match == IF line.text = text /\ line.by = 0 /\ line.value \in {k} THEN 1 ELSE 0
  <2>3. match = 1
    BY <2>1
  <2>4. /\ LinesIn(console', text, 0, {k}) =
             LinesIn(console, text, 0, {k}) + IF terminal THEN match ELSE 0
        /\ LinesIn(pending'[0], text, 0, {k}) =
             LinesIn(pending[0], text, 0, {k}) + IF terminal THEN 0 ELSE match
        /\ \A q \in Processes \ {0} : pending'[q] = pending[q]
    BY <1>2, <2>1, PrintCount
  <2> HIDE DEF match
  <2> QED
    BY <2>2, <2>3, <2>4
<1>4. LinesIn(console, text, 0, {k}) = 0 /\ \A q \in Processes : LinesIn(pending[q], text, 0, {k}) = 0
  BY DEF Accounted, Copies
<1>5. Copies(text, 0, {k})' = IF terminal THEN 1 ELSE 0
  BY <1>3, <1>4 DEF Copies
<1>6. \A q \in Processes :
         LinesIn(pending'[q], text, 0, {k}) =
            IF ~ terminal' /\ q \in Holders(k)' /\ process'[q] # "ended" THEN 1 ELSE 0
  <2> SUFFICES ASSUME NEW q \in Processes
               PROVE  LinesIn(pending'[q], text, 0, {k}) =
                         IF ~ terminal' /\ q \in Holders(k)' /\ process'[q] # "ended" THEN 1 ELSE 0
    OBVIOUS
  <2>1. CASE q = 0
    <3>1. LinesIn(pending[0], text, 0, {k}) = 0
      BY <1>2, <1>4
    <3>2. LinesIn(pending'[0], text, 0, {k}) =
             LinesIn(pending[0], text, 0, {k}) + IF terminal THEN 0 ELSE 1
      BY <1>3
    <3>3. LinesIn(pending'[0], text, 0, {k}) = IF terminal THEN 0 ELSE 1
      BY <3>1, <3>2
    <3>4. process'[0] # "ended" /\ 0 \in Holders(k)'
      BY <1>1, <1>2
    <3> QED
      BY <1>3, <2>1, <3>3, <3>4
  <2>2. CASE q # 0
    BY <1>1, <1>3, <1>4, <2>2
  <2> QED
    BY <2>1, <2>2
<1> QED
  BY <1>2, <1>3, <1>5, <1>6 DEF Accounted

\* Another line does not count.
LEMMA AccountedOther ==
    ASSUME NEW text, NEW k, NEW printed \in BOOLEAN, Accounted(text, k, printed), Passes, TypeOK,
           NEW p \in Processes, NEW line \in Lines, printf(p, line),
           line.text # text \/ line.by # 0 \/ line.value # k,
           \A q \in Processes : /\ Born(q)' <=> Born(q)
                                /\ process'[q] = "ended" <=> process[q] = "ended"
    PROVE  Accounted(text, k, printed)'
<1>1. terminal' = terminal
  BY DEF printf
<1> DEFINE numbers == {k}
           match == IF line.text = text /\ line.by = 0 /\ line.value \in numbers THEN 1 ELSE 0
<1>2. match = 0
  OBVIOUS
<1> HIDE DEF numbers
<1>3. LinesIn(console, text, 0, numbers) \in Nat /\ LinesIn(pending[p], text, 0, numbers) \in Nat
  BY LinesInType DEF TypeOK
<1>4. /\ LinesIn(console', text, 0, numbers) =
            LinesIn(console, text, 0, numbers) + IF terminal THEN match ELSE 0
      /\ LinesIn(pending'[p], text, 0, numbers) =
            LinesIn(pending[p], text, 0, numbers) + IF terminal THEN 0 ELSE match
      /\ \A q \in Processes \ {p} : pending'[q] = pending[q]
  BY PrintCount
<1> HIDE DEF match
<1>5. /\ LinesIn(console', text, 0, numbers) = LinesIn(console, text, 0, numbers)
      /\ \A q \in Processes :
            LinesIn(pending'[q], text, 0, numbers) = LinesIn(pending[q], text, 0, numbers)
  BY <1>2, <1>3, <1>4
<1> QED
  BY <1>1, <1>5, AccountedKept DEF numbers

\* A process that ends hands its copy over to the console.
LEMMA AccountedExit ==
    ASSUME NEW text, NEW k, NEW printed \in BOOLEAN, Accounted(text, k, printed), Passes, TypeOK,
           NEW p \in Processes, NEW code, exit(p, code), process[p] \in Live
    PROVE  Accounted(text, k, printed)'
<1>1. /\ process'[p] = "ended" /\ process[p] # "ended" /\ terminal' = terminal
      /\ \A q \in Processes \ {p} : process'[q] = process[q]
      /\ \A q \in Processes : Born(q)' <=> Born(q)
  BY LoopFacts DEF exit, Goto, Live, Labels, Born
<1>2. Holders(k)' = Holders(k) /\ Holders(k) \subseteq Processes /\ IsFiniteSet(Holders(k))
  BY <1>1, HoldersKept, LoopFacts
<1> DEFINE Gone == {q \in Holders(k) : process[q] = "ended"}
<1>3. /\ LinesIn(console', text, 0, {k}) = LinesIn(console, text, 0, {k}) + LinesIn(pending[p], text, 0, {k})
      /\ LinesIn(pending'[p], text, 0, {k}) = 0
      /\ \A q \in Processes \ {p} : pending'[q] = pending[q]
  BY ExitCount
<1>4. LinesIn(pending[p], text, 0, {k}) = IF printed /\ ~ terminal /\ p \in Holders(k) THEN 1 ELSE 0
  BY <1>1 DEF Accounted
<1>5. Gone' = IF p \in Holders(k) THEN Gone \cup {p} ELSE Gone
  BY <1>1, <1>2
<1>6. IsFiniteSet(Gone) /\ p \notin Gone
  BY <1>1, <1>2, FS_Subset
<1> HIDE DEF Gone
<1>7. Cardinality(Gone') = Cardinality(Gone) + (IF p \in Holders(k) THEN 1 ELSE 0)
  <2>1. Cardinality(Gone) \in Nat /\ Cardinality(Gone \cup {p}) = Cardinality(Gone) + 1
    BY <1>6, FS_AddElement, FS_CardinalityType
  <2> QED
    BY <1>5, <2>1
<1>8. Cardinality(Gone)' = Cardinality(Gone') /\ Cardinality(Gone) \in Nat
  BY <1>6, FS_CardinalityType
<1>9. LinesIn(console, text, 0, {k}) =
         IF ~ printed THEN 0 ELSE IF terminal THEN 1 ELSE Cardinality(Gone)
  BY DEF Accounted, Copies, Gone
<1>10. LinesIn(console', text, 0, {k}) =
         IF ~ printed THEN 0 ELSE IF terminal THEN 1 ELSE Cardinality(Gone')
  BY <1>3, <1>4, <1>7, <1>8, <1>9
<1>11. \A q \in Processes :
         LinesIn(pending'[q], text, 0, {k}) =
            IF printed /\ ~ terminal' /\ q \in Holders(k)' /\ process'[q] # "ended" THEN 1 ELSE 0
  BY <1>1, <1>2, <1>3 DEF Accounted
<1> QED
  BY <1>1, <1>10, <1>11 DEF Accounted, Copies, Gone

\* The line of a child is accounted for as long as the child does nothing.
LEMMA LaunchKept ==
    ASSUME NEW c \in Processes, LaunchAccounted(c, Timing), program' = program,
           terminal' = terminal,
           process'[c] = "ended" <=> process[c] = "ended",
           process'[c] = "exit" <=> process[c] = "exit",
           LinesIn(console', "launched", c, {0, Adopter}) =
              LinesIn(console, "launched", c, {0, Adopter}),
           \A p \in Processes :
              LinesIn(pending'[p], "launched", c, {0, Adopter}) =
                 LinesIn(pending[p], "launched", c, {0, Adopter})
    PROVE  LaunchAccounted(c, Timing)'
BY DEF LaunchAccounted, Copies, Timing

\* A fork() copies no such line: main() has none.
LEMMA LaunchFork ==
    ASSUME TypeOK, Passes, LaunchChild, program' = program,
           NEW c \in 1 .. NUM_CHILDREN, LaunchAccounted(c, Timing)
    PROVE  LaunchAccounted(c, Timing)'
<1> DEFINE child == i + 1
<1>1. c \in Processes /\ c # 0
  BY ChildrenAssumption
<1>2. /\ child \in Processes /\ child # 0 /\ 0 \in Processes
      /\ process[child] = "unborn" /\ terminal' = terminal /\ console' = console
  BY LaunchEffect, LoopFacts
<1>3. /\ process'[child] = "child"
      /\ \A p \in Processes \ {child} : process'[p] = process[p]
      /\ pending'[child] = pending[0]
      /\ \A p \in Processes \ {child} : pending'[p] = pending[p]
  BY LaunchEffect
<1>4. \A p \in Processes :
         LinesIn(pending'[p], "launched", c, {0, Adopter}) =
            LinesIn(pending[p], "launched", c, {0, Adopter})
  <2>1. LinesIn(pending[0], "launched", c, {0, Adopter}) = 0
    BY <1>1, <1>2 DEF LaunchAccounted
  <2>2. LinesIn(pending[child], "launched", c, {0, Adopter}) = 0
    BY <1>1, <1>2 DEF LaunchAccounted
  <2> QED
    BY <1>3, <2>1, <2>2
<1>5. /\ process'[c] = "ended" <=> process[c] = "ended"
      /\ process'[c] = "exit" <=> process[c] = "exit"
  BY <1>1, <1>2, <1>3
<1> QED
  BY <1>1, <1>2, <1>4, <1>5, LaunchKept

\* A line of main(), or of another child, is not the line of this child.
LEMMA LaunchPrint ==
    ASSUME TypeOK, NEW p \in Processes, NEW line \in Lines, printf(p, line), program' = program,
           NEW c \in Processes, LaunchAccounted(c, Timing),
           line.text # "launched" \/ line.by # c,
           process'[c] = "ended" <=> process[c] = "ended",
           process'[c] = "exit" <=> process[c] = "exit"
    PROVE  LaunchAccounted(c, Timing)'
<1>1. terminal' = terminal
  BY DEF printf
<1>2. /\ LinesIn(console, "launched", c, {0, Adopter}) \in Nat
      /\ LinesIn(pending[p], "launched", c, {0, Adopter}) \in Nat
  BY LinesInType DEF TypeOK
<1> DEFINE match == IF line.text = "launched" /\ line.by = c /\ line.value \in {0, Adopter}
                    THEN 1 ELSE 0
<1>3. match = 0
  OBVIOUS
<1>4. /\ LinesIn(console', "launched", c, {0, Adopter}) =
            LinesIn(console, "launched", c, {0, Adopter}) + IF terminal THEN match ELSE 0
      /\ LinesIn(pending'[p], "launched", c, {0, Adopter}) =
            LinesIn(pending[p], "launched", c, {0, Adopter}) + IF terminal THEN 0 ELSE match
      /\ \A q \in Processes \ {p} : pending'[q] = pending[q]
  BY PrintCount
<1> HIDE DEF match
<1>5. /\ LinesIn(console', "launched", c, {0, Adopter}) =
            LinesIn(console, "launched", c, {0, Adopter})
      /\ LinesIn(pending'[p], "launched", c, {0, Adopter}) =
            LinesIn(pending[p], "launched", c, {0, Adopter})
  BY <1>2, <1>3, <1>4
<1>6. \A q \in Processes :
         LinesIn(pending'[q], "launched", c, {0, Adopter}) =
            LinesIn(pending[q], "launched", c, {0, Adopter})
  BY <1>4, <1>5
<1> QED
  BY <1>1, <1>5, <1>6, LaunchKept

\* The child prints.
LEMMA LaunchPrinted ==
    ASSUME TypeOK, NEW c \in Processes, ~ Timing, program' = program,
           NEW number \in {0, Adopter}, printf(c, Line("launched", c, number)),
           LaunchAccounted(c, Timing), process[c] = "child", process'[c] = "exit"
    PROVE  LaunchAccounted(c, Timing)'
<1> DEFINE line == Line("launched", c, number)
<1>1. /\ line \in Lines /\ printf(c, line) /\ line.text = "launched" /\ line.by = c
      /\ line.value \in {0, Adopter}
  BY DEF Line, Lines, Adopter
<1> HIDE DEF line
<1>2. terminal' = terminal /\ ~ Timing'
  BY <1>1 DEF printf, Timing
<1>3. /\ LinesIn(console', "launched", c, {0, Adopter}) =
             LinesIn(console, "launched", c, {0, Adopter}) + IF terminal THEN 1 ELSE 0
      /\ LinesIn(pending'[c], "launched", c, {0, Adopter}) =
             LinesIn(pending[c], "launched", c, {0, Adopter}) + IF terminal THEN 0 ELSE 1
      /\ \A q \in Processes \ {c} : pending'[q] = pending[q]
  BY <1>1, PrintCount
<1>4. /\ LinesIn(console, "launched", c, {0, Adopter}) = 0
      /\ \A q \in Processes : LinesIn(pending[q], "launched", c, {0, Adopter}) = 0
  BY DEF LaunchAccounted, Copies
<1>5. /\ LinesIn(console', "launched", c, {0, Adopter}) = IF terminal THEN 1 ELSE 0
      /\ LinesIn(pending'[c], "launched", c, {0, Adopter}) = IF terminal THEN 0 ELSE 1
      /\ \A q \in Processes \ {c} : LinesIn(pending'[q], "launched", c, {0, Adopter}) = 0
  BY <1>3, <1>4
<1> QED
  BY <1>2, <1>5 DEF LaunchAccounted, Copies

\* A process ends: the child itself, after it has printed, or another one.
LEMMA LaunchExit ==
    ASSUME TypeOK, NEW p \in Processes, NEW code, exit(p, code), program' = program,
           process[p] \in Live,
           NEW c \in Processes, LaunchAccounted(c, Timing),
           p = c => Timing \/ process[p] = "exit"
    PROVE  LaunchAccounted(c, Timing)'
<1>1. /\ process'[p] = "ended" /\ process[p] # "ended" /\ terminal' = terminal
      /\ \A q \in Processes \ {p} : process'[q] = process[q]
      /\ Timing' <=> Timing
  BY DEF exit, Goto, Live, Labels, TypeOK, Timing
<1>2. /\ LinesIn(console', "launched", c, {0, Adopter}) =
            LinesIn(console, "launched", c, {0, Adopter})
            + LinesIn(pending[p], "launched", c, {0, Adopter})
      /\ LinesIn(pending'[p], "launched", c, {0, Adopter}) = 0
      /\ \A q \in Processes \ {p} : pending'[q] = pending[q]
  BY ExitCount
<1>3. \A q \in Processes \ {p} : LinesIn(pending'[q], "launched", c, {0, Adopter}) =
            IF ~ Timing' /\ ~ terminal' /\ q = c /\ process'[c] = "exit" THEN 1 ELSE 0
  BY <1>1, <1>2 DEF LaunchAccounted
<1>4. CASE p = c
  BY <1>1, <1>2, <1>3, <1>4 DEF LaunchAccounted, Copies
<1>5. CASE p # c
  BY <1>1, <1>2, <1>3, <1>5 DEF LaunchAccounted, Copies
<1> QED
  BY <1>4, <1>5

-----------------------------------------------------------------------------
(***************************************************************************)
(* The steps of the programs that loop                                     *)
(***************************************************************************)
\* The four parts of the invariant that count lines, one by one.
HeaderAccounted   == Accounted("header", 0, process[0] # "start")
ErrorsAccounted   == \A k \in 1 .. NUM_CHILDREN \ Children : Accounted("error", k, k <= i)
ElapsedAccounted  ==
    Timing => Accounted("elapsed", NUM_CHILDREN, process[0] \in {"exit", "ended"})
LaunchesAccounted == \A p \in 1 .. NUM_CHILDREN : LaunchAccounted(p, Timing)

LEMMA LoopParts ==
    LoopInv(Timing) <=>
        Passes /\ HeaderAccounted /\ ErrorsAccounted /\ ElapsedAccounted /\ LaunchesAccounted
BY DEF LoopInv, HeaderAccounted, ErrorsAccounted, ElapsedAccounted, LaunchesAccounted

\* main() prints the header before it forks.
LEMMA HeaderStep ==
    ASSUME TypeOK, LoopInv(Timing), PrintHeader, UNCHANGED <<program, arg>>
    PROVE  TypeOK' /\ LoopInv(Timing)'
<1>1. /\ Passes /\ HeaderAccounted /\ ErrorsAccounted /\ ElapsedAccounted /\ LaunchesAccounted
  BY LoopParts
<1>2. /\ process[0] = "start" /\ i = 0 /\ i' = i /\ printf(0, Header)
      /\ process' = [process EXCEPT ![0] = "loop"] /\ 0 \in Processes
      /\ process \in [Processes -> Labels] /\ terminal' = terminal
      /\ program' = program /\ arg' = arg
  BY <1>1, LoopFacts DEF PrintHeader, Goto, Passes, printf
<1>3. Header \in Lines /\ Header = Line("header", 0, 0) /\ Header.text = "header" /\ Header.by = 0
  BY <1>2 DEF Header, Line, Lines
<1>4. TypeOK'
  BY <1>2, <1>3, PrintType DEF Live, Labels, TypeOK
<1>5. /\ process'[0] = "loop" /\ \A q \in Processes \ {0} : process'[q] = process[q]
      /\ \A q \in Processes : /\ Born(q)' <=> Born(q)
                              /\ process'[q] = "ended" <=> process[q] = "ended"
  BY <1>2 DEF Born
<1>6. Children' = Children
  BY <1>5, HoldersKept
<1>7. Passes'
  BY <1>1, <1>2, <1>5 DEF Passes
<1>8. HeaderAccounted'
  <2>1. Accounted("header", 0, FALSE)
    BY <1>1, <1>2 DEF HeaderAccounted
  <2>2. /\ printf(0, Line("header", 0, 0)) /\ Line("header", 0, 0) \in Lines
        /\ process[0] # "ended" /\ i <= 0 /\ 0 \in Nat
    BY <1>2, <1>3
  <2>3. Accounted("header", 0, TRUE)'
    BY <1>1, <1>5, <2>1, <2>2, AccountedPrint
  <2> QED
    BY <1>5, <2>3 DEF HeaderAccounted, Accounted
<1>9. ErrorsAccounted'
  <2> SUFFICES ASSUME NEW k \in 1 .. NUM_CHILDREN \ Children PROVE Accounted("error", k, k <= i)'
    BY <1>6 DEF ErrorsAccounted
  <2>1. ~ (k <= i) /\ ~ (k <= i')
    BY <1>2, ChildrenAssumption
  <2>2. Accounted("error", k, FALSE)
    BY <1>1, <2>1 DEF ErrorsAccounted, Accounted
  <2>3. Accounted("error", k, FALSE)'
    BY <1>1, <1>2, <1>3, <1>5, <2>2, AccountedOther
  <2> QED
    BY <2>1, <2>3 DEF Accounted
<1>10. ElapsedAccounted'
  <2> SUFFICES ASSUME Timing
               PROVE  Accounted("elapsed", NUM_CHILDREN, process[0] \in {"exit", "ended"})'
    BY <1>2 DEF ElapsedAccounted, Timing
  <2>1. Accounted("elapsed", NUM_CHILDREN, FALSE)
    BY <1>1, <1>2 DEF ElapsedAccounted, Accounted
  <2>2. Accounted("elapsed", NUM_CHILDREN, FALSE)'
    BY <1>1, <1>2, <1>3, <1>5, <2>1, AccountedOther
  <2> QED
    BY <1>5, <2>2 DEF Accounted
<1>11. LaunchesAccounted'
  <2> SUFFICES ASSUME NEW c \in 1 .. NUM_CHILDREN PROVE LaunchAccounted(c, Timing)'
    BY DEF LaunchesAccounted
  <2>1. c \in Processes /\ c # 0
    BY ChildrenAssumption
  <2>2. LaunchAccounted(c, Timing)
    BY <1>1 DEF LaunchesAccounted
  <2> QED
    BY <1>2, <1>3, <1>5, <2>1, <2>2, LaunchPrint
<1>12. LoopInv(Timing)'
  BY <1>7, <1>8, <1>9, <1>10, <1>11
     DEF LoopInv, HeaderAccounted, ErrorsAccounted, ElapsedAccounted, LaunchesAccounted
<1> QED
  BY <1>4, <1>12

\* main() forks its next child.
LEMMA LaunchStep ==
    ASSUME TypeOK, LoopInv(Timing), LaunchChild, UNCHANGED <<program, arg>>
    PROVE  TypeOK' /\ LoopInv(Timing)'
<1> DEFINE child == i + 1
<1>1. /\ Passes /\ HeaderAccounted /\ ErrorsAccounted /\ ElapsedAccounted /\ LaunchesAccounted
  BY LoopParts
<1>2. /\ i' = child /\ child \in Processes /\ child # 0 /\ child \in 1 .. NUM_CHILDREN
      /\ process[0] = "loop" /\ process'[child] = "child" /\ process'[0] = "loop"
      /\ \A p \in Processes \ {child} : process'[p] = process[p]
      /\ child \notin Children
  BY <1>1, LaunchEffect
<1>3. i \in Nat /\ i < NUM_CHILDREN /\ NUM_CHILDREN \in Nat /\ 0 \in Processes
      /\ Processes \subseteq Nat
  BY <1>1, LoopFacts DEF LaunchChild
<1>4. TypeOK'
  <2>1. fork(0, child, "loop", "child") /\ i' \in 0 .. NUM_CHILDREN
    BY <1>2, <1>3 DEF LaunchChild
  <2> QED
    BY <1>2, <1>3, <2>1, ForkType DEF Live, Labels
<1>5. Children' = Children \cup {child}
  <2>1. 1 .. NUM_CHILDREN \subseteq Processes
    BY ChildrenAssumption
  <2> QED
    BY <1>2, <2>1 DEF Children, Born
<1>6. Passes'
  <2>1. ASSUME NEW p \in Processes \ {0}
        PROVE  /\ process'[p] \in {"unborn", "child", "exit", "ended"}
               /\ Born(p)' => p <= i'
    <3>1. CASE p = child
      BY <1>2, <1>3, <3>1
    <3>2. CASE p # child
      BY <1>1, <1>2, <1>3, <3>2 DEF Passes, Born
    <3> QED
      BY <3>1, <3>2
  <2> QED
    BY <1>2, <2>1 DEF Passes
<1>7. HeaderAccounted'
  <2>1. Accounted("header", 0, TRUE)
    BY <1>1, <1>2 DEF HeaderAccounted, Accounted
  <2>2. 0 \in Nat /\ TRUE \in BOOLEAN /\ 0 <= i
    BY <1>3
  <2>3. Accounted("header", 0, TRUE)'
    BY <1>1, <2>1, <2>2, AccountedFork
  <2> QED
    BY <1>2, <2>3 DEF HeaderAccounted, Accounted
<1>8. ErrorsAccounted'
  <2> SUFFICES ASSUME NEW k \in 1 .. NUM_CHILDREN \ Children, k # child
               PROVE  Accounted("error", k, k <= i)'
    BY <1>5 DEF ErrorsAccounted
  <2>1. k \in Nat /\ (k <= i' <=> k <= i)
    BY <1>2, <1>3
  <2>2. CASE k <= i
    <3>1. Accounted("error", k, TRUE)
      BY <1>1, <2>2 DEF ErrorsAccounted, Accounted
    <3>2. Accounted("error", k, TRUE)'
      BY <1>1, <2>1, <2>2, <3>1, AccountedFork
    <3> QED
      BY <2>1, <2>2, <3>2 DEF Accounted
  <2>3. CASE ~ (k <= i)
    <3>1. Accounted("error", k, FALSE)
      BY <1>1, <2>3 DEF ErrorsAccounted, Accounted
    <3>2. Accounted("error", k, FALSE)'
      BY <1>1, <2>1, <2>3, <3>1, AccountedFork
    <3> QED
      BY <2>1, <2>3, <3>2 DEF Accounted
  <2> QED
    BY <2>2, <2>3
<1>9. ElapsedAccounted'
  <2> SUFFICES ASSUME Timing
               PROVE  Accounted("elapsed", NUM_CHILDREN, process[0] \in {"exit", "ended"})'
    BY DEF ElapsedAccounted, Timing
  <2>1. Accounted("elapsed", NUM_CHILDREN, FALSE)
    BY <1>1, <1>2 DEF ElapsedAccounted, Accounted
  <2>2. Accounted("elapsed", NUM_CHILDREN, FALSE)'
    BY <1>1, <1>3, <2>1, AccountedFork
  <2> QED
    BY <1>2, <2>2 DEF Accounted
<1>10. LaunchesAccounted'
  BY <1>1, LaunchFork DEF LaunchesAccounted
<1>11. LoopInv(Timing)'
  BY <1>6, <1>7, <1>8, <1>9, <1>10
     DEF LoopInv, HeaderAccounted, ErrorsAccounted, ElapsedAccounted, LaunchesAccounted
<1> QED
  BY <1>4, <1>11

\* fork() fails, and main() prints that.
LEMMA LaunchFailsStep ==
    ASSUME TypeOK, LoopInv(Timing), LaunchFails, UNCHANGED <<program, arg>>
    PROVE  TypeOK' /\ LoopInv(Timing)'
<1> DEFINE next == i + 1
<1>1. /\ Passes /\ HeaderAccounted /\ ErrorsAccounted /\ ElapsedAccounted /\ LaunchesAccounted
  BY LoopParts
<1>2. /\ process[0] = "loop" /\ i' = next /\ process' = process /\ printf(0, Error(next))
      /\ i \in Nat /\ i < NUM_CHILDREN /\ NUM_CHILDREN \in Nat /\ 0 \in Processes
      /\ Processes \subseteq Nat /\ process \in [Processes -> Labels]
  BY <1>1, LoopFacts DEF LaunchFails
<1>3. /\ next \in 1 .. NUM_CHILDREN /\ next \in Nat /\ next \in Processes
  BY <1>2, ChildrenAssumption
<1> HIDE DEF next
<1>4. /\ Error(next) \in Lines /\ Error(next) = Line("error", 0, next)
      /\ Error(next).text = "error" /\ Error(next).by = 0 /\ Error(next).value = next
  BY <1>2, <1>3 DEF Error, Line, Lines
<1>5. TypeOK'
  <2>1. process' = [process EXCEPT ![0] = "loop"] /\ i' \in 0 .. NUM_CHILDREN
    BY <1>2, <1>3
  <2> QED
    BY <1>2, <1>4, <2>1, PrintType DEF Live, Labels
<1>6. \A q \in Processes : /\ Born(q)' <=> Born(q)
                           /\ process'[q] = "ended" <=> process[q] = "ended"
  BY <1>2 DEF Born
<1>7. Children' = Children
  BY <1>6, HoldersKept
<1>8. Passes'
  BY <1>1, <1>2 DEF Passes, Born, next
<1>9. HeaderAccounted'
  <2>1. Accounted("header", 0, TRUE)
    BY <1>1, <1>2 DEF HeaderAccounted, Accounted
  <2>2. Accounted("header", 0, TRUE)'
    BY <1>1, <1>2, <1>4, <1>6, <2>1, AccountedOther
  <2> QED
    BY <1>2, <2>2 DEF HeaderAccounted, Accounted
<1>10. ErrorsAccounted'
  <2> SUFFICES ASSUME NEW k \in 1 .. NUM_CHILDREN \ Children PROVE Accounted("error", k, k <= i)'
    BY <1>7 DEF ErrorsAccounted
  <2>1. k \in Nat /\ (k # next => (k <= i' <=> k <= i)) /\ ~ (next <= i) /\ next <= i' /\ i <= next
    BY <1>2, <1>3 DEF next
  <2>2. CASE k = next
    <3>1. Accounted("error", k, FALSE)
      BY <1>1, <2>1, <2>2 DEF ErrorsAccounted, Accounted
    <3>2. /\ printf(0, Line("error", 0, k)) /\ Line("error", 0, k) \in Lines
          /\ process[0] # "ended" /\ i <= k /\ k \in Nat
      BY <1>2, <1>4, <2>1, <2>2
    <3>3. Accounted("error", k, TRUE)'
      BY <1>1, <1>6, <3>1, <3>2, AccountedPrint
    <3>4. k <= i'
      BY <2>1, <2>2
    <3> QED
      BY <3>3, <3>4 DEF Accounted
  <2>3. CASE k # next /\ k <= i
    <3>1. Accounted("error", k, TRUE)
      BY <1>1, <2>3 DEF ErrorsAccounted, Accounted
    <3>2. Accounted("error", k, TRUE)'
      BY <1>1, <1>2, <1>4, <1>6, <2>3, <3>1, AccountedOther
    <3> QED
      BY <2>1, <2>3, <3>2 DEF Accounted
  <2>4. CASE k # next /\ ~ (k <= i)
    <3>1. Accounted("error", k, FALSE)
      BY <1>1, <2>4 DEF ErrorsAccounted, Accounted
    <3>2. Accounted("error", k, FALSE)'
      BY <1>1, <1>2, <1>4, <1>6, <2>4, <3>1, AccountedOther
    <3> QED
      BY <2>1, <2>4, <3>2 DEF Accounted
  <2> QED
    BY <2>2, <2>3, <2>4
<1>11. ElapsedAccounted'
  <2> SUFFICES ASSUME Timing
               PROVE  Accounted("elapsed", NUM_CHILDREN, process[0] \in {"exit", "ended"})'
    BY DEF ElapsedAccounted, Timing
  <2>1. Accounted("elapsed", NUM_CHILDREN, FALSE)
    BY <1>1, <1>2 DEF ElapsedAccounted, Accounted
  <2>2. Accounted("elapsed", NUM_CHILDREN, FALSE)'
    BY <1>1, <1>2, <1>4, <1>6, <2>1, AccountedOther
  <2> QED
    BY <1>2, <2>2 DEF Accounted
<1>12. LaunchesAccounted'
  <2> SUFFICES ASSUME NEW c \in 1 .. NUM_CHILDREN PROVE LaunchAccounted(c, Timing)'
    BY DEF LaunchesAccounted
  <2>1. c \in Processes
    BY ChildrenAssumption
  <2>2. LaunchAccounted(c, Timing)
    BY <1>1 DEF LaunchesAccounted
  <2> QED
    BY <1>2, <1>4, <2>1, <2>2, LaunchPrint
<1>13. LoopInv(Timing)'
  BY <1>8, <1>9, <1>10, <1>11, <1>12
     DEF LoopInv, HeaderAccounted, ErrorsAccounted, ElapsedAccounted, LaunchesAccounted
<1> QED
  BY <1>5, <1>13

\* A process that neither forks nor ends: what is not about its line stays.
LEMMA PrintKeeps ==
    ASSUME TypeOK, LoopInv(Timing), NEW p \in Processes, NEW next \in Live, process[p] \in Live,
           Goto(p, next), p = 0 => process[p] = "loop" /\ next = "exit",
           p # 0 => process[p] = "child" /\ next = "exit",
           NEW line \in Lines, Silent \/ printf(p, line), line.text \notin {"header", "error"},
           UNCHANGED <<program, arg, i>>
    PROVE  /\ HeaderAccounted' /\ ErrorsAccounted'
           /\ \A q \in Processes : Born(q)' <=> Born(q)
           /\ \A q \in Processes : process'[q] = "ended" <=> process[q] = "ended"
           /\ process'[p] = next /\ \A q \in Processes \ {p} : process'[q] = process[q]
           /\ terminal' = terminal
<1>1. /\ Passes /\ HeaderAccounted /\ ErrorsAccounted /\ TypeOK
      /\ process \in [Processes -> Labels] /\ 0 \in Processes
  BY LoopParts, LoopFacts
<1>2. /\ process'[p] = next /\ \A q \in Processes \ {p} : process'[q] = process[q]
      /\ terminal' = terminal /\ i' = i
  BY <1>1 DEF Goto, printf, Silent
<1>3. \A q \in Processes : /\ Born(q)' <=> Born(q)
                           /\ process'[q] = "ended" <=> process[q] = "ended"
  BY <1>1, <1>2 DEF Born, Live
<1>4. ASSUME NEW text \in {"header", "error"}, NEW k, NEW printed \in BOOLEAN,
             Accounted(text, k, printed)
      PROVE  Accounted(text, k, printed)'
  <2>1. CASE Silent
    <3>1. UNCHANGED <<console, pending>>
      BY <2>1 DEF Silent
    <3> QED
      BY <1>1, <1>2, <1>3, <1>4, <3>1, AccountedKept
  <2>2. CASE printf(p, line)
    <3>1. line.text # text
      BY <1>4
    <3> QED
      BY <1>1, <1>3, <1>4, <2>2, <3>1, AccountedOther
  <2> QED
    BY <2>1, <2>2
<1>5. HeaderAccounted'
  <2>1. process'[0] # "start" <=> process[0] # "start"
    BY <1>1, <1>2
  <2>2. CASE process[0] # "start"
    <3>1. Accounted("header", 0, TRUE)
      BY <1>1, <2>2 DEF HeaderAccounted, Accounted
    <3>2. Accounted("header", 0, TRUE)'
      BY <1>4, <3>1
    <3> QED
      BY <2>1, <2>2, <3>2 DEF HeaderAccounted, Accounted
  <2>3. CASE process[0] = "start"
    <3>1. Accounted("header", 0, FALSE)
      BY <1>1, <2>3 DEF HeaderAccounted, Accounted
    <3>2. Accounted("header", 0, FALSE)'
      BY <1>4, <3>1
    <3> QED
      BY <2>1, <2>3, <3>2 DEF HeaderAccounted, Accounted
  <2> QED
    BY <2>2, <2>3
<1>6. ErrorsAccounted'
  <2>1. Children' = Children
    BY <1>3, HoldersKept
  <2> SUFFICES ASSUME NEW k \in 1 .. NUM_CHILDREN \ Children PROVE Accounted("error", k, k <= i)'
    BY <2>1 DEF ErrorsAccounted
  <2>2. CASE k <= i
    <3>1. Accounted("error", k, TRUE)
      BY <1>1, <2>2 DEF ErrorsAccounted, Accounted
    <3>2. Accounted("error", k, TRUE)'
      BY <1>4, <3>1
    <3> QED
      BY <1>2, <2>2, <3>2 DEF Accounted
  <2>3. CASE ~ (k <= i)
    <3>1. Accounted("error", k, FALSE)
      BY <1>1, <2>3 DEF ErrorsAccounted, Accounted
    <3>2. Accounted("error", k, FALSE)'
      BY <1>4, <3>1
    <3> QED
      BY <1>2, <2>3, <3>2 DEF Accounted
  <2> QED
    BY <2>2, <2>3
<1> QED
  BY <1>2, <1>3, <1>5, <1>6

\* main() leaves its loop; the timing program prints what the clock says.
LEMMA LoopEndsStep ==
    ASSUME TypeOK, LoopInv(Timing), LoopEnds(Timing), UNCHANGED <<program, arg>>
    PROVE  TypeOK' /\ LoopInv(Timing)'
<1>1. /\ Passes /\ HeaderAccounted /\ ErrorsAccounted /\ ElapsedAccounted /\ LaunchesAccounted
  BY LoopParts
<1>2. /\ process[0] = "loop" /\ i = NUM_CHILDREN /\ i' = i /\ Goto(0, "exit")
      /\ IF Timing THEN printf(0, Elapsed) ELSE Silent
      /\ 0 \in Processes /\ NUM_CHILDREN \in Nat /\ process[0] \in Live /\ "exit" \in Live
      /\ i' \in 0 .. NUM_CHILDREN
  BY <1>1, LoopFacts DEF LoopEnds, Live, Labels
<1>3. /\ Elapsed \in Lines /\ Elapsed = Line("elapsed", 0, NUM_CHILDREN)
      /\ Elapsed.text = "elapsed" /\ Elapsed.by = 0
  BY <1>2 DEF Elapsed, Line, Lines
<1>4. TypeOK'
  BY <1>2, <1>3, PrintType, SilentType DEF Goto
<1>5. /\ HeaderAccounted' /\ ErrorsAccounted'
      /\ \A q \in Processes : Born(q)' <=> Born(q)
      /\ \A q \in Processes : process'[q] = "ended" <=> process[q] = "ended"
      /\ process'[0] = "exit" /\ \A q \in Processes \ {0} : process'[q] = process[q]
      /\ terminal' = terminal
  BY <1>2, <1>3, PrintKeeps
<1>6. Passes'
  BY <1>1, <1>2, <1>5 DEF Passes
<1>7. ElapsedAccounted'
  <2> SUFFICES ASSUME Timing
               PROVE  Accounted("elapsed", NUM_CHILDREN, process[0] \in {"exit", "ended"})'
    BY DEF ElapsedAccounted, Timing
  <2>1. Accounted("elapsed", NUM_CHILDREN, FALSE)
    BY <1>1, <1>2 DEF ElapsedAccounted, Accounted
  <2>2. /\ printf(0, Line("elapsed", 0, NUM_CHILDREN)) /\ Line("elapsed", 0, NUM_CHILDREN) \in Lines
        /\ process[0] # "ended" /\ i <= NUM_CHILDREN
    BY <1>2, <1>3
  <2>3. Accounted("elapsed", NUM_CHILDREN, TRUE)'
    BY <1>1, <1>2, <1>5, <2>1, <2>2, AccountedPrint
  <2> QED
    BY <1>5, <2>3 DEF Accounted
<1>8. LaunchesAccounted'
  <2> SUFFICES ASSUME NEW c \in 1 .. NUM_CHILDREN PROVE LaunchAccounted(c, Timing)'
    BY DEF LaunchesAccounted
  <2>1. c \in Processes /\ c # 0 /\ process'[c] = process[c]
    BY <1>5, ChildrenAssumption
  <2>2. LaunchAccounted(c, Timing)
    BY <1>1 DEF LaunchesAccounted
  <2>3. CASE Timing
    BY <1>2, <1>3, <2>1, <2>2, <2>3, LaunchPrint
  <2>4. CASE ~ Timing
    <3>1. UNCHANGED <<console, pending>>
      BY <1>2, <2>4 DEF Silent
    <3> QED
      BY <1>5, <2>1, <2>2, <3>1, LaunchKept
  <2> QED
    BY <2>3, <2>4
<1>9. LoopInv(Timing)'
  BY <1>5, <1>6, <1>7, <1>8
     DEF LoopInv, HeaderAccounted, ErrorsAccounted, ElapsedAccounted, LaunchesAccounted
<1> QED
  BY <1>4, <1>9

\* A child of the scheduling program prints the name of its parent.
LEMMA ChildPrintsStep ==
    ASSUME TypeOK, LoopInv(Timing), NEW p \in Processes, p # 0, ~ Timing, ChildPrints(p),
           UNCHANGED <<program, arg>>
    PROVE  TypeOK' /\ LoopInv(Timing)'
<1> DEFINE line == Line("launched", p, getppid(0))
<1>1. /\ Passes /\ HeaderAccounted /\ ErrorsAccounted /\ ElapsedAccounted /\ LaunchesAccounted
  BY LoopParts
<1>2. /\ process[p] = "child" /\ Goto(p, "exit") /\ printf(p, line) /\ i' = i
      /\ process[p] \in Live /\ "exit" \in Live /\ i' \in 0 .. NUM_CHILDREN
      /\ 0 \in Processes
  BY <1>1, LoopFacts DEF ChildPrints, Live, Labels
<1>3. getppid(0) \in {0, Adopter} /\ getppid(0) \in Int
  BY DEF getppid, Adopter
<1>4. line \in Lines /\ line.text = "launched" /\ line.by = p
  BY <1>3 DEF Line, Lines
<1> HIDE DEF line
<1>5. TypeOK'
  BY <1>2, <1>4, PrintType DEF Goto
<1>6. /\ HeaderAccounted' /\ ErrorsAccounted'
      /\ \A q \in Processes : Born(q)' <=> Born(q)
      /\ \A q \in Processes : process'[q] = "ended" <=> process[q] = "ended"
      /\ process'[p] = "exit" /\ \A q \in Processes \ {p} : process'[q] = process[q]
      /\ terminal' = terminal
  BY <1>2, <1>4, PrintKeeps
<1>7. Passes'
  BY <1>1, <1>2, <1>6 DEF Passes
<1>8. ElapsedAccounted'
  BY DEF ElapsedAccounted, Timing
<1>9. LaunchesAccounted'
  <2> SUFFICES ASSUME NEW c \in 1 .. NUM_CHILDREN PROVE LaunchAccounted(c, Timing)'
    BY DEF LaunchesAccounted
  <2>1. c \in Processes
    BY ChildrenAssumption
  <2>2. LaunchAccounted(c, Timing)
    BY <1>1 DEF LaunchesAccounted
  <2>3. CASE c = p
    <3>1. printf(c, Line("launched", c, getppid(0)))
      BY <1>2, <2>3 DEF line
    <3> QED
      BY <1>2, <1>3, <1>6, <2>1, <2>2, <2>3, <3>1, LaunchPrinted
  <2>4. CASE c # p
    <3>1. process'[c] = process[c]
      BY <1>6, <2>1, <2>4
    <3> QED
      BY <1>2, <1>4, <2>1, <2>2, <2>4, <3>1, LaunchPrint
  <2> QED
    BY <2>3, <2>4
<1>10. LoopInv(Timing)'
  BY <1>6, <1>7, <1>8, <1>9
     DEF LoopInv, HeaderAccounted, ErrorsAccounted, ElapsedAccounted, LaunchesAccounted
<1> QED
  BY <1>5, <1>10

\* main() or a child ends.
LEMMA LoopExitStep ==
    ASSUME TypeOK, LoopInv(Timing), NEW p \in Processes, NEW code \in Int, exit(p, code),
           p = 0 => process[p] = "exit",
           p # 0 => process[p] = IF Timing THEN "child" ELSE "exit",
           UNCHANGED <<program, arg, i>>
    PROVE  TypeOK' /\ LoopInv(Timing)'
<1>1. /\ Passes /\ HeaderAccounted /\ ErrorsAccounted /\ ElapsedAccounted /\ LaunchesAccounted
  BY LoopParts
<1>2. /\ process[p] \in Live /\ i' = i /\ i' \in 0 .. NUM_CHILDREN /\ terminal' = terminal
      /\ process[p] \notin {"unborn", "ended", "start"}
      /\ process'[p] = "ended" /\ \A q \in Processes \ {p} : process'[q] = process[q]
      /\ 0 \in Processes
  BY <1>1, LoopFacts DEF exit, Goto, Live, Labels
<1>3. TypeOK'
  BY <1>2, ExitType
<1>4. \A q \in Processes : Born(q)' <=> Born(q)
  BY <1>2 DEF Born
<1>5. ASSUME NEW text, NEW k, NEW printed \in BOOLEAN, Accounted(text, k, printed)
      PROVE  Accounted(text, k, printed)'
  BY <1>1, <1>2, <1>5, AccountedExit
<1>6. Passes'
  <2>1. ASSUME NEW q \in Processes \ {0}
        PROVE  /\ process'[q] \in {"unborn", "child", "exit", "ended"}
               /\ Born(q)' => q <= i'
    BY <1>1, <1>2, <1>4 DEF Passes
  <2>2. p = 0 => i = NUM_CHILDREN
    BY <1>1 DEF Passes
  <2>3. /\ process'[0] \in {"start", "loop", "exit", "ended"}
        /\ process'[0] = "start" => i' = 0
        /\ process'[0] \in {"exit", "ended"} => i' = NUM_CHILDREN
    BY <1>1, <1>2, <2>2 DEF Passes
  <2> QED
    BY <2>1, <2>3 DEF Passes
<1>7. HeaderAccounted'
  <2>1. process'[0] # "start" <=> process[0] # "start"
    BY <1>2
  <2>2. CASE process[0] # "start"
    <3>1. Accounted("header", 0, TRUE)
      BY <1>1, <2>2 DEF HeaderAccounted, Accounted
    <3>2. Accounted("header", 0, TRUE)'
      BY <1>5, <3>1
    <3> QED
      BY <2>1, <2>2, <3>2 DEF HeaderAccounted, Accounted
  <2>3. CASE process[0] = "start"
    <3>1. Accounted("header", 0, FALSE)
      BY <1>1, <2>3 DEF HeaderAccounted, Accounted
    <3>2. Accounted("header", 0, FALSE)'
      BY <1>5, <3>1
    <3> QED
      BY <2>1, <2>3, <3>2 DEF HeaderAccounted, Accounted
  <2> QED
    BY <2>2, <2>3
<1>8. ErrorsAccounted'
  <2>1. Children' = Children
    BY <1>4, HoldersKept
  <2> SUFFICES ASSUME NEW k \in 1 .. NUM_CHILDREN \ Children PROVE Accounted("error", k, k <= i)'
    BY <2>1 DEF ErrorsAccounted
  <2>2. CASE k <= i
    <3>1. Accounted("error", k, TRUE)
      BY <1>1, <2>2 DEF ErrorsAccounted, Accounted
    <3>2. Accounted("error", k, TRUE)'
      BY <1>5, <3>1
    <3> QED
      BY <1>2, <2>2, <3>2 DEF Accounted
  <2>3. CASE ~ (k <= i)
    <3>1. Accounted("error", k, FALSE)
      BY <1>1, <2>3 DEF ErrorsAccounted, Accounted
    <3>2. Accounted("error", k, FALSE)'
      BY <1>5, <3>1
    <3> QED
      BY <1>2, <2>3, <3>2 DEF Accounted
  <2> QED
    BY <2>2, <2>3
<1>9. ElapsedAccounted'
  <2> SUFFICES ASSUME Timing
               PROVE  Accounted("elapsed", NUM_CHILDREN, process[0] \in {"exit", "ended"})'
    BY DEF ElapsedAccounted, Timing
  <2>1. process'[0] \in {"exit", "ended"} <=> process[0] \in {"exit", "ended"}
    BY <1>2
  <2>2. CASE process[0] \in {"exit", "ended"}
    <3>1. Accounted("elapsed", NUM_CHILDREN, TRUE)
      BY <1>1, <2>2 DEF ElapsedAccounted, Accounted
    <3>2. Accounted("elapsed", NUM_CHILDREN, TRUE)'
      BY <1>5, <3>1
    <3> QED
      BY <2>1, <2>2, <3>2 DEF Accounted
  <2>3. CASE process[0] \notin {"exit", "ended"}
    <3>1. Accounted("elapsed", NUM_CHILDREN, FALSE)
      BY <1>1, <2>3 DEF ElapsedAccounted, Accounted
    <3>2. Accounted("elapsed", NUM_CHILDREN, FALSE)'
      BY <1>5, <3>1
    <3> QED
      BY <2>1, <2>3, <3>2 DEF Accounted
  <2> QED
    BY <2>2, <2>3
<1>10. LaunchesAccounted'
  <2> SUFFICES ASSUME NEW c \in 1 .. NUM_CHILDREN PROVE LaunchAccounted(c, Timing)'
    BY DEF LaunchesAccounted
  <2>1. c \in Processes /\ c # 0
    BY ChildrenAssumption
  <2>2. LaunchAccounted(c, Timing)
    BY <1>1 DEF LaunchesAccounted
  <2>3. p = c => Timing \/ process[p] = "exit"
    BY <2>1
  <2> QED
    BY <1>2, <2>1, <2>2, <2>3, LaunchExit
<1>11. LoopInv(Timing)'
  BY <1>6, <1>7, <1>8, <1>9, <1>10
     DEF LoopInv, HeaderAccounted, ErrorsAccounted, ElapsedAccounted, LaunchesAccounted
<1> QED
  BY <1>3, <1>11

\* No program that loops prints the line of the factorial program.
LEMMA NoTotalKept ==
    ASSUME TypeOK, NoTotal,
           \/ \E p, child \in Processes : \E next, childNext : fork(p, child, next, childNext)
           \/ \E p \in Processes, line \in LoopLines : printf(p, line)
           \/ \E p \in Processes : \E code : exit(p, code)
           \/ Silent
    PROVE  NoTotal'
<1>1. CASE \E p, child \in Processes : \E next, childNext : fork(p, child, next, childNext)
  BY <1>1 DEF NoTotal, fork
<1>2. ASSUME NEW p \in Processes, NEW line \in LoopLines, printf(p, line) PROVE NoTotal'
  <2>1. Append(console, line) \in Seq(LoopLines) /\ Append(pending[p], line) \in Seq(LoopLines)
    BY DEF NoTotal
  <2> QED
    BY <1>2, <2>1 DEF NoTotal, printf
<1>3. ASSUME NEW p \in Processes, NEW code, exit(p, code) PROVE NoTotal'
  <2>1. console \o pending[p] \in Seq(LoopLines) /\ <<>> \in Seq(LoopLines)
    BY DEF NoTotal
  <2> QED
    BY <1>3, <2>1 DEF NoTotal, exit
<1>4. CASE Silent
  BY <1>4 DEF NoTotal, Silent
<1> QED
  BY <1>1, <1>2, <1>3, <1>4

\* One step per part of the programs.
LEMMA LoopNext ==
    ASSUME TypeOK, LoopInv(Timing), NoTotal, NEW p \in Processes, UNCHANGED <<program, arg>>,
           \/ p = 0 /\ LoopMain(Timing)
           \/ p # 0 /\ ~ Timing /\ SchedulingChild(p)
           \/ p # 0 /\ Timing /\ TimingChild(p)
    PROVE  TypeOK' /\ LoopInv(Timing)' /\ NoTotal'
<1>1. /\ Passes /\ 0 \in Processes /\ NUM_CHILDREN \in Nat /\ i \in Nat
  BY LoopParts, LoopFacts
<1>2. CASE PrintHeader
  <2>1. printf(0, Header) /\ Header \in LoopLines
    BY <1>1, <1>2 DEF PrintHeader, Header, Line, LoopLines, Lines
  <2> QED
    BY <1>1, <1>2, <2>1, HeaderStep, NoTotalKept
<1>3. CASE LaunchChild
  <2>1. i + 1 \in Processes /\ fork(0, i', "loop", "child") /\ i' = i + 1
    BY <1>1, <1>3, LaunchEffect DEF LaunchChild
  <2> QED
    BY <1>1, <1>3, <2>1, LaunchStep, NoTotalKept
<1>4. CASE LaunchFails
  <2>1. printf(0, Error(i + 1)) /\ Error(i + 1) \in LoopLines
    BY <1>1, <1>4 DEF LaunchFails, Error, Line, LoopLines, Lines
  <2> QED
    BY <1>1, <1>4, <2>1, LaunchFailsStep, NoTotalKept
<1>5. CASE LoopEnds(Timing)
  <2>1. Silent \/ (printf(0, Elapsed) /\ Elapsed \in LoopLines)
    BY <1>1, <1>5 DEF LoopEnds, Elapsed, Line, LoopLines, Lines
  <2> QED
    BY <1>1, <1>5, <2>1, LoopEndsStep, NoTotalKept
<1>6. CASE MainReturns
  <2>1. process[0] = "exit" /\ exit(0, 0) /\ i' = i
    BY <1>6 DEF MainReturns
  <2> QED
    BY <1>1, <2>1, LoopExitStep, NoTotalKept
<1>7. CASE p # 0 /\ ~ Timing /\ ChildPrints(p)
  <2> DEFINE line == Line("launched", p, getppid(0))
  <2>1. printf(p, line) /\ line \in LoopLines
    BY <1>7 DEF ChildPrints, Line, LoopLines, Lines, getppid, Adopter
  <2> HIDE DEF line
  <2> QED
    BY <1>7, <2>1, ChildPrintsStep, NoTotalKept
<1>8. CASE p # 0 /\ \E from : from = (IF Timing THEN "child" ELSE "exit") /\ ChildExits(p, from)
  <2>1. process[p] = (IF Timing THEN "child" ELSE "exit") /\ exit(p, 1) /\ i' = i
    BY <1>8 DEF ChildExits
  <2> QED
    BY <1>8, <2>1, LoopExitStep, NoTotalKept
<1> QED
  BY <1>2, <1>3, <1>4, <1>5, <1>6, <1>7, <1>8 DEF LoopMain, SchedulingChild, TimingChild

LEMMA LoopStart ==
    program \in {"scheduling", "timing"} /\ LoopInit /\ arg = 0 => TypeOK /\ LoopInv(Timing) /\ NoTotal
<1> SUFFICES ASSUME program \in {"scheduling", "timing"}, LoopInit, arg = 0
             PROVE  TypeOK /\ LoopInv(Timing) /\ NoTotal
  OBVIOUS
<1>1. /\ Processes \subseteq Nat /\ 0 \in Processes /\ MAX \in Nat /\ NUM_CHILDREN \in Nat
      /\ 0 .. NUM_CHILDREN \subseteq Processes
  BY ProcessAssumption, ArgumentAssumption, ChildrenAssumption
<1>2. /\ process = [p \in Processes |-> IF p = 0 THEN "start" ELSE "unborn"]
      /\ i = 0 /\ console = <<>> /\ pending = [p \in Processes |-> <<>>]
  BY DEF LoopInit, ProcessInit
<1>3. TypeOK
  <2>1. <<>> \in Seq(Lines)
    OBVIOUS
  <2> QED
    BY <1>1, <2>1 DEF TypeOK, LoopInit, ProcessInit, Labels
<1>4. NoTotal
  <2>1. <<>> \in Seq(LoopLines)
    OBVIOUS
  <2> QED
    BY <1>2, <2>1 DEF NoTotal
<1>5. Passes
  BY <1>1, <1>2 DEF Passes, Born
<1>6. \A p \in Processes : process[p] \notin {"exit", "ended"} /\ pending[p] = <<>>
  BY <1>2
<1>7. ASSUME NEW text, NEW k PROVE Accounted(text, k, FALSE)
  BY <1>2, <1>6, LinesInEmpty DEF Accounted, Copies
<1>8. HeaderAccounted
  BY <1>1, <1>2, <1>7 DEF HeaderAccounted, Accounted
<1>9. ErrorsAccounted
  <2> SUFFICES ASSUME NEW k \in 1 .. NUM_CHILDREN \ Children PROVE Accounted("error", k, k <= i)
    BY DEF ErrorsAccounted
  <2>1. ~ (k <= i)
    BY <1>1, <1>2
  <2> QED
    BY <1>7, <2>1 DEF Accounted
<1>10. ElapsedAccounted
  <2>1. ~ (process[0] \in {"exit", "ended"})
    BY <1>1, <1>6
  <2> QED
    BY <1>7, <2>1 DEF ElapsedAccounted, Accounted
<1>11. LaunchesAccounted
  <2> SUFFICES ASSUME NEW c \in 1 .. NUM_CHILDREN PROVE LaunchAccounted(c, Timing)
    BY DEF LaunchesAccounted
  <2>1. c \in Processes
    BY <1>1
  <2> QED
    BY <1>2, <1>6, <2>1, LinesInEmpty DEF LaunchAccounted, Copies
<1> QED
  BY <1>3, <1>4, <1>5, <1>8, <1>9, <1>10, <1>11, LoopParts

-----------------------------------------------------------------------------
(***************************************************************************)
(* The theorems                                                            *)
(***************************************************************************)
LEMMA InitIndInv == Init => IndInv
<1>1. CASE program = "factorial" /\ FactorialInit /\ i = 0
  BY <1>1, FactorialStart DEF IndInv
<1>2. CASE program \in {"scheduling", "timing"} /\ LoopInit /\ arg = 0
  <2>1. program # "factorial"
    BY <1>2
  <2> QED
    BY <1>2, <2>1, LoopStart DEF IndInv
<1> QED
  BY <1>1, <1>2 DEF Init

\* A step that changes no process changes nothing that the invariant speaks of.
LEMMA StutterChain ==
    ASSUME FactorialInv, UNCHANGED <<arg, process, status, pending, console>>
    PROVE  FactorialInv'
<1>1. Chain'
  BY DEF FactorialInv, Chain, Born, Recurses, n
<1>2. ChainEnded'
  BY DEF FactorialInv, ChainEnded, Born, n
<1>3. Base' = Base /\ \A p : n(p)' = n(p)
  BY DEF Base, Born, n
<1>4. StatusIsProduct'
  BY <1>3 DEF FactorialInv, StatusIsProduct
<1>5. Printed'
  BY DEF FactorialInv, Printed, Born, Total
<1> QED
  BY <1>1, <1>2, <1>4, <1>5 DEF FactorialInv

LEMMA StutterLoop ==
    ASSUME LoopInv(Timing), NoTotal,
           UNCHANGED <<program, i, terminal, process, pending, console>>
    PROVE  LoopInv(Timing)' /\ NoTotal'
<1>1. /\ Timing' = Timing /\ Children' = Children /\ \A k : Holders(k)' = Holders(k)
      /\ \A text, author, numbers : Copies(text, author, numbers)' = Copies(text, author, numbers)
  BY DEF Timing, Children, Born, Holders, Copies, LinesIn
<1>2. Passes'
  BY DEF LoopInv, Passes, Born
<1>3. HeaderAccounted'
  BY <1>1 DEF LoopInv, HeaderAccounted, Accounted
<1>4. ErrorsAccounted'
  BY <1>1 DEF LoopInv, ErrorsAccounted, Accounted
<1>5. ElapsedAccounted'
  BY <1>1 DEF LoopInv, ElapsedAccounted, Accounted
<1>6. LaunchesAccounted'
  BY <1>1 DEF LoopInv, LaunchesAccounted, LaunchAccounted
<1>7. NoTotal'
  BY DEF NoTotal
<1>8. LoopInv(Timing)'
  BY <1>2, <1>3, <1>4, <1>5, <1>6
     DEF LoopInv, HeaderAccounted, ErrorsAccounted, ElapsedAccounted, LaunchesAccounted
<1> QED
  BY <1>7, <1>8

LEMMA NextIndInv == IndInv /\ [Next]_vars => IndInv'
<1> SUFFICES ASSUME IndInv, [Next]_vars PROVE IndInv'
  OBVIOUS
<1>1. TypeOK
  BY DEF IndInv
<1>2. ASSUME NEW p \in Processes, Runs(p) PROVE IndInv'
  <2>1. program' = program
    BY <1>2 DEF Runs
  <2>2. CASE program = "factorial"
    <3>1. doFactorial(p) /\ UNCHANGED <<program, arg, i>> /\ FactorialInv
      BY <1>2, <2>2 DEF Runs, IndInv
    <3>2. TypeOK' /\ FactorialInv'
      BY <1>1, <3>1, FactorialNext
    <3> QED
      BY <2>1, <2>2, <3>2 DEF IndInv
  <2>3. CASE program # "factorial"
    <3>1. /\ LoopInv(Timing) /\ NoTotal /\ UNCHANGED <<program, arg>>
          /\ \/ p = 0 /\ LoopMain(Timing)
             \/ p # 0 /\ ~ Timing /\ SchedulingChild(p)
             \/ p # 0 /\ Timing /\ TimingChild(p)
      BY <1>2, <2>3 DEF Runs, IndInv
    <3>2. TypeOK' /\ LoopInv(Timing)' /\ NoTotal'
      BY <1>1, <3>1, LoopNext
    <3> QED
      BY <2>1, <2>3, <3>2 DEF IndInv
  <2> QED
    BY <2>2, <2>3
<1>3. CASE UNCHANGED vars
  <2>1. /\ program' = program /\ arg' = arg /\ i' = i /\ terminal' = terminal
        /\ process' = process /\ status' = status /\ pending' = pending /\ console' = console
    BY <1>3 DEF vars, processVars
  <2>2. TypeOK'
    BY <1>1, <2>1 DEF TypeOK
  <2>3. program = "factorial" => FactorialInv'
    <3>1. program = "factorial" => FactorialInv
      BY DEF IndInv
    <3> QED
      BY <2>1, <3>1, StutterChain DEF FactorialInv
  <2>4. program # "factorial" => LoopInv(Timing)' /\ NoTotal'
    <3>1. program # "factorial" => LoopInv(Timing) /\ NoTotal
      BY DEF IndInv
    <3> QED
      BY <2>1, <3>1, StutterLoop, LoopParts
  <2> QED
    BY <2>1, <2>2, <2>3, <2>4 DEF IndInv
<1> QED
  BY <1>2, <1>3 DEF Next

\* The inductive invariant holds in every reachable state.
THEOREM Invariance == Spec => []IndInv
BY InitIndInv, NextIndInv, PTL DEF Spec

\* What a process has in its stdio buffer, an exit status of one byte and how far
\* the loop and the recursion get: a process that writes to a terminal, has ended or
\* was never forked has nothing pending.
THEOREM TypeCorrectness == Spec => []TypeOK
<1>1. IndInv => TypeOK
  BY DEF IndInv
<1> QED
  BY <1>1, Invariance, PTL

LEMMA IndInvPrintsProduct == IndInv => PrintsProduct
<1> SUFFICES ASSUME IndInv, NEW k \in DOMAIN console, console[k].text = "total"
             PROVE  console[k].value = (factorial[arg] \div factorial[Base]) % 256
  BY DEF PrintsProduct, Prints
<1>1. CASE program = "factorial"
  <2>1. TypeOK /\ FactorialInv
    BY <1>1 DEF IndInv
  <2>2. /\ 0 \in Processes /\ 1 \in Processes /\ n(1) = arg /\ arg \in Nat
        /\ pending[0] \in Seq(Lines) /\ console \in Seq(Lines)
        /\ process[0] \in {"exit", "ended"} /\ Born(1) => process[1] = "ended"
    BY <2>1, FactorialFacts
  <2>3. /\ k \in 1 .. Len(console \o pending[0])
        /\ (console \o pending[0])[k] = console[k]
    BY <2>2
  <2>4. console \o pending[0] =
           IF process[0] \in {"exit", "ended"} /\ Born(1) THEN <<Total(0)>> ELSE <<>>
    BY <2>1 DEF FactorialInv, Printed
  <2>5. process[0] \in {"exit", "ended"} /\ Born(1)
    BY <2>3, <2>4
  <2>6. console \o pending[0] = <<Total(0)>>
    BY <2>4, <2>5
  <2>7. console[k] = Total(0)
    BY <2>3, <2>6
  <2>8. console[k].value = status[1]
    BY <2>7 DEF Total
  <2>9. status[1] = (factorial[n(1)] \div factorial[Base]) % 256
    BY <2>1, <2>2, <2>5 DEF FactorialInv, StatusIsProduct
  <2> QED
    BY <2>2, <2>8, <2>9
<1>2. CASE program # "factorial"
  <2>1. console \in Seq(LoopLines)
    BY <1>2 DEF IndInv, NoTotal
  <2>2. console[k] \in LoopLines
    BY <2>1
  <2> QED
    BY <2>2 DEF LoopLines
<1> QED
  BY <1>1, <1>2

\* Whatever number the factorial program prints is the product of the numbers from
\* the argument down to where the chain of processes ended, modulo 256: not always
\* the factorial that the comment promises.
THEOREM ProductPrinted == Spec => []PrintsProduct
BY Invariance, IndInvPrintsProduct, PTL

\* Once the chain has a process for the number 0, it ends there.
LEMMA BaseIsZero ==
    ASSUME TypeOK, Chain, Born(arg + 1)
    PROVE  Base = 0
<1>1. PICK last \in 0 .. arg + 2 : \A p \in Processes : Born(p) <=> p <= last
  BY DEF Chain
<1>2. last \in Processes /\ arg + 1 \in Processes /\ arg \in Nat /\ Processes \subseteq Nat
  BY ProcessAssumption, ArgumentAssumption DEF TypeOK
<1>3. arg + 1 <= last
  BY <1>1, <1>2
<1>4. Base = IF n(last) < 0 THEN 0 ELSE n(last)
  BY <1>1, <1>2, BaseValue
<1> QED
  BY <1>2, <1>3, <1>4 DEF n

LEMMA IndInvFactorial == IndInv => FactorialIfItFits
<1> SUFFICES ASSUME IndInv, Born(arg + 1), factorial[arg] < 256,
                    NEW k \in DOMAIN console, console[k].text = "total"
             PROVE  console[k].value = factorial[arg]
  BY DEF FactorialIfItFits, PrintsFactorial, Prints
<1>1. console[k].value = (factorial[arg] \div factorial[Base]) % 256
  BY IndInvPrintsProduct DEF PrintsProduct, Prints
<1>2. program = "factorial"
  <2> SUFFICES ASSUME program # "factorial" PROVE FALSE
    OBVIOUS
  <2>1. console \in Seq(LoopLines)
    BY DEF IndInv, NoTotal
  <2>2. console[k] \in LoopLines
    BY <2>1
  <2> QED
    BY <2>2 DEF LoopLines
<1>3. Base = 0
  BY <1>2, BaseIsZero DEF IndInv, FactorialInv
<1>4. arg \in Nat /\ factorial[arg] \in Nat /\ factorial[0] = 1
  BY ArgumentAssumption, FactorialValue DEF IndInv, TypeOK
<1>5. \A m \in Nat : m < 256 => (m \div 1) % 256 = m
  OBVIOUS
<1> QED
  BY <1>1, <1>3, <1>4, <1>5

\* If the chain got down to 0 and the factorial fits the 8 bits of an exit status, it
\* is the number that the factorial program prints, for every argument it accepts.
THEOREM FactorialPrinted == Spec => []FactorialIfItFits
BY Invariance, IndInvFactorial, PTL

LEMMA IndInvOneNumber == IndInv /\ Ended => OneNumberPrinted
<1> SUFFICES ASSUME IndInv, Ended, program = "factorial"
             PROVE  Len(console) = IF Born(1) THEN 1 ELSE 0
  BY DEF OneNumberPrinted
<1>1. TypeOK /\ FactorialInv
  BY DEF IndInv
<1>2. /\ 0 \in Processes /\ console \in Seq(Lines) /\ pending[0] = <<>>
  BY <1>1, FactorialFacts DEF TypeOK, Ended
<1>3. process[0] = "ended"
  <2>1. process[0] # "unborn"
    <3>1. PICK last \in 0 .. arg + 2 : \A p \in Processes : Born(p) <=> p <= last
      BY <1>1 DEF FactorialInv, Chain
    <3>2. 0 <= last
      BY <3>1
    <3> QED
      BY <1>2, <3>1, <3>2 DEF Born
  <2> QED
    BY <1>2, <2>1 DEF Ended
<1>4. console = IF Born(1) THEN <<Total(0)>> ELSE <<>>
  BY <1>1, <1>2, <1>3 DEF FactorialInv, Printed
<1> QED
  BY <1>4

\* Once all its processes have ended the factorial program has printed exactly one
\* line, whatever calls of fork() failed, unless the very first one did: neither a
\* child nor the twin of the last process prints, and no buffer is flushed twice.
THEOREM NumberPrinted == Spec => [](Ended => OneNumberPrinted)
<1>1. IndInv => (Ended => OneNumberPrinted)
  BY IndInvOneNumber
<1> QED
  BY <1>1, Invariance, PTL

\* When all have ended, the copies written are one per holder.
LEMMA CopiesAtEnd ==
    ASSUME TypeOK, Passes, Ended, NEW text, NEW k \in 0 .. NUM_CHILDREN,
           Accounted(text, k, TRUE)
    PROVE  Copies(text, 0, {k}) = DueCopies(k)
<1>1. /\ 0 \in Processes /\ 0 \notin Children /\ Children \subseteq Processes
      /\ IsFiniteSet(Children) /\ Holders(k) \subseteq Processes
  BY LoopFacts
<1> DEFINE later == {p \in Children : p > k}
<1>2. \A p \in Holders(k) : process[p] = "ended"
  <2>1. process[0] = "ended"
    BY <1>1 DEF Passes, Ended
  <2>2. \A p \in Children : process[p] = "ended"
    BY <1>1 DEF Ended, Children, Born
  <2> QED
    BY <2>1, <2>2 DEF Holders
<1>3. {p \in Holders(k) : process[p] = "ended"} = later \cup {0}
  BY <1>2 DEF Holders
<1>4. IsFiniteSet(later) /\ 0 \notin later
  BY <1>1, FS_Subset
<1>5. Copies(text, 0, {k}) = IF terminal THEN 1 ELSE Cardinality(later \cup {0})
  BY <1>3 DEF Accounted
<1>6. DueCopies(k) = IF terminal THEN 1 ELSE 1 + Cardinality(later)
  BY DEF DueCopies
<1> HIDE DEF later
<1>7. Cardinality(later \cup {0}) = Cardinality(later) + 1 /\ Cardinality(later) \in Nat
  BY <1>4, FS_AddElement, FS_CardinalityType
<1> QED
  BY <1>5, <1>6, <1>7

LEMMA IndInvOutputComplete == IndInv => OutputComplete
<1> SUFFICES ASSUME IndInv, program # "factorial", Ended PROVE LinesWritten(Timing)
  BY DEF OutputComplete
<1>1. /\ TypeOK /\ Passes /\ HeaderAccounted /\ ErrorsAccounted /\ ElapsedAccounted
      /\ LaunchesAccounted
  BY LoopParts DEF IndInv
<1>2. /\ 0 \in Processes /\ NUM_CHILDREN \in Nat /\ 0 .. NUM_CHILDREN \subseteq Processes
  BY <1>1, LoopFacts
<1>3. process[0] = "ended" /\ i = NUM_CHILDREN
  BY <1>1, <1>2 DEF Passes, Ended
<1>4. Copies("header", 0, {0}) = DueCopies(0)
  <2>1. Accounted("header", 0, TRUE)
    BY <1>1, <1>3 DEF HeaderAccounted, Accounted
  <2>2. 0 \in 0 .. NUM_CHILDREN
    BY <1>2
  <2> QED
    BY <1>1, <2>1, <2>2, CopiesAtEnd
<1>5. \A k \in 1 .. NUM_CHILDREN \ Children : Copies("error", 0, {k}) = DueCopies(k)
  <2> SUFFICES ASSUME NEW k \in 1 .. NUM_CHILDREN \ Children
               PROVE  Copies("error", 0, {k}) = DueCopies(k)
    OBVIOUS
  <2>1. k <= i /\ k \in 0 .. NUM_CHILDREN
    BY <1>2, <1>3
  <2>2. Accounted("error", k, TRUE)
    BY <1>1, <2>1 DEF ErrorsAccounted, Accounted
  <2> QED
    BY <1>1, <2>1, <2>2, CopiesAtEnd
<1>6. Timing => Copies("elapsed", 0, {NUM_CHILDREN}) = 1
  <2> SUFFICES ASSUME Timing PROVE Copies("elapsed", 0, {NUM_CHILDREN}) = 1
    OBVIOUS
  <2>1. Accounted("elapsed", NUM_CHILDREN, TRUE)
    BY <1>1, <1>3 DEF ElapsedAccounted, Accounted
  <2>2. Copies("elapsed", 0, {NUM_CHILDREN}) = DueCopies(NUM_CHILDREN)
    <3>1. NUM_CHILDREN \in 0 .. NUM_CHILDREN
      BY <1>2
    <3> QED
      BY <1>1, <2>1, <3>1, CopiesAtEnd
  <2>3. {p \in Children : p > NUM_CHILDREN} = {}
    BY <1>2 DEF Children
  <2>4. DueCopies(NUM_CHILDREN) = 1
    BY <2>3, FS_EmptySet DEF DueCopies
  <2> QED
    BY <2>2, <2>4
<1>7. \A p \in Children : Copies("launched", p, {0, Adopter}) = IF Timing THEN 0 ELSE 1
  <2> SUFFICES ASSUME NEW p \in Children
               PROVE  Copies("launched", p, {0, Adopter}) = IF Timing THEN 0 ELSE 1
    OBVIOUS
  <2>1. p \in 1 .. NUM_CHILDREN /\ p \in Processes /\ process[p] = "ended"
    BY <1>2 DEF Children, Ended, Born
  <2> QED
    BY <1>1, <2>1 DEF LaunchesAccounted, LaunchAccounted
<1> QED
  BY <1>4, <1>5, <1>6, <1>7 DEF LinesWritten

\* Of the programs that loop no line that was printed is lost, and none is written
\* more often than fork() has copied the buffer it was in: once on a terminal, in a
\* file once more for each child forked after it, and the line of a child once.
THEOREM OutputIsComplete == Spec => []OutputComplete
BY Invariance, IndInvOutputComplete, PTL

=============================================================================
