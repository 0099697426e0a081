------------------------------- MODULE ForkLoop -------------------------------
(***************************************************************************)
(* project 1/fork_scheduling.c and fork_timing.c: main() forks             *)
(* NUM_CHILDREN children one after the other, waits for none of them and   *)
(* returns.  A child of the first program prints the name of its parent.   *)
(*                                                                         *)
(* An operator whose comment starts with `Slip' is a plausible mistake in  *)
(* the definition that follows it, kept to show that a property can fail.  *)
(***************************************************************************)
EXTENDS ForkedProcesses

CONSTANT NUM_CHILDREN

ASSUME ChildrenAssumption == NUM_CHILDREN \in Nat /\ 0 .. NUM_CHILDREN \subseteq Processes

VARIABLE i   \* main(): passes through the loop

LoopInit == i = 0 /\ ProcessInit("start")

Line(word, p, number) == [text |-> word, by |-> p, value |-> number]

\* Lines of main() carry the number of passes made when they were printed.
Header   == Line("header", 0, 0)
Error(k) == Line("error", 0, k)
Elapsed  == Line("elapsed", 0, NUM_CHILDREN)

PrintHeader ==
    /\ process[0] = "start"
    /\ Goto(0, "loop")
    /\ printf(0, Header)
    /\ UNCHANGED i

LaunchChild ==
    /\ process[0] = "loop" /\ i < NUM_CHILDREN
    /\ i' = i + 1
    /\ fork(0, i', "loop", "child")

LaunchFails ==
    /\ process[0] = "loop" /\ i < NUM_CHILDREN
    /\ i' = i + 1
    /\ printf(0, Error(i'))
    /\ UNCHANGED process

\* The timing program prints what the clock says.
LoopEnds(timing) ==
    /\ process[0] = "loop" /\ i = NUM_CHILDREN
    /\ Goto(0, "exit")
    /\ IF timing THEN printf(0, Elapsed) ELSE Silent
    /\ UNCHANGED i

MainReturns == process[0] = "exit" /\ exit(0, 0) /\ UNCHANGED i

ChildPrints(p) ==
    /\ process[p] = "child"
    /\ Goto(p, "exit")
    /\ printf(p, Line("launched", p, getppid(0)))
    /\ UNCHANGED i

\* Slip: _exit() in place of exit().
ChildQuits(p, from) ==
    /\ process[p] = from
    /\ Goto(p, "ended")
    /\ status' = [status EXCEPT ![p] = 1]
    /\ UNCHANGED <<terminal, pending, console, i>>

ChildExits(p, from) == process[p] = from /\ exit(p, 1) /\ UNCHANGED i

LoopMain(timing) ==
    PrintHeader \/ LaunchChild \/ LaunchFails \/ LoopEnds(timing) \/ MainReturns

SchedulingChild(p) == ChildPrints(p) \/ ChildExits(p, "exit")
TimingChild(p)     == ChildExits(p, "child")

-----------------------------------------------------------------------------
Children == {p \in 1 .. NUM_CHILDREN : Born(p)}

LinesIn(lines, text, p, numbers) ==
    Cardinality({k \in DOMAIN lines :
                    lines[k].text = text /\ lines[k].by = p /\ lines[k].value \in numbers})

Copies(text, p, numbers) == LinesIn(console, text, p, numbers)

\* On a terminal a line of main() is written once.  In a file or a pipe it is
\* written by main() and by every child that was forked after it was printed.
DueCopies(k) == IF terminal THEN 1 ELSE 1 + Cardinality({p \in Children : p > k})

\* When all have ended, every line that a call of printf() has produced is written,
\* and the only lines written twice are those that main() had printed and not yet
\* written when it forked (scheduling program 23-36, timing program 23-41).  Which
\* lines a program ought to print is another matter: see README.md.  The line of a
\* child counts whoever it names as the parent.
LinesWritten(timing) ==
    /\ Copies("header", 0, {0}) = DueCopies(0)
    /\ \A k \in 1 .. NUM_CHILDREN \ Children : Copies("error", 0, {k}) = DueCopies(k)
    /\ timing => Copies("elapsed", 0, {NUM_CHILDREN}) = 1
    /\ \A p \in Children : Copies("launched", p, {0, Adopter}) = IF timing THEN 0 ELSE 1

-----------------------------------------------------------------------------
(***************************************************************************)
(* The inductive invariant                                                 *)
(***************************************************************************)
\* The passes that main() has made, and how far its children have got.
Passes ==
    /\ process[0] \in {"start", "loop", "exit", "ended"}
    /\ process[0] = "start" => i = 0
    /\ process[0] \in {"exit", "ended"} => i = NUM_CHILDREN
    /\ \A p \in Processes \ {0} :
          process[p] \in {"unborn", "child", "exit", "ended"} /\ (Born(p) => p <= i)

\* Who has, or had, a copy of a line that main() printed in its pass k.
Holders(k) == {0} \cup {p \in Children : p > k}

\* Until a holder ends it keeps its copy, and then the copy is on the console.
Accounted(text, k, printed) ==
    /\ Copies(text, 0, {k}) =
          IF ~ printed THEN 0
          ELSE IF terminal THEN 1 ELSE Cardinality({p \in Holders(k) : process[p] = "ended"})
    /\ \A p \in Processes :
          LinesIn(pending[p], text, 0, {k}) =
             IF printed /\ ~ terminal /\ p \in Holders(k) /\ process[p] # "ended" THEN 1 ELSE 0

\* The same for the line of a child, which has no holder but the child.
LaunchAccounted(p, timing) ==
    /\ Copies("launched", p, {0, Adopter}) =
          IF ~ timing /\ (process[p] = "ended" \/ (terminal /\ process[p] = "exit")) THEN 1 ELSE 0
    /\ \A q \in Processes :
          LinesIn(pending[q], "launched", p, {0, Adopter}) =
             IF ~ timing /\ ~ terminal /\ q = p /\ process[p] = "exit" THEN 1 ELSE 0

LoopInv(timing) ==
    /\ Passes
    /\ Accounted("header", 0, process[0] # "start")
    /\ \A k \in 1 .. NUM_CHILDREN \ Children : Accounted("error", k, k <= i)
    /\ timing => Accounted("elapsed", NUM_CHILDREN, process[0] \in {"exit", "ended"})
    /\ \A p \in 1 .. NUM_CHILDREN : LaunchAccounted(p, timing)
=============================================================================
