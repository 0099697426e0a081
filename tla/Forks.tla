-------------------------------- MODULE Forks --------------------------------
(***************************************************************************)
(* The programs that fork without sharing anything: the factorial program  *)
(* and the two that launch children in a loop.                             *)
(***************************************************************************)
EXTENDS ForkFactorial, ForkLoop

VARIABLE program

vars == <<program, arg, i, processVars>>

Labels == {"unborn", "call", "wait", "return", "start", "loop", "child", "exit", "ended"}

Lines == [text : {"total", "header", "error", "elapsed", "launched"}, by : Processes, value : Int]

TypeOK ==
    /\ program \in {"factorial", "scheduling", "timing"}
    /\ terminal \in BOOLEAN
    /\ process \in [Processes -> Labels]
    /\ status \in [Processes -> 0 .. 255]
    /\ arg \in 0 .. MAX
    /\ i \in 0 .. NUM_CHILDREN
    /\ pending \in [Processes -> Seq(Lines)] /\ console \in Seq(Lines)
    /\ \A p \in Processes : terminal \/ process[p] \in {"unborn", "ended"} => pending[p] = <<>>

Init ==
    \/ program = "factorial" /\ FactorialInit /\ i = 0
    \/ program \in {"scheduling", "timing"} /\ LoopInit /\ arg = 0

Timing == program = "timing"

\* The part of process p in the program.
Runs(p) ==
    /\ \/ program = "factorial" /\ doFactorial(p) /\ UNCHANGED <<arg, i>>
       \/ /\ program # "factorial"
          /\ \/ p = 0 /\ LoopMain(Timing)
             \/ p # 0 /\ ~Timing /\ SchedulingChild(p)
             \/ p # 0 /\ Timing /\ TimingChild(p)
          /\ UNCHANGED arg
    /\ UNCHANGED program

Ended == \A p \in Processes : process[p] \in {"unborn", "ended"}

Next ==
    \/ \E p \in Processes : Runs(p)
    \/ Ended /\ UNCHANGED vars

Spec == Init /\ [][Next]_vars

\* The kernel runs every process.
Fairness == \A p \in Processes : WF_vars(Runs(p))

FairSpec == Spec /\ Fairness

-----------------------------------------------------------------------------
\* The programs that loop print no product.
LoopLines == {line \in Lines : line.text # "total"}

NoTotal == console \in Seq(LoopLines) /\ pending \in [Processes -> Seq(LoopLines)]

\* The inductive invariant.
IndInv ==
    /\ TypeOK
    /\ program = "factorial" => FactorialInv
    /\ program # "factorial" => LoopInv(Timing) /\ NoTotal

\* Of the programs that loop, every line that was printed is written, as often as
\* fork() has made copies of it and no more.
OutputComplete == program # "factorial" /\ Ended => LinesWritten(Timing)

\* The factorial program has printed one number, unless its very first fork()
\* failed.
OneNumberPrinted == program = "factorial" => Len(console) = IF Born(1) THEN 1 ELSE 0

\* Every process ends, and the program has then done its output (fork_factorial
\* 56-93).
AllEnd == <>(Ended /\ OneNumberPrinted)
=============================================================================
