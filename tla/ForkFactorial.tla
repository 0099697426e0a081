---------------------------- MODULE ForkFactorial ----------------------------
(***************************************************************************)
(* classwork/fork_factorial/main.c: process p runs doFactorial() for the   *)
(* number `n(p)' and forks process p + 1 for the number below, which hands *)
(* its product back as its exit status.                                    *)
(*                                                                         *)
(* An operator whose comment starts with `Slip' is a plausible mistake in  *)
(* the definition that follows it, kept to show that a property can fail.  *)
(***************************************************************************)
EXTENDS ForkedProcesses

CONSTANT MAX   \* largest number accepted on the command line

ASSUME ArgumentAssumption == MAX \in Nat /\ 0 .. MAX + 2 \subseteq Processes

VARIABLE arg   \* the number on the command line

FactorialInit == arg \in 0 .. MAX /\ ProcessInit("call")

\* main() adds one, so that the process whose child's status is arg! prints it.
n(p) == arg + 1 - p

\* Slip: the process for 0 takes part in the product.
RecursesAtZero(p) == n(p) >= 0

Recurses(p) == n(p) > 0

\* fork() comes before the test of n: the process for 0 forks a twin of itself,
\* nobody waits for it, and both return.
FactorialFork(p) ==
    /\ process[p] = "call"
    /\ IF Recurses(p) THEN fork(p, p + 1, "wait", "call")
                      ELSE fork(p, p + 1, "return", "return")

\* Neither branch is for a fork() that returned -1.
FactorialForkFails(p) ==
    /\ process[p] = "call"
    /\ Goto(p, "return")
    /\ Silent

Total(p) == [text |-> "total", by |-> p, value |-> status[p + 1]]

\* Slip: doPrint is cleared before it is tested.
WaitSilently(p) ==
    /\ process[p] = "wait" /\ process[p + 1] = "ended"
    /\ Goto(p, "exit")
    /\ Silent

\* wait() for the child; only the first process prints.
FactorialWait(p) ==
    /\ process[p] = "wait" /\ process[p + 1] = "ended"
    /\ Goto(p, "exit")
    /\ IF p = 0 THEN printf(p, Total(p)) ELSE Silent

FactorialExit(p) == process[p] = "exit" /\ exit(p, status[p + 1] * n(p))

\* doFactorial() returns: to main(), or to its caller in the child, exit(1).
FactorialReturn(p) == process[p] = "return" /\ exit(p, IF p = 0 THEN 0 ELSE 1)

doFactorial(p) ==
    \/ FactorialFork(p) \/ FactorialForkFails(p) \/ FactorialWait(p)
    \/ FactorialExit(p) \/ FactorialReturn(p)

-----------------------------------------------------------------------------
\* factorial() of project0/basics.c.
factorial[m \in Nat] == IF m = 0 THEN 1 ELSE m * factorial[m - 1]

\* The number at which the chain of processes ends: 0, or the one for which fork()
\* has failed.
Base ==
    LET ends == {n(p) : p \in {q \in Processes : Born(q)}}
        low  == CHOOSE m \in ends : \A k \in ends : m <= k
    IN  IF low < 0 THEN 0 ELSE low

Prints(number) == \A k \in DOMAIN console : console[k].text = "total" => console[k].value = number

\* What the comment at 47-49 promises for every number that main() accepts: the
\* program computes it and prints it.  The code does not keep this: an exit status
\* has 8 bits (83, 91), and a fork() that fails is not noticed (63-75).
PrintsFactorial == Prints(factorial[arg])

\* As much of the promise as the code keeps: if the chain of processes got down to
\* the number 0, and the factorial fits an exit status, it is what is printed.
FactorialIfItFits == Born(arg + 1) /\ factorial[arg] < 256 => PrintsFactorial

\* What the code prints for the other numbers, which is not what the comment
\* promises: the remainder by 256, so 208 for 6! and 0 from 10! on, and a product
\* without the factors that a failed fork() has cut off.
PrintsProduct == Prints((factorial[arg] \div factorial[Base]) % 256)

-----------------------------------------------------------------------------
(***************************************************************************)
(* The inductive invariant                                                 *)
(***************************************************************************)
\* The processes are numbered without gaps, and each has got as far as its child
\* lets it.
Chain ==
    /\ \E last \in 0 .. arg + 2 : \A p \in Processes : Born(p) <=> p <= last
    /\ \A p \in Processes :
          /\ process[p] \in {"unborn", "call", "wait", "return", "exit", "ended"}
          /\ process[p] = "call" => n(p) >= 0 /\ ~ Born(p + 1)
          /\ process[p] \in {"wait", "exit"} => Recurses(p) /\ Born(p + 1)
          /\ process[p] = "exit" => process[p + 1] = "ended"
          /\ process[p] = "return" => ~ Recurses(p) \/ ~ Born(p + 1)

\* A process ends after all those below it, its twin apart.
ChainEnded ==
    \A p, q \in Processes :
        process[p] = "ended" /\ p < q /\ Born(q) /\ n(q) >= 0 => process[q] = "ended"

\* The exit status of a process is the product of the numbers down to Base.
StatusIsProduct ==
    \A p \in Processes \ {0} :
        process[p] = "ended" /\ n(p) >= 0 =>
            status[p] = (factorial[n(p)] \div factorial[Base]) % 256

\* What the first process has printed, and no other process prints anything.
Printed ==
    /\ \A p \in Processes \ {0} : pending[p] = <<>>
    /\ console \o pending[0] =
          IF process[0] \in {"exit", "ended"} /\ Born(1) THEN <<Total(0)>> ELSE <<>>

FactorialInv == Chain /\ ChainEnded /\ StatusIsProduct /\ Printed
=============================================================================
