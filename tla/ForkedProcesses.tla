--------------------------- MODULE ForkedProcesses ---------------------------
(***************************************************************************)
(* The calls of <unistd.h>, <stdlib.h>, <stdio.h> and <sys/wait.h> that    *)
(* the fork programs make.  External: not part of the repository.  Process *)
(* 0 is the one that was started, the others are numbered as the program   *)
(* forks them.  Nobody sends a signal.                                     *)
(*                                                                         *)
(* printf() writes whole lines.  On a terminal they appear at once; else   *)
(* they stay in the process, whose children get a copy of them, until it   *)
(* exits (the output of one process fits the buffer of the library).       *)
(***************************************************************************)
EXTENDS Integers, Sequences, FiniteSets

CONSTANT Processes

ASSUME ProcessAssumption == Processes \subseteq Nat /\ 0 \in Processes

VARIABLES
    terminal,    \* does the output go to a terminal
    process,     \* what each process does next
    status,      \* per process: its exit status, of which the parent sees 8 bits
    pending,     \* per process: the lines not yet written
    console      \* the lines that were written

processVars == <<terminal, process, status, pending, console>>

Born(p) == process[p] # "unborn"

ProcessInit(start) ==
    /\ terminal \in BOOLEAN
    /\ process = [p \in Processes |-> IF p = 0 THEN start ELSE "unborn"]
    /\ status = [p \in Processes |-> 0]
    /\ pending = [p \in Processes |-> <<>>]
    /\ console = <<>>

-----------------------------------------------------------------------------
\* fork() returns in the parent, which goes on at `next', and in the child.
fork(p, child, next, childNext) ==
    /\ process' = [process EXCEPT ![p] = next, ![child] = childNext]
    /\ pending' = [pending EXCEPT ![child] = pending[p]]
    /\ UNCHANGED <<terminal, status, console>>

Goto(p, next) == process' = [process EXCEPT ![p] = next]

printf(p, line) ==
    /\ IF terminal THEN console' = Append(console, line) /\ UNCHANGED pending
       ELSE pending' = [pending EXCEPT ![p] = Append(@, line)] /\ UNCHANGED console
    /\ UNCHANGED <<terminal, status>>

Silent == UNCHANGED <<terminal, status, pending, console>>

exit(p, code) ==
    /\ Goto(p, "ended")
    /\ status' = [status EXCEPT ![p] = code % 256]
    /\ console' = console \o pending[p]
    /\ pending' = [pending EXCEPT ![p] = <<>>]
    /\ UNCHANGED terminal

\* A process that main() leaves behind is adopted.
Adopter == -1

getppid(parent) == IF process[parent] = "ended" THEN Adopter ELSE parent
=============================================================================
