----------------------------- MODULE EchoService -----------------------------
(***************************************************************************)
(* What the socket programs promise their users: an answer is the line     *)
(* just typed, sent back to the one who typed it.  A connection may break; *)
(* from then on there are only blank answers.                              *)
(***************************************************************************)
EXTENDS Sequences, Integers

CONSTANTS Clients, Lines, Blank

VARIABLES asked, shown   \* per client: lines typed, answers printed

vars == <<asked, shown>>

Broken(c) == \E k \in 1 .. Len(shown[c]) : shown[c][k] = Blank

Init ==
    /\ asked = [c \in Clients |-> <<>>]
    /\ shown = [c \in Clients |-> <<>>]

\* The next line is typed when the one before has been answered.
Ask(c) ==
    /\ Len(shown[c]) = Len(asked[c])
    /\ \E line \in Lines : asked' = [asked EXCEPT ![c] = Append(@, line)]
    /\ UNCHANGED shown

Reply(c, line) ==
    /\ Len(shown[c]) < Len(asked[c])
    /\ shown' = [shown EXCEPT ![c] = Append(@, line)]
    /\ UNCHANGED asked

Answer(c) == ~Broken(c) /\ Reply(c, asked[c][Len(asked[c])])

Break(c) == Reply(c, Blank)

Next == \E c \in Clients : Ask(c) \/ Answer(c) \/ Break(c)

Spec == Init /\ [][Next]_vars
=============================================================================
