---------------------------- MODULE SessionClient ----------------------------
(***************************************************************************)
(* classwork/sockets/echo_client.c and session_client.c, which differ in   *)
(* one read: only the session client waits for the id that its server      *)
(* sends first.  The user types ordinary lines, `kill' or `killserver', or *)
(* ends the input.                                                         *)
(***************************************************************************)
EXTENDS Connections

CONSTANT MaxLines   \* lines one user types, at most

ASSUME LineAssumption == MaxLines \in Nat

VARIABLES
    program,        \* which server runs: "echo", "fork" or "thread"
    client,         \* per client: what it does next
    asked, shown    \* per client: lines sent, and answers printed

clientVars == <<client, asked, shown>>

Words == {"hello", "kill", "killserver"}
Lines == [from : Clients, nr : 1 .. MaxLines, word : Words]

\* What the fork and thread server send first, and an empty buffer.
Id    == [from |-> "server", nr |-> 0, word |-> "id"]
Blank == [from |-> "nobody", nr |-> 0, word |-> "blank"]

ClientLabels == {"connect", "id", "prompt", "reply", "left", "refused"}

ClientInit ==
    /\ program \in {"echo", "fork", "thread"}
    /\ client = [c \in Clients |-> "connect"]
    /\ asked = [c \in Clients |-> <<>>]
    /\ shown = [c \in Clients |-> <<>>]

-----------------------------------------------------------------------------
Move(c, from, to) ==
    /\ client[c] = from
    /\ client' = [client EXCEPT ![c] = to]
    /\ UNCHANGED program

Connect(c) ==
    /\ Move(c, "connect", IF program = "echo" THEN "prompt" ELSE "id")
    /\ connect(c)
    /\ UNCHANGED <<asked, shown>>

ConnectionFailed(c) ==
    /\ Move(c, "connect", "refused")
    /\ ~Held(Listener)
    /\ UNCHANGED <<asked, shown, networkVars>>

\* read(): what was sent, or nothing once the server's end is closed.
Incoming(c) == IF toClient[c] = <<>> THEN Blank ELSE Head(toClient[c])

Read(c) ==
    /\ toClient[c] = <<>> => ~Connected(c)
    /\ toClient' = [toClient EXCEPT ![c] = IF @ = <<>> THEN @ ELSE Tail(@)]
    /\ UNCHANGED <<descriptors, backlog, peers, reset, toServer>>

ReadId(c) == Move(c, "id", "prompt") /\ Read(c) /\ UNCHANGED <<asked, shown>>

ReadReply(c) ==
    /\ Move(c, "reply", "prompt")
    /\ Read(c)
    /\ shown' = [shown EXCEPT ![c] = Append(@, Incoming(c))]
    /\ UNCHANGED asked

Leave(c) == peers' = peers \ {c}

\* The user types a line; after `kill' the client leaves without reading.
Type(c, word) ==
    LET line == [from |-> c, nr |-> Len(asked[c]) + 1, word |-> word]
    IN  /\ Len(asked[c]) < MaxLines
        /\ asked' = [asked EXCEPT ![c] = Append(@, line)]
        /\ toServer' = [toServer EXCEPT ![c] = IF Connected(c) THEN Append(@, line) ELSE @]
        /\ UNCHANGED <<shown, descriptors, backlog, reset, toClient>>

SendLine(c) ==
    /\ Move(c, "prompt", "reply")
    /\ \E word \in Words \ {"kill"} : Type(c, word)
    /\ UNCHANGED peers

SendKill(c) == Move(c, "prompt", "left") /\ Type(c, "kill") /\ Leave(c)

\* To send once more to a server that has answered with a reset ends the client.
BrokenPipe(c) ==
    /\ Move(c, "prompt", "left")
    /\ ~Connected(c)
    /\ \E word \in Words : Type(c, word)
    /\ Leave(c)

\* getline() returns -1.
EndInput(c) ==
    /\ Move(c, "prompt", "left")
    /\ Leave(c)
    /\ UNCHANGED <<asked, shown, descriptors, backlog, reset, toServer, toClient>>

Reads(c) == ReadId(c) \/ ReadReply(c)
=============================================================================
