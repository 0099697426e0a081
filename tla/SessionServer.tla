---------------------------- MODULE SessionServer ----------------------------
(***************************************************************************)
(* What the three servers under classwork/sockets share: main() accepts a  *)
(* connection and hands it to a handler, which reads a line, obeys it, and *)
(* sends it back.  The handler of client c is named c: a call in the echo  *)
(* server, a child process in the fork server, a thread in the other one.  *)
(*                                                                         *)
(* An operator whose comment starts with `Slip' is a plausible mistake in  *)
(* the definition that follows it, kept to show that a property can fail.  *)
(***************************************************************************)
EXTENDS SessionClient

VARIABLES
    server,                   \* main(): what it does next
    new_socket,               \* main(): the connection accepted last
    accept_new_connections,
    handler, received         \* per handler: what it does next, and its buffer

serverVars == <<server, new_socket, accept_new_connections, handler, received>>

vars == <<program, clientVars, networkVars, serverVars>>

NoSocket == "none"

ServerLabels == {"accept", "handle", "test", "create", "fork", "ended", "failed"}

\* "none": there is no handler (yet); "failed": there will be none.
HandlerLabels == {"none", "failed", "id", "read", "obey", "answer", "close", "ended"}

TypeOK ==
    /\ program \in {"echo", "fork", "thread"}
    /\ client \in [Clients -> ClientLabels]
    /\ asked \in [Clients -> Seq(Lines)]
    /\ shown \in [Clients -> Seq(Lines \cup {Blank})]
    /\ descriptors \in [Processes -> SUBSET Sockets]
    /\ backlog \in Seq(Clients)
    /\ peers \subseteq Clients
    /\ reset \subseteq Clients
    /\ toServer \in [Clients -> Seq(Lines)]
    /\ toClient \in [Clients -> Seq(Lines \cup {Id, Blank})]
    /\ server \in ServerLabels
    /\ new_socket \in Clients \cup {NoSocket}
    /\ accept_new_connections \in BOOLEAN
    /\ handler \in [Clients -> HandlerLabels]
    /\ received \in [Clients -> Lines \cup {Blank}]
    /\ \A h \in Clients : handler[h] \in {"none", "failed", "id", "read"} => received[h] = Blank

Init ==
    /\ ClientInit
    /\ NetworkInit
    /\ server = "accept"
    /\ new_socket = NoSocket
    /\ accept_new_connections = TRUE
    /\ handler = [c \in Clients |-> "none"]
    /\ received = [c \in Clients |-> Blank]

-----------------------------------------------------------------------------
(***************************************************************************)
(* main()                                                                  *)
(***************************************************************************)
MainMoves(from, to) ==
    /\ server = from
    /\ server' = to
    /\ UNCHANGED <<program, clientVars, accept_new_connections, received>>

AcceptConnection(to) ==
    /\ MainMoves("accept", to)
    /\ accept
    /\ new_socket' = Head(backlog)

\* The process of main() ends, and with it the handlers that run in it.
Dead == [c \in Clients |-> IF handler[c] \in {"none", "failed"} THEN handler[c] ELSE "ended"]

EndProcess(status) ==
    /\ server' = status
    /\ exit(Main)
    /\ handler' = Dead

(***************************************************************************)
(* handle_connection()                                                     *)
(***************************************************************************)
\* Slip: all handlers are given a pointer to the same variable.
SocketShared(h) == new_socket

\* Each handler has a copy of new_socket of its own.
SocketOf(h) == h

HandlerMoves(h, from, to) ==
    /\ handler[h] = from
    /\ handler' = [handler EXCEPT ![h] = to]
    /\ UNCHANGED <<program, clientVars, new_socket>>

SendId(h) ==
    /\ HandlerMoves(h, "id", "read")
    /\ send(SocketOf(h), Id)
    /\ UNCHANGED <<descriptors, server, accept_new_connections, received>>

\* read() returns a line, or at the end of the connection nothing: it leaves the
\* buffer as it was.
Receive(h, to) ==
    LET s == SocketOf(h)
    IN  /\ HandlerMoves(h, "read", to)
        /\ toServer[s] = <<>> => s \notin peers
        /\ received' = [received EXCEPT ![h] = IF toServer[s] = <<>> THEN @ ELSE Head(toServer[s])]
        /\ toServer' = [toServer EXCEPT ![s] = IF @ = <<>> THEN @ ELSE Tail(@)]
        /\ UNCHANGED <<descriptors, backlog, peers, reset, toClient, server, accept_new_connections>>

\* Slip: the buffer is not cleared.
SendBackUncleared(h, to) ==
    /\ HandlerMoves(h, "answer", to)
    /\ send(SocketOf(h), received[h])
    /\ UNCHANGED <<accept_new_connections, received>>

\* The line is sent back and the buffer cleared.
SendBack(h, to) ==
    /\ HandlerMoves(h, "answer", to)
    /\ send(SocketOf(h), received[h])
    /\ received' = [received EXCEPT ![h] = Blank]
    /\ UNCHANGED accept_new_connections

\* The echo and the fork server send strlen(buffer) bytes: none, if it is empty.
EchoLine(h) ==
    /\ received[h].word \notin {"kill", "blank"}
    /\ SendBack(h, "read")
    /\ UNCHANGED <<descriptors, server>>

EchoNothing(h) ==
    /\ received[h] = Blank
    /\ HandlerMoves(h, "answer", "read")
    /\ UNCHANGED <<networkVars, server, accept_new_connections, received>>
=============================================================================
