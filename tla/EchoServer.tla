------------------------------ MODULE EchoServer ------------------------------
(***************************************************************************)
(* classwork/sockets/echo_server.c: main() handles one connection itself,  *)
(* for as long as it runs; `kill' ends the server.                         *)
(***************************************************************************)
EXTENDS SessionServer

EchoAccept ==
    /\ program = "echo"
    /\ AcceptConnection("handle")
    /\ handler' = [handler EXCEPT ![Head(backlog)] = "read"]

EchoRead(h) == program = "echo" /\ Receive(h, "answer")

EchoAnswer(h) == program = "echo" /\ (EchoLine(h) \/ EchoNothing(h))

\* exit(42) in the handler ends main().
EchoKill(h) ==
    /\ program = "echo"
    /\ handler[h] = "answer"
    /\ received[h].word = "kill"
    /\ send(SocketOf(h), received[h])
    /\ EndProcess("ended")
    /\ received' = [received EXCEPT ![h] = Blank]
    /\ UNCHANGED <<program, clientVars, new_socket, accept_new_connections>>

EchoHandler(h) == EchoRead(h) \/ EchoAnswer(h) \/ EchoKill(h)
=============================================================================
