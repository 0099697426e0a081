------------------------------ MODULE ForkServer ------------------------------
(***************************************************************************)
(* classwork/sockets/fork_sesion_server.c: a child process per connection. *)
(* `kill' ends the child, `killserver' the process of main().  main()      *)
(* never closes a connection, and never waits for a child.                 *)
(***************************************************************************)
EXTENDS SessionServer

ForkAccept == program = "fork" /\ AcceptConnection("fork") /\ UNCHANGED handler

Fork ==
    /\ program = "fork"
    /\ MainMoves("fork", "accept")
    /\ fork(new_socket)
    /\ handler' = [handler EXCEPT ![new_socket] = "id"]
    /\ UNCHANGED <<new_socket, backlog, peers, reset, toServer, toClient>>

\* fork() returns -1: nobody takes care of the connection.
ForkFails ==
    /\ program = "fork"
    /\ MainMoves("fork", "accept")
    /\ handler' = [handler EXCEPT ![new_socket] = "failed"]
    /\ UNCHANGED <<new_socket, networkVars>>

ForkSendId(h) == program = "fork" /\ SendId(h)

ForkRead(h) == program = "fork" /\ Receive(h, "obey")

\* kill(getppid(), 9).  Once main() has ended, the parent is the process that
\* adopted the child; what the signal does to that one is left out.
ForkObey(h) ==
    /\ program = "fork"
    /\ HandlerMoves(h, "obey", "answer")
    /\ IF received[h].word = "killserver" THEN server' = "ended" /\ exit(Main)
                                         ELSE UNCHANGED <<server, descriptors>>
    /\ UNCHANGED <<backlog, peers, reset, toServer, toClient, accept_new_connections, received>>

ForkAnswer(h) == program = "fork" /\ (EchoLine(h) \/ EchoNothing(h))

\* exit(42) in the handler ends the child.
ForkKill(h) ==
    /\ program = "fork"
    /\ received[h].word = "kill"
    /\ SendBack(h, "ended")
    /\ exit(h)
    /\ UNCHANGED server

ForkHandler(h) ==
    ForkSendId(h) \/ ForkRead(h) \/ ForkObey(h) \/ ForkAnswer(h) \/ ForkKill(h)
=============================================================================
