----------------------------- MODULE ThreadServer -----------------------------
(***************************************************************************)
(* classwork/sockets/thread_session_server.c: a thread per connection.     *)
(* `kill' ends the thread; `killserver' clears accept_new_connections,     *)
(* which main() tests when it has already accepted the next connection.    *)
(***************************************************************************)
EXTENDS SessionServer

ThreadAccept == program = "thread" /\ AcceptConnection("test") /\ UNCHANGED handler

\* Slip: main() does not look at the flag.
ThreadSkipsTest ==
    /\ program = "thread"
    /\ MainMoves("test", "create")
    /\ UNCHANGED <<new_socket, handler, networkVars>>

ThreadTest ==
    /\ program = "thread"
    /\ MainMoves("test", IF accept_new_connections THEN "create" ELSE "accept")
    /\ UNCHANGED <<new_socket, handler, networkVars>>

ThreadCreate ==
    /\ program = "thread"
    /\ MainMoves("create", "accept")
    /\ handler' = [handler EXCEPT ![new_socket] = "id"]
    /\ UNCHANGED <<new_socket, networkVars>>

\* main() returns 1, which ends the process and all its threads.
ThreadCreateFails ==
    /\ program = "thread"
    /\ server = "create"
    /\ EndProcess("failed")
    /\ UNCHANGED <<program, clientVars, new_socket, accept_new_connections, received,
                   backlog, peers, reset, toServer, toClient>>

ThreadSendId(h) == program = "thread" /\ SendId(h)

ThreadRead(h) == program = "thread" /\ Receive(h, "obey")

\* Slip: `killserver' is obeyed and not answered.
ThreadObeyContinues(h) ==
    /\ program = "thread"
    /\ HandlerMoves(h, "obey", IF received[h].word = "killserver" THEN "read" ELSE "answer")
    /\ accept_new_connections' = (accept_new_connections /\ received[h].word # "killserver")
    /\ received' = [received EXCEPT ![h] = IF received[h].word = "killserver" THEN Blank ELSE @]
    /\ UNCHANGED <<networkVars, server>>

\* Slip: only the first four letters are compared.
ThreadObeyPrefix(h) ==
    /\ program = "thread"
    /\ HandlerMoves(h, "obey", "answer")
    /\ accept_new_connections' =
          (accept_new_connections /\ received[h].word \notin {"kill", "killserver"})
    /\ UNCHANGED <<networkVars, server, received>>

ThreadObey(h) ==
    /\ program = "thread"
    /\ HandlerMoves(h, "obey", "answer")
    /\ accept_new_connections' = (accept_new_connections /\ received[h].word # "killserver")
    /\ UNCHANGED <<networkVars, server, received>>

\* Always 1024 bytes, also when the client is gone.
ThreadAnswer(h) ==
    /\ program = "thread"
    /\ SocketOf(h) \notin reset
    /\ SendBack(h, IF received[h].word = "kill" THEN "close" ELSE "read")
    /\ UNCHANGED <<descriptors, server>>

\* To send on a connection that was reset raises SIGPIPE, which nobody handles:
\* the process ends.
ThreadBrokenPipe(h) ==
    /\ program = "thread"
    /\ handler[h] = "answer"
    /\ SocketOf(h) \in reset
    /\ EndProcess("ended")
    /\ UNCHANGED <<program, clientVars, new_socket, accept_new_connections, received,
                   backlog, peers, reset, toServer, toClient>>

\* Slip: exit() in place of close().
ThreadExits(h) ==
    /\ program = "thread"
    /\ handler[h] = "close"
    /\ EndProcess("ended")
    /\ UNCHANGED <<program, clientVars, new_socket, accept_new_connections, received,
                   backlog, peers, reset, toServer, toClient>>

ThreadClose(h) ==
    /\ program = "thread"
    /\ HandlerMoves(h, "close", "ended")
    /\ close(Main, SocketOf(h))
    /\ UNCHANGED <<backlog, peers, reset, toServer, toClient, server, accept_new_connections, received>>

ThreadHandler(h) ==
    \/ ThreadSendId(h) \/ ThreadRead(h) \/ ThreadObey(h)
    \/ ThreadAnswer(h) \/ ThreadBrokenPipe(h) \/ ThreadClose(h)
=============================================================================
