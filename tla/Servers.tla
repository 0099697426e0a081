------------------------------- MODULE Servers -------------------------------
(***************************************************************************)
(* The three servers under classwork/sockets, each with its clients.       *)
(***************************************************************************)
EXTENDS EchoServer, ForkServer, ThreadServer

Client(c) ==
    \/ Connect(c) \/ ConnectionFailed(c) \/ SendLine(c) \/ SendKill(c)
    \/ BrokenPipe(c) \/ EndInput(c) \/ ReadId(c) \/ ReadReply(c)

Handler(h) == EchoHandler(h) \/ ForkHandler(h) \/ ThreadHandler(h)

ServerMain ==
    \/ EchoAccept
    \/ ForkAccept \/ Fork \/ ForkFails
    \/ ThreadAccept \/ ThreadTest \/ ThreadCreate \/ ThreadCreateFails

Next ==
    \/ \E c \in Clients : Client(c) /\ UNCHANGED serverVars
    \/ \E h \in Clients : Handler(h)
    \/ ServerMain

Spec == Init /\ [][Next]_vars

\* The kernel runs every process and thread that can run, and delivers what was
\* sent; users need not type.
Fairness ==
    /\ \A c \in Clients : WF_vars(Reads(c) /\ UNCHANGED serverVars)
    /\ \A h \in Clients : WF_vars(Handler(h))
    /\ WF_vars(ServerMain)

FairSpec == Spec /\ Fairness

-----------------------------------------------------------------------------
(***************************************************************************)
(* Properties                                                              *)
(***************************************************************************)
Said(c, word) == \E k \in DOMAIN asked[c] : asked[c][k].word = word

Unserved(c) == handler[c] \in {"none", "failed"}

\* A client that left without `kill'.
HungUp(c) == client[c] = "left" /\ ~Said(c, "kill")

Echo == INSTANCE EchoService

\* Whatever the other clients do, a client sees its own lines come back, each one
\* once and in order, until its connection breaks: handlers share neither the
\* socket nor the buffer (thread server 132-133, fork server 149-150).
ImplementsEcho == Echo!Spec

\* `killserver' has taken effect.
Shut == IF program = "fork" THEN server = "ended" ELSE ~accept_new_connections

\* main() has accepted connection c and found that connections are accepted.
Starting(c) == server \in {"create", "fork"} /\ new_socket = c

\* `killserver prevents new connections' (thread server 45, fork server 45): nobody
\* is served any more but the clients that were, and in the thread server the one
\* for whom main() is about to create a thread (127-135).
KillserverHolds ==
    \A c \in Clients : [](Shut /\ Unserved(c) /\ ~Starting(c) => []Unserved(c))

\* A session ends only because of its own client, unless the process ends in which
\* it is handled; and that process ends because of `kill' in the echo server, of
\* `killserver' in the fork server, and in the thread server because of a client
\* that left without `kill', or a thread that could not be created.
EndsForCause ==
    /\ \A c \in Clients : handler[c] = "ended" =>
          Said(c, "kill") \/ (program = "thread" /\ server \in {"ended", "failed"})
    /\ server = "ended" =>
          \/ program = "echo" /\ \E c \in Clients : Said(c, "kill")
          \/ program = "fork" /\ \E c \in Clients : Said(c, "killserver")
          \/ program = "thread" /\ \E c \in Clients : HungUp(c)
    /\ server = "failed" => program = "thread"

\* Who has a handler gets an answer to each line, or learns that the server is gone.
Answered ==
    \A c \in Clients : client[c] = "reply" /\ ~Unserved(c) ~> client[c] # "reply"

\* A client of the fork or the thread server is served in the end, unless somebody
\* said `killserver', the server has ended, or fork() failed.
Served ==
    \A c \in Clients :
        program # "echo" /\ client[c] = "id" ~>
            \/ ~Unserved(c) \/ handler[c] = "failed"
            \/ server \in {"ended", "failed"} \/ \E d \in Clients : Said(d, "killserver")

\* main() has accepted connection c and not yet decided about it.
AtHand(c) == server \in {"test", "create", "fork"} /\ new_socket = c

Waiting(c) == \E k \in DOMAIN backlog : backlog[k] = c

\* A client and its handler never both wait in recv() for the other to speak: each
\* line is answered before the next is read, `killserver' included (thread server
\* 35-70, fork server 36-74, echo server 33-60). What Answered rests on.
NeverBothRead ==
    \A c \in Clients :
        ~ /\ client[c] \in {"id", "reply"} /\ toClient[c] = <<>> /\ Connected(c)
          /\ handler[c] = "read" /\ toServer[c] = <<>>

\* A client of the fork or the thread server that waits for its session identifier
\* is in the backlog, or at hand in main(), or served, unless it could not be
\* (thread server 118-140, fork server 138-165). What Served rests on.
NotForgotten ==
    \A c \in Clients :
        program # "echo" /\ client[c] = "id" =>
            \/ Waiting(c) \/ AtHand(c) \/ handler[c] # "none"
            \/ server \in {"ended", "failed"} \/ \E d \in Clients : Said(d, "killserver")

-----------------------------------------------------------------------------
(***************************************************************************)
(* The inductive invariant                                                 *)
(***************************************************************************)
\* The process in which connection c is handled.
Host(c) == IF program = "fork" THEN c ELSE Main

Alive(c) == handler[c] \in {"id", "read", "obey", "answer", "close"}

\* Each program has its own labels, and only the fork server has children.
OwnLabels ==
    /\ server \in {"test", "create", "failed"} => program = "thread"
    /\ server = "fork" => program = "fork"
    /\ server = "handle" => program = "echo"
    /\ \A c \in Clients :
          /\ handler[c] \in {"id", "obey"} => program # "echo"
          /\ handler[c] = "close" => program = "thread"
          /\ program # "fork" => descriptors[c] = {}
    /\ program # "thread" => accept_new_connections

\* A connection is in the backlog, once, or main() has it at hand, or it has been
\* handed to a process that has it open.
HandedOver ==
    /\ server \notin {"ended", "failed"} => Listener \in descriptors[Main]
    /\ server \in {"test", "create", "fork"} =>
          new_socket \in Clients /\ new_socket \in descriptors[Main] /\ handler[new_socket] = "none"
    /\ \A j, k \in DOMAIN backlog : backlog[j] = backlog[k] => j = k
    /\ \A c \in Clients : Waiting(c) => handler[c] = "none" /\ ~ Held(c)
    /\ \A c \in Clients : Alive(c) => c \in descriptors[Host(c)]

Last(c) == asked[c][Len(asked[c])]

NotYet(c) ==
    /\ asked[c] = <<>> /\ shown[c] = <<>>
    /\ toServer[c] = <<>> /\ received[c] = Blank

Unconnected(c) == NotYet(c) /\ toClient[c] = <<>> /\ handler[c] = "none" /\ ~ Held(c) /\ ~ Waiting(c)

Greeted(c) ==
    /\ NotYet(c) /\ program # "echo"
    /\ \/ handler[c] \in {"none", "failed", "id"} /\ toClient[c] = <<>>
       \/ handler[c] = "read" /\ toClient[c] = <<Id>>
       \/ handler[c] = "ended" /\ toClient[c] \in {<<>>, <<Id>>} /\ ~ Connected(c)

\* Nothing is under way to or from the handler.
Quiet(c) == toServer[c] = <<>> /\ received[c] = Blank

Reading(c) == handler[c] = "read" \/ (handler[c] = "none" /\ program = "echo")

Prompted(c) ==
    /\ Len(asked[c]) = Len(shown[c])
    /\ toClient[c] = <<>>
    /\ Connected(c) => Quiet(c) /\ Reading(c)

\* The line last typed is on its way to the handler, with the handler, or on its
\* way back.
Awaiting(c) ==
    /\ Len(asked[c]) = Len(shown[c]) + 1
    /\ Last(c) \in Lines /\ Last(c).word # "kill"
    /\ toClient[c] \in {<<>>, <<Last(c)>>}
    /\ Connected(c) =>
          \/ toClient[c] = <<Last(c)>> /\ Quiet(c) /\ handler[c] = "read"
          \/ /\ toClient[c] = <<>> /\ toServer[c] = <<Last(c)>> /\ received[c] = Blank
             /\ Reading(c)
          \/ /\ toClient[c] = <<>> /\ toServer[c] = <<>> /\ received[c] = Last(c)
             /\ handler[c] \in {"obey", "answer"}

Session(c) ==
    /\ c \in peers <=> client[c] \in {"id", "prompt", "reply"}
    /\ client[c] \in {"connect", "refused"} => Unconnected(c)
    /\ client[c] = "id" => Greeted(c)
    /\ client[c] = "prompt" => Prompted(c)
    /\ client[c] = "reply" => Awaiting(c)
    /\ client[c] \in {"prompt", "reply"} /\ Echo!Broken(c) => ~ Connected(c) /\ toClient[c] = <<>>

IndInv == TypeOK /\ OwnLabels /\ HandedOver /\ \A c \in Clients : Session(c)

\* `kill' is on its way to the handler, or with it.
Farewell(c) ==
    /\ c \notin reset
    /\ \/ handler[c] = "read" /\ \E line \in Lines : toServer[c] = <<line>> /\ line.word = "kill"
       \/ handler[c] \in {"obey", "answer"} /\ received[c].word = "kill" /\ toServer[c] = <<>>

\* What a handler obeys was said by its client, and nothing is said after `kill'.
Heard(c) ==
    /\ \A k \in DOMAIN toServer[c] : Said(c, toServer[c][k].word)
    /\ received[c] # Blank => Said(c, received[c].word)
    /\ handler[c] = "close" => Said(c, "kill")
    /\ c \in reset \/ Said(c, "kill") => client[c] = "left"
    /\ program = "thread" /\ Said(c, "kill") /\ Connected(c) => handler[c] = "close" \/ Farewell(c)
    /\ program = "echo" /\ Alive(c) => server = "handle" /\ new_socket = c

CauseInv == IndInv /\ (\A c \in Clients : Heard(c)) /\ EndsForCause

\* main() turns nobody away before `killserver'.
QueueInv ==
    /\ CauseInv
    /\ accept_new_connections \/ \E d \in Clients : Said(d, "killserver")
    /\ NotForgotten
=============================================================================
