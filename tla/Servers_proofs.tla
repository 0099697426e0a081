---------------------------- MODULE Servers_proofs ----------------------------
(***************************************************************************)
(* Safety of Servers, for any set of clients, any length of the backlog    *)
(* and any number of lines: sessions are kept apart, every line comes back *)
(* once and in order, and `killserver' prevents new sessions.              *)
(***************************************************************************)
EXTENDS Servers, SequenceTheorems, TLAPS

\* A line is neither blank nor an id.
LEMMA Vocabulary ==
    /\ Blank \notin Lines /\ Id \notin Lines /\ Id # Blank
    /\ Blank.word = "blank"
    /\ \A line \in Lines : line.word \in Words
BY DEF Blank, Id, Lines, Words

LEMMA SingleFacts ==
    ASSUME NEW x
    PROVE  Len(<<x>>) = 1 /\ Head(<<x>>) = x /\ Tail(<<x>>) = <<>> /\ <<x>> # <<>>
OBVIOUS

LEMMA AppendEmpty ==
    ASSUME NEW x
    PROVE  Append(<<>>, x) = <<x>>
OBVIOUS

LEMMA EmptyDomain == DOMAIN <<>> = {}
OBVIOUS

\* The first of a queue leaves it.
LEMMA QueueFacts ==
    ASSUME NEW S, NEW q \in Seq(S), q # <<>>
    PROVE  /\ Head(q) \in S /\ Tail(q) \in Seq(S)
           /\ Len(q) \in Nat \ {0} /\ Len(Tail(q)) = Len(q) - 1
           /\ DOMAIN Tail(q) = 1 .. Len(q) - 1
           /\ Head(q) = q[1]
           /\ \A k \in DOMAIN Tail(q) : k + 1 \in DOMAIN q /\ Tail(q)[k] = q[k + 1]
OBVIOUS

LEMMA AppendFacts ==
    ASSUME NEW S, NEW q \in Seq(S), NEW x \in S
    PROVE  /\ Append(q, x) \in Seq(S)
           /\ Len(Append(q, x)) = Len(q) + 1
           /\ Append(q, x)[Len(q) + 1] = x
           /\ \A k \in 1 .. Len(q) : Append(q, x)[k] = q[k]
           /\ DOMAIN Append(q, x) = 1 .. Len(q) + 1
OBVIOUS

-----------------------------------------------------------------------------
(***************************************************************************)
(* Types                                                                   *)
(***************************************************************************)
ClientPart ==
    /\ program \in {"echo", "fork", "thread"}
    /\ client \in [Clients -> ClientLabels]
    /\ asked \in [Clients -> Seq(Lines)]
    /\ shown \in [Clients -> Seq(Lines \cup {Blank})]

NetworkPart ==
    /\ descriptors \in [Processes -> SUBSET Sockets]
    /\ backlog \in Seq(Clients)
    /\ peers \subseteq Clients
    /\ reset \subseteq Clients
    /\ toServer \in [Clients -> Seq(Lines)]
    /\ toClient \in [Clients -> Seq(Lines \cup {Id, Blank})]

ServerPart ==
    /\ server \in ServerLabels
    /\ new_socket \in Clients \cup {NoSocket}
    /\ accept_new_connections \in BOOLEAN
    /\ handler \in [Clients -> HandlerLabels]
    /\ received \in [Clients -> Lines \cup {Blank}]
    /\ \A h \in Clients : handler[h] \in {"none", "failed", "id", "read"} => received[h] = Blank

LEMMA TypeParts == TypeOK <=> ClientPart /\ NetworkPart /\ ServerPart
BY DEF TypeOK, ClientPart, NetworkPart, ServerPart

LEMMA TypePartsNext == TypeOK' <=> ClientPart' /\ NetworkPart' /\ ServerPart'
BY DEF TypeOK, ClientPart, NetworkPart, ServerPart

LEMMA Kinds ==
    Main \in Processes /\ Listener \in Sockets /\ Clients \subseteq Processes /\ Clients \subseteq Sockets
BY DEF Processes, Sockets

LEMMA ClientUnmoved == ASSUME ClientPart, UNCHANGED <<program, clientVars>> PROVE ClientPart'
BY DEF ClientPart, clientVars

LEMMA NetworkUnmoved == ASSUME NetworkPart, UNCHANGED networkVars PROVE NetworkPart'
BY DEF NetworkPart, networkVars

LEMMA ServerUnmoved == ASSUME ServerPart, UNCHANGED serverVars PROVE ServerPart'
BY DEF ServerPart, serverVars

\* Processes of the server may be opened and closed as they like.
LEMMA DescriptorsKept ==
    ASSUME NetworkPart, NEW p \in Processes,
           \/ UNCHANGED descriptors
           \/ exit(p)
           \/ p \in Clients /\ fork(p)
           \/ \E s : close(p, s),
           UNCHANGED <<backlog, peers, reset, toServer, toClient>>
    PROVE  NetworkPart'
<1>1. descriptors' \in [Processes -> SUBSET Sockets]
  BY Kinds DEF NetworkPart, exit, fork, close
<1> QED
  BY <1>1 DEF NetworkPart

LEMMA SendKept ==
    ASSUME NetworkPart, NEW c \in Clients, NEW message \in Lines \cup {Id, Blank}, send(c, message),
           UNCHANGED descriptors \/ exit(c) \/ exit(Main)
    PROVE  NetworkPart'
<1>1. Append(toClient[c], message) \in Seq(Lines \cup {Id, Blank})
  BY DEF NetworkPart
<1>2. toClient' \in [Clients -> Seq(Lines \cup {Id, Blank})] /\ reset' \subseteq Clients
  BY <1>1 DEF NetworkPart, send
<1>3. descriptors' \in [Processes -> SUBSET Sockets]
  BY Kinds DEF NetworkPart, exit
<1> QED
  BY <1>2, <1>3 DEF NetworkPart, send

\* A line typed is a line.
LEMMA TypedLine ==
    ASSUME ClientPart, NEW c \in Clients, NEW word \in Words, Type(c, word)
    PROVE  [from |-> c, nr |-> Len(asked[c]) + 1, word |-> word] \in Lines
<1>1. Len(asked[c]) \in Nat /\ Len(asked[c]) < MaxLines
  BY DEF ClientPart, Type
<1>2. Len(asked[c]) + 1 \in 1 .. MaxLines
  BY <1>1, LineAssumption
<1> QED
  BY <1>2 DEF Lines

LEMMA TypeKept ==
    ASSUME ClientPart, NetworkPart, NEW c \in Clients, NEW word \in Words, Type(c, word),
           client' \in [Clients -> ClientLabels], UNCHANGED program, peers' \subseteq Clients
    PROVE  ClientPart' /\ NetworkPart'
<1> DEFINE line == [from |-> c, nr |-> Len(asked[c]) + 1, word |-> word]
<1>1. line \in Lines
  BY TypedLine
<1> HIDE DEF line
<1>2. Append(asked[c], line) \in Seq(Lines)
  BY <1>1 DEF ClientPart
<1>3. Append(toServer[c], line) \in Seq(Lines)
  BY <1>1 DEF NetworkPart
<1>4. asked' \in [Clients -> Seq(Lines)]
  BY <1>2 DEF ClientPart, Type, line
<1>5. toServer' \in [Clients -> Seq(Lines)]
  BY <1>3 DEF NetworkPart, Type, line
<1> QED
  BY <1>4, <1>5 DEF ClientPart, NetworkPart, Type

LEMMA ReadKept ==
    ASSUME NetworkPart, NEW c \in Clients, Read(c)
    PROVE  NetworkPart' /\ Incoming(c) \in Lines \cup {Id, Blank}
<1>1. toClient[c] \in Seq(Lines \cup {Id, Blank})
  BY DEF NetworkPart
<1>2. toClient[c] # <<>> =>
        Head(toClient[c]) \in Lines \cup {Id, Blank} /\ Tail(toClient[c]) \in Seq(Lines \cup {Id, Blank})
  BY <1>1
<1>3. toClient' \in [Clients -> Seq(Lines \cup {Id, Blank})]
  BY <1>2 DEF NetworkPart, Read
<1> QED
  BY <1>2, <1>3 DEF NetworkPart, Read, Incoming

\* What the handler of c takes from the connection.
LEMMA ReceiveKept ==
    ASSUME ClientPart, NetworkPart, ServerPart, NEW h \in Clients,
           NEW to \in {"answer", "obey"}, Receive(h, to)
    PROVE  ClientPart' /\ NetworkPart' /\ ServerPart'
<1>1. toServer[h] \in Seq(Lines)
  BY DEF NetworkPart
<1>2. toServer[h] # <<>> => Head(toServer[h]) \in Lines /\ Tail(toServer[h]) \in Seq(Lines)
  BY <1>1
<1>3. NetworkPart'
  BY <1>2 DEF NetworkPart, Receive, SocketOf
<1>4. received' \in [Clients -> Lines \cup {Blank}]
  BY <1>2 DEF ServerPart, Receive, SocketOf
<1>5. ServerPart'
  BY <1>4 DEF ServerPart, Receive, SocketOf, HandlerMoves, HandlerLabels
<1> QED
  BY <1>3, <1>5, ClientUnmoved DEF Receive, HandlerMoves

\* The end of the process of main().
LEMMA EndKept ==
    ASSUME ServerPart, NEW status \in {"ended", "failed"}, EndProcess(status),
           UNCHANGED <<new_socket, accept_new_connections>>,
           \/ UNCHANGED received
           \/ \E h \in Clients : received' = [received EXCEPT ![h] = Blank]
    PROVE  ServerPart'
<1>1. handler' \in [Clients -> HandlerLabels]
  BY DEF ServerPart, EndProcess, Dead, HandlerLabels
<1>2. \A h \in Clients : received'[h] \in {received[h], Blank}
  BY DEF ServerPart
<1>3. received' \in [Clients -> Lines \cup {Blank}]
  BY DEF ServerPart
<1>4. \A h \in Clients : handler'[h] \in {"none", "failed"} => handler[h] = handler'[h]
  BY DEF EndProcess, Dead
<1>5. \A h \in Clients : handler'[h] \in {"none", "failed", "ended"}
  BY DEF EndProcess, Dead
<1>6. \A h \in Clients : handler'[h] \in {"none", "failed", "id", "read"} => received'[h] = Blank
  BY <1>2, <1>4, <1>5 DEF ServerPart
<1> QED
  BY <1>1, <1>3, <1>6 DEF ServerPart, EndProcess, ServerLabels

LEMMA InitType == Init => ClientPart /\ NetworkPart /\ ServerPart
<1> SUFFICES ASSUME Init PROVE ClientPart /\ NetworkPart /\ ServerPart
  OBVIOUS
<1>1. ClientPart
  BY DEF Init, ClientInit, ClientPart, ClientLabels
<1>2. NetworkPart
  BY Kinds DEF Init, NetworkInit, NetworkPart
<1>3. ServerPart
  BY DEF Init, ServerPart, ServerLabels, HandlerLabels
<1> QED
  BY <1>1, <1>2, <1>3

LEMMA ClientTypes ==
    ASSUME ClientPart, NetworkPart, ServerPart, NEW c \in Clients, Client(c), UNCHANGED serverVars,
           client[c] = "reply" => Incoming(c) \in Lines \cup {Blank}
    PROVE  ClientPart' /\ NetworkPart' /\ ServerPart'
<1>1. ServerPart'
  BY ServerUnmoved
<1>2. \A from, to : Move(c, from, to) /\ to \in ClientLabels => client' \in [Clients -> ClientLabels] /\ UNCHANGED program
  BY DEF Move, ClientPart
<1>3. CASE Connect(c)
  <2>1. backlog' \in Seq(Clients)
    BY <1>3, AppendFacts DEF Connect, connect, NetworkPart
  <2> QED
    BY <1>1, <1>2, <1>3, <2>1 DEF Connect, connect, ClientLabels, ClientPart, NetworkPart
<1>4. CASE ConnectionFailed(c)
  BY <1>1, <1>2, <1>4 DEF ConnectionFailed, networkVars, ClientLabels, ClientPart, NetworkPart
<1>5. CASE SendLine(c)
  <2>1. PICK word \in Words : Type(c, word)
    BY <1>5 DEF SendLine
  <2>2. client' \in [Clients -> ClientLabels] /\ UNCHANGED program /\ peers' \subseteq Clients
    BY <1>2, <1>5 DEF SendLine, ClientLabels, NetworkPart
  <2> QED
    BY <1>1, <2>1, <2>2, TypeKept
<1>6. CASE SendKill(c)
  <2>1. "kill" \in Words /\ Type(c, "kill")
    BY <1>6 DEF SendKill, Words
  <2>2. client' \in [Clients -> ClientLabels] /\ UNCHANGED program /\ peers' \subseteq Clients
    BY <1>2, <1>6 DEF SendKill, Leave, ClientLabels, NetworkPart
  <2> QED
    BY <1>1, <2>1, <2>2, TypeKept
<1>7. CASE BrokenPipe(c)
  <2>1. PICK word \in Words : Type(c, word)
    BY <1>7 DEF BrokenPipe
  <2>2. client' \in [Clients -> ClientLabels] /\ UNCHANGED program /\ peers' \subseteq Clients
    BY <1>2, <1>7 DEF BrokenPipe, Leave, ClientLabels, NetworkPart
  <2> QED
    BY <1>1, <2>1, <2>2, TypeKept
<1>8. CASE EndInput(c)
  BY <1>1, <1>2, <1>8 DEF EndInput, Leave, ClientLabels, ClientPart, NetworkPart
<1>9. CASE ReadId(c)
  BY <1>1, <1>2, <1>9, ReadKept DEF ReadId, ClientLabels, ClientPart
<1>10. CASE ReadReply(c)
  <2>1. NetworkPart'
    BY <1>10, ReadKept DEF ReadReply
  <2>2. client' \in [Clients -> ClientLabels] /\ UNCHANGED program
    BY <1>2, <1>10 DEF ReadReply, ClientLabels
  <2>3. Incoming(c) \in Lines \cup {Blank} /\ shown[c] \in Seq(Lines \cup {Blank})
    BY <1>10 DEF ReadReply, Move, ClientPart
  <2>4. Append(shown[c], Incoming(c)) \in Seq(Lines \cup {Blank})
    BY <2>3
  <2>5. shown' \in [Clients -> Seq(Lines \cup {Blank})]
    BY <1>10, <2>4 DEF ReadReply, ClientPart
  <2> QED
    BY <1>1, <1>10, <2>1, <2>2, <2>5 DEF ReadReply, ClientPart
<1> QED
  BY <1>3, <1>4, <1>5, <1>6, <1>7, <1>8, <1>9, <1>10 DEF Client

\* The conditions on handlers that the start of a session needs.
LEMMA ServerTypes ==
    ASSUME ClientPart, NetworkPart, ServerPart,
           server \in {"test", "create", "fork"} =>
               new_socket \in Clients /\ handler[new_socket] = "none",
           \A c \in Clients : Waiting(c) => handler[c] = "none",
           \/ ServerMain
           \/ \E h \in Clients : Handler(h)
    PROVE  ClientPart' /\ NetworkPart' /\ ServerPart'
<1>1. ASSUME NEW to \in ServerLabels, AcceptConnection(to),
             \/ UNCHANGED handler
             \/ handler' = [handler EXCEPT ![Head(backlog)] = "read"]
      PROVE  ClientPart' /\ NetworkPart' /\ ServerPart'
  <2>1. Head(backlog) \in Clients /\ Tail(backlog) \in Seq(Clients) /\ Waiting(Head(backlog))
    <3>1. backlog \in Seq(Clients) /\ backlog # <<>>
      BY <1>1 DEF AcceptConnection, accept, NetworkPart
    <3>2. 1 \in DOMAIN backlog
      BY <3>1
    <3> QED
      BY <3>1, <3>2, QueueFacts DEF Waiting
  <2>2. ClientPart'
    BY <1>1, ClientUnmoved DEF AcceptConnection, MainMoves
  <2>3. descriptors' \in [Processes -> SUBSET Sockets]
    BY <1>1, <2>1, Kinds DEF AcceptConnection, accept, NetworkPart
  <2>4. NetworkPart'
    BY <1>1, <2>1, <2>3 DEF AcceptConnection, accept, NetworkPart
  <2>5. received[Head(backlog)] = Blank
    BY <2>1 DEF ServerPart
  <2>6. handler' \in [Clients -> HandlerLabels]
    BY <1>1 DEF ServerPart, HandlerLabels
  <2>7. ServerPart'
    BY <1>1, <2>1, <2>5, <2>6 DEF AcceptConnection, MainMoves, ServerPart
  <2> QED
    BY <2>2, <2>4, <2>7
<1>2. ASSUME NEW h \in Clients, NEW from, NEW to \in HandlerLabels, HandlerMoves(h, from, to),
             UNCHANGED accept_new_connections, server' \in ServerLabels,
             \/ UNCHANGED received /\ (to = "read" => received[h] = Blank) /\ to \notin {"none", "failed", "id"}
             \/ received' = [received EXCEPT ![h] = Blank]
      PROVE  ClientPart' /\ ServerPart'
  <2>1. ClientPart'
    BY <1>2, ClientUnmoved DEF HandlerMoves
  <2>2. handler' \in [Clients -> HandlerLabels]
    BY <1>2 DEF HandlerMoves, ServerPart
  <2>3. received' \in [Clients -> Lines \cup {Blank}]
    BY <1>2 DEF ServerPart
  <2>4. ASSUME NEW g \in Clients, handler'[g] \in {"none", "failed", "id", "read"} PROVE received'[g] = Blank
    BY <1>2, <2>4 DEF HandlerMoves, ServerPart
  <2> QED
    BY <1>2, <2>1, <2>2, <2>3, <2>4 DEF HandlerMoves, ServerPart
<1>3. CASE ServerMain
  <2>1. CASE EchoAccept
    BY <1>1, <2>1 DEF EchoAccept, ServerLabels
  <2>2. CASE ForkAccept
    BY <1>1, <2>2 DEF ForkAccept, ServerLabels
  <2>3. CASE ThreadAccept
    BY <1>1, <2>3 DEF ThreadAccept, ServerLabels
  <2>4. CASE Fork \/ ForkFails \/ ThreadCreate
    <3>1. server \in {"fork", "create"} /\ server' = "accept"
      BY <2>4 DEF Fork, ForkFails, ThreadCreate, MainMoves
    <3>2. new_socket \in Clients /\ new_socket \in Processes /\ received[new_socket] = Blank
      BY <3>1, Kinds DEF ServerPart
    <3>3. handler' = [handler EXCEPT ![new_socket] = "id"] \/ handler' = [handler EXCEPT ![new_socket] = "failed"]
      BY <2>4 DEF Fork, ForkFails, ThreadCreate
    <3>4. ServerPart'
      BY <2>4, <3>1, <3>2, <3>3 DEF Fork, ForkFails, ThreadCreate, MainMoves, ServerPart,
                                    HandlerLabels, ServerLabels
    <3>5. NetworkPart'
      BY <2>4, <3>2, DescriptorsKept DEF Fork, ForkFails, ThreadCreate, networkVars
    <3> QED
      BY <2>4, <3>4, <3>5, ClientUnmoved DEF Fork, ForkFails, ThreadCreate, MainMoves
  <2>5. CASE ThreadTest
    <3>1. NetworkPart'
      BY <2>5, NetworkUnmoved DEF ThreadTest
    <3>2. ServerPart'
      BY <2>5 DEF ThreadTest, MainMoves, ServerPart, ServerLabels
    <3> QED
      BY <2>5, <3>1, <3>2, ClientUnmoved DEF ThreadTest, MainMoves
  <2>6. CASE ThreadCreateFails
    <3>1. NetworkPart'
      BY <2>6, DescriptorsKept, Kinds DEF ThreadCreateFails, EndProcess
    <3>2. ServerPart'
      BY <2>6, EndKept DEF ThreadCreateFails
    <3> QED
      BY <2>6, <3>1, <3>2, ClientUnmoved DEF ThreadCreateFails
  <2> QED
    BY <1>3, <2>1, <2>2, <2>3, <2>4, <2>5, <2>6 DEF ServerMain
<1>4. ASSUME NEW h \in Clients, Handler(h) PROVE ClientPart' /\ NetworkPart' /\ ServerPart'
  <2>0. received[h] \in Lines \cup {Id, Blank} /\ h \in Processes
    BY Kinds DEF ServerPart
  <2>1. CASE EchoRead(h) \/ ForkRead(h) \/ ThreadRead(h)
    BY <2>1, ReceiveKept DEF EchoRead, ForkRead, ThreadRead
  <2>2. CASE ForkSendId(h) \/ ThreadSendId(h)
    <3>1. SendId(h)
      BY <2>2 DEF ForkSendId, ThreadSendId
    <3>2. NetworkPart'
      BY <3>1, SendKept DEF SendId, SocketOf
    <3>3. UNCHANGED <<server, new_socket, accept_new_connections, received>> /\ received[h] = Blank
      BY <3>1 DEF SendId, HandlerMoves, ServerPart
    <3>4. ClientPart' /\ ServerPart'
      BY <1>2, <3>1, <3>3 DEF SendId, HandlerLabels, ServerPart
    <3> QED
      BY <3>2, <3>4
  <2>3. CASE EchoAnswer(h) \/ ForkAnswer(h)
    <3>1. CASE EchoLine(h)
      <4>1. SendBack(h, "read") /\ UNCHANGED <<descriptors, server>>
        BY <3>1 DEF EchoLine
      <4>2. NetworkPart'
        BY <2>0, <4>1, SendKept DEF SendBack, SocketOf
      <4>3. ClientPart' /\ ServerPart'
        BY <1>2, <4>1 DEF SendBack, HandlerLabels, ServerPart
      <4> QED
        BY <4>2, <4>3
    <3>2. CASE EchoNothing(h)
      <4>1. NetworkPart'
        BY <3>2, NetworkUnmoved DEF EchoNothing
      <4>2. ClientPart' /\ ServerPart'
        BY <1>2, <3>2 DEF EchoNothing, HandlerLabels, ServerPart
      <4> QED
        BY <4>1, <4>2
    <3> QED
      BY <2>3, <3>1, <3>2 DEF EchoAnswer, ForkAnswer
  <2>4. CASE EchoKill(h)
    <3>1. NetworkPart'
      BY <2>0, <2>4, SendKept DEF EchoKill, SocketOf, EndProcess
    <3>2. ServerPart'
      BY <2>4, EndKept DEF EchoKill
    <3> QED
      BY <2>4, <3>1, <3>2, ClientUnmoved DEF EchoKill
  <2>5. CASE ForkObey(h)
    <3>1. NetworkPart'
      BY <2>5, DescriptorsKept, Kinds DEF ForkObey
    <3>2. server' \in ServerLabels
      BY <2>5 DEF ForkObey, ServerPart, ServerLabels
    <3>3. ClientPart' /\ ServerPart'
      BY <1>2, <2>5, <3>2 DEF ForkObey, HandlerLabels
    <3> QED
      BY <3>1, <3>3
  <2>6. CASE ForkKill(h)
    <3>1. NetworkPart'
      BY <2>0, <2>6, SendKept DEF ForkKill, SendBack, SocketOf
    <3>2. ClientPart' /\ ServerPart'
      BY <1>2, <2>6 DEF ForkKill, SendBack, HandlerLabels, ServerPart
    <3> QED
      BY <3>1, <3>2
  <2>7. CASE ThreadObey(h)
    <3>1. NetworkPart' /\ ClientPart'
      BY <2>7, NetworkUnmoved, ClientUnmoved DEF ThreadObey, HandlerMoves
    <3>2. ServerPart'
      BY <2>7 DEF ThreadObey, HandlerMoves, ServerPart, HandlerLabels
    <3> QED
      BY <3>1, <3>2
  <2>8. CASE ThreadAnswer(h)
    <3>1. NetworkPart'
      BY <2>0, <2>8, SendKept DEF ThreadAnswer, SendBack, SocketOf
    <3>2. PICK to \in HandlerLabels : SendBack(h, to)
      BY <2>8 DEF ThreadAnswer, HandlerLabels
    <3>3. ClientPart' /\ ServerPart'
      BY <1>2, <2>8, <3>2 DEF ThreadAnswer, SendBack, ServerPart
    <3> QED
      BY <3>1, <3>3
  <2>9. CASE ThreadBrokenPipe(h)
    <3>1. NetworkPart'
      BY <2>9, DescriptorsKept, Kinds DEF ThreadBrokenPipe, EndProcess
    <3>2. ServerPart'
      BY <2>9, EndKept DEF ThreadBrokenPipe
    <3> QED
      BY <2>9, <3>1, <3>2, ClientUnmoved DEF ThreadBrokenPipe
  <2>10. CASE ThreadClose(h)
    <3>1. NetworkPart'
      BY <2>10, DescriptorsKept, Kinds DEF ThreadClose
    <3>2. ClientPart' /\ ServerPart'
      BY <1>2, <2>10 DEF ThreadClose, HandlerLabels, ServerPart
    <3> QED
      BY <3>1, <3>2
  <2> QED
    BY <1>4, <2>1, <2>2, <2>3, <2>4, <2>5, <2>6, <2>7, <2>8, <2>9, <2>10
       DEF Handler, EchoHandler, ForkHandler, ThreadHandler
<1> QED
  BY <1>3, <1>4

-----------------------------------------------------------------------------
(***************************************************************************)
(* Labels                                                                  *)
(***************************************************************************)
\* A client's step leaves the processes of the server alone.
LEMMA ClientFrame ==
    ASSUME NEW c \in Clients, Client(c), UNCHANGED serverVars
    PROVE  UNCHANGED <<program, descriptors, server, new_socket, accept_new_connections, handler, received>>
BY DEF Client, Connect, ConnectionFailed, SendLine, SendKill, BrokenPipe, EndInput, ReadId, ReadReply,
       Move, connect, Type, Read, networkVars, serverVars

\* main() touches no message.
LEMMA MainFrame ==
    ASSUME ServerMain
    PROVE  UNCHANGED <<program, clientVars, peers, reset, toServer, toClient, received>>
BY DEF ServerMain, EchoAccept, ForkAccept, ThreadAccept, AcceptConnection, accept, Fork, ForkFails, ThreadTest,
       ThreadCreate, ThreadCreateFails, MainMoves, networkVars

\* A handler's step leaves the clients alone.
LEMMA HandlerFrame ==
    ASSUME NEW h \in Clients, Handler(h)
    PROVE  /\ UNCHANGED <<program, clientVars, new_socket, backlog, peers>>
           /\ Alive(h)
BY DEF Alive, send, networkVars,
   Handler, EchoHandler, ForkHandler, ThreadHandler, EchoRead, EchoAnswer, EchoKill, ForkSendId, ForkRead,
   ForkObey, ForkAnswer, ForkKill, ThreadSendId, ThreadRead, ThreadObey, ThreadAnswer, ThreadBrokenPipe,
   ThreadClose, SendId, Receive, SendBack, EchoLine, EchoNothing, HandlerMoves

\* What the end of the process of main() leaves.
LEMMA EndFrame ==
    ASSUME TypeOK, NEW status, EndProcess(status)
    PROVE  /\ server' = status
           /\ descriptors'[Main] = {}
           /\ \A c \in Clients :
                 /\ descriptors'[c] = descriptors[c]
                 /\ handler'[c] = IF handler[c] \in {"none", "failed"} THEN handler[c] ELSE "ended"
BY Kinds, ConnectionAssumption DEF EndProcess, Dead, exit, TypeOK

LEMMA OwnLabelsKept ==
    ASSUME TypeOK, OwnLabels, Next
    PROVE  OwnLabels'
<1>1. CASE \E c \in Clients : Client(c) /\ UNCHANGED serverVars
  BY <1>1, ClientFrame DEF OwnLabels
<1>2. ASSUME NEW status, EndProcess(status), program # "fork", UNCHANGED <<program, accept_new_connections>>,
             status = "ended" \/ (status = "failed" /\ program = "thread")
      PROVE  OwnLabels'
  <2>1. \A c \in Clients : handler'[c] \in {"none", "failed", "ended"}
    BY <1>2, EndFrame
  <2> QED
    BY <1>2, <2>1, EndFrame DEF OwnLabels
<1>3. ASSUME NEW h \in Clients, Handler(h) PROVE OwnLabels'
  <2>1. CASE EchoRead(h) \/ ForkRead(h) \/ ThreadRead(h) \/ ForkSendId(h) \/ ThreadSendId(h)
    BY <2>1 DEF EchoRead, ForkRead, ThreadRead, ForkSendId, ThreadSendId, Receive, SendId, HandlerMoves, OwnLabels, TypeOK
  <2>2. CASE EchoAnswer(h) \/ ForkAnswer(h) \/ ThreadAnswer(h) \/ ThreadObey(h)
    BY <2>2 DEF EchoAnswer, ForkAnswer, ThreadAnswer, ThreadObey, EchoLine, EchoNothing, SendBack,
                networkVars, HandlerMoves, OwnLabels, TypeOK
  <2>3. CASE EchoKill(h) \/ ThreadBrokenPipe(h)
    BY <1>2, <2>3 DEF EchoKill, ThreadBrokenPipe
  <2>4. CASE ForkObey(h) \/ ForkKill(h)
    BY <2>4 DEF ForkObey, ForkKill, SendBack, HandlerMoves, OwnLabels, TypeOK
  <2>5. CASE ThreadClose(h)
    BY <2>5, Kinds, ConnectionAssumption DEF ThreadClose, HandlerMoves, close, OwnLabels, TypeOK
  <2> QED
    BY <1>3, <2>1, <2>2, <2>3, <2>4, <2>5 DEF Handler, EchoHandler, ForkHandler, ThreadHandler
<1>4. CASE ServerMain
  <2>1. CASE EchoAccept \/ ForkAccept \/ ThreadAccept
    BY <2>1, Kinds, ConnectionAssumption DEF EchoAccept, ForkAccept, ThreadAccept, AcceptConnection, MainMoves,
                    accept, OwnLabels, TypeOK
  <2>2. CASE Fork \/ ForkFails
    BY <2>2 DEF Fork, ForkFails, MainMoves, networkVars, OwnLabels, TypeOK
  <2>3. CASE ThreadTest \/ ThreadCreate
    BY <2>3 DEF ThreadTest, ThreadCreate, MainMoves, networkVars, OwnLabels, TypeOK
  <2>4. CASE ThreadCreateFails
    BY <1>2, <2>4 DEF ThreadCreateFails
  <2> QED
    BY <1>4, <2>1, <2>2, <2>3, <2>4 DEF ServerMain
<1> QED
  BY <1>1, <1>3, <1>4 DEF Next

-----------------------------------------------------------------------------
(***************************************************************************)
(* The way of a connection: backlog, main(), handler                       *)
(***************************************************************************)
\* accept() takes a connection from the backlog for good.
LEMMA AcceptFrame ==
    ASSUME TypeOK, HandedOver, server = "accept", accept
    PROVE  /\ Head(backlog) \in Clients /\ Waiting(Head(backlog))
           /\ \A j, k \in DOMAIN backlog' : backlog'[j] = backlog'[k] => j = k
           /\ \A c \in Clients : Waiting(c)' => Waiting(c) /\ c # Head(backlog)
           /\ \A c \in Clients : Held(c)' => Held(c) \/ c = Head(backlog)
           /\ \A c \in Clients : Connected(c)' => Connected(c)
           /\ descriptors'[Main] = descriptors[Main] \cup {Head(backlog)}
           /\ \A c \in Clients : descriptors'[c] = descriptors[c]
           /\ Held(Listener)
<1>1. backlog \in Seq(Clients) /\ backlog # <<>> /\ backlog' = Tail(backlog)
  BY DEF TypeOK, accept
<1>2. /\ Head(backlog) \in Clients /\ Head(backlog) = backlog[1]
      /\ Len(backlog) \in Nat \ {0} /\ DOMAIN backlog = 1 .. Len(backlog)
      /\ DOMAIN backlog' = 1 .. Len(backlog) - 1
      /\ \A k \in DOMAIN backlog' : k + 1 \in DOMAIN backlog /\ backlog'[k] = backlog[k + 1]
  BY <1>1, QueueFacts
<1>3. 1 \in DOMAIN backlog /\ Waiting(Head(backlog))
  BY <1>2 DEF Waiting
<1>4. \A j, k \in DOMAIN backlog : backlog[j] = backlog[k] => j = k
  BY DEF HandedOver
<1>5. \A j, k \in DOMAIN backlog' : backlog'[j] = backlog'[k] => j = k
  BY <1>2, <1>4
<1>6. ASSUME NEW c \in Clients, Waiting(c)' PROVE Waiting(c) /\ c # Head(backlog)
  <2>1. PICK k \in DOMAIN backlog' : backlog'[k] = c
    BY <1>6 DEF Waiting
  <2>2. k + 1 \in DOMAIN backlog /\ backlog[k + 1] = c /\ k + 1 # 1
    BY <1>2, <2>1
  <2> QED
    BY <1>2, <1>3, <1>4, <2>2 DEF Waiting
<1>7. /\ descriptors'[Main] = descriptors[Main] \cup {Head(backlog)}
      /\ \A c \in Clients : descriptors'[c] = descriptors[c]
  BY Kinds, ConnectionAssumption DEF accept, TypeOK
<1>8. \A s : Held(s)' => Held(s) \/ s = Head(backlog)
  BY <1>7 DEF Held, Processes
<1>9. Held(Listener)
  BY Kinds DEF HandedOver, Held
<1>10. \A c \in Clients : Connected(c)' => Connected(c)
  BY <1>3, <1>6, <1>8, <1>9 DEF Connected, Waiting
<1> QED
  BY <1>2, <1>3, <1>5, <1>6, <1>7, <1>8, <1>9, <1>10

\* A child has open what main() has open.
LEMMA ForkFrame ==
    ASSUME TypeOK, NEW child \in Clients, fork(child)
    PROVE  /\ descriptors'[Main] = descriptors[Main] /\ descriptors'[child] = descriptors[Main]
           /\ \A c \in Clients \ {child} : descriptors'[c] = descriptors[c]
           /\ \A s : Held(s)' => Held(s)
<1>1. /\ descriptors'[Main] = descriptors[Main] /\ descriptors'[child] = descriptors[Main]
      /\ \A c \in Clients \ {child} : descriptors'[c] = descriptors[c]
  BY Kinds, ConnectionAssumption DEF fork, TypeOK
<1>2. \A s : Held(s)' => Held(s)
  BY <1>1, Kinds DEF Held, Processes
<1> QED
  BY <1>1, <1>2

\* Nothing is opened when a process ends or closes a socket.
LEMMA CloseFrame ==
    ASSUME TypeOK, NEW p \in Processes, exit(p) \/ \E s : close(p, s)
    PROVE  /\ \A q \in Processes : descriptors'[q] \subseteq descriptors[q]
           /\ \A q \in Processes \ {p} : descriptors'[q] = descriptors[q]
           /\ \A s : Held(s)' => Held(s)
<1>1. /\ \A q \in Processes : descriptors'[q] \subseteq descriptors[q]
      /\ \A q \in Processes \ {p} : descriptors'[q] = descriptors[q]
  BY DEF exit, close, TypeOK
<1> QED
  BY <1>1 DEF Held

\* The moves of a handler while the process of main() runs, and the one that ends
\* the process of main() in the fork server.
LEMMA HandlerHandedOver ==
    ASSUME TypeOK, HandedOver, NEW h \in Clients, NEW from, NEW to, HandlerMoves(h, from, to), Alive(h),
           to \in {"read", "obey", "answer", "close", "ended"}, server' \in {server, "ended"},
           \/ UNCHANGED descriptors
           \/ program = "fork" /\ to = "ended" /\ exit(h)
           \/ program = "thread" /\ to = "ended" /\ close(Main, h)
           \/ program = "fork" /\ server' = "ended" /\ exit(Main),
           UNCHANGED backlog
    PROVE  HandedOver'
<1>1. /\ handler[h] = from
      /\ \A c \in Clients : handler'[c] = IF c = h THEN to ELSE handler[c]
      /\ UNCHANGED <<program, new_socket>>
  BY DEF HandlerMoves, TypeOK
<1>2. /\ \A s : Held(s)' => Held(s)
      /\ \A c \in Clients \ {h} : descriptors'[Host(c)] = descriptors[Host(c)] \/ c \in descriptors'[Host(c)]
                                  \/ c \notin descriptors[Host(c)]
      /\ to # "ended" => descriptors'[Host(h)] = descriptors[Host(h)]
      /\ server' # "ended" => /\ Listener \in descriptors[Main] => Listener \in descriptors'[Main]
                              /\ \A c \in Clients \ {h} : c \in descriptors[Main] => c \in descriptors'[Main]
  <2>1. CASE UNCHANGED descriptors
    BY <2>1 DEF Held
  <2>2. CASE program = "fork" /\ to = "ended" /\ exit(h)
    BY <2>2, CloseFrame, Kinds, ConnectionAssumption DEF Host
  <2>3. CASE program = "thread" /\ to = "ended" /\ close(Main, h)
    <3>1. descriptors'[Main] = descriptors[Main] \ {h}
      BY <2>3, Kinds DEF close, TypeOK
    <3> QED
      BY <2>3, <3>1, CloseFrame, Kinds, ConnectionAssumption DEF Host
  <2>4. CASE program = "fork" /\ server' = "ended" /\ exit(Main)
    BY <2>4, CloseFrame, Kinds, ConnectionAssumption DEF Host
  <2> QED
    BY <2>1, <2>2, <2>3, <2>4
<1>3. \A c \in Clients : Waiting(c)' => handler'[c] = "none" /\ ~ Held(c)'
  BY <1>1, <1>2 DEF Waiting, Alive, HandedOver
<1>4. \A c \in Clients : Alive(c)' => c \in descriptors'[Host(c)']
  BY <1>1, <1>2 DEF Alive, Host, HandedOver
<1>5. server' \in {"test", "create", "fork"} =>
        new_socket' \in Clients /\ new_socket' \in descriptors'[Main] /\ handler'[new_socket'] = "none"
  BY <1>1, <1>2 DEF HandedOver, Alive
<1> QED
  BY <1>2, <1>3, <1>4, <1>5 DEF HandedOver

\* The end of the process of main() where it is the process of the handlers.
LEMMA EndHandedOver ==
    ASSUME TypeOK, OwnLabels, HandedOver, NEW status \in {"ended", "failed"}, EndProcess(status),
           program # "fork", UNCHANGED backlog
    PROVE  HandedOver'
<1>1. \A c \in Clients : ~ Alive(c)'
  BY EndFrame DEF Alive
<1>2. \A s : Held(s)' => Held(s)
  BY CloseFrame, Kinds DEF EndProcess
<1>3. \A c \in Clients : Waiting(c)' => handler'[c] = "none" /\ ~ Held(c)'
  BY <1>2, EndFrame DEF Waiting, HandedOver
<1>4. server' = status
  BY DEF EndProcess
<1> QED
  BY <1>1, <1>3, <1>4 DEF HandedOver

LEMMA HandedOverKept ==
    ASSUME TypeOK, OwnLabels, HandedOver,
           \A c \in Clients : client[c] = "connect" => handler[c] = "none" /\ ~ Held(c) /\ ~ Waiting(c),
           Next
    PROVE  HandedOver'
<1>1. ASSUME NEW c \in Clients, Client(c), UNCHANGED serverVars PROVE HandedOver'
  <2>1. UNCHANGED <<program, descriptors, server, new_socket, handler>>
    BY <1>1, ClientFrame
  <2>2. /\ \A j, k \in DOMAIN backlog' : backlog'[j] = backlog'[k] => j = k
        /\ \A d \in Clients : Waiting(d)' => handler[d] = "none" /\ ~ Held(d)
    <3>1. CASE UNCHANGED backlog
      BY <3>1 DEF HandedOver, Waiting
    <3>2. CASE Connect(c)
      <4>1. client[c] = "connect" /\ backlog' = Append(backlog, c) /\ backlog \in Seq(Clients)
        BY <3>2 DEF Connect, Move, connect, TypeOK
      <4>2. \A k \in DOMAIN backlog : backlog[k] # c
        BY <4>1 DEF Waiting
      <4>3. \A k \in DOMAIN backlog' :
              \/ k \in DOMAIN backlog /\ backlog'[k] = backlog[k]
              \/ k = Len(backlog) + 1 /\ backlog'[k] = c
        <5>1. /\ DOMAIN backlog' = 1 .. Len(backlog) + 1 /\ backlog'[Len(backlog) + 1] = c
              /\ \A k \in 1 .. Len(backlog) : backlog'[k] = backlog[k]
          BY <4>1, AppendFacts
        <5>2. DOMAIN backlog = 1 .. Len(backlog) /\ Len(backlog) \in Nat
          BY <4>1
        <5> QED
          BY <5>1, <5>2
      <4>4. \A d \in Clients : Waiting(d)' => Waiting(d) \/ d = c
        BY <4>3 DEF Waiting
      <4> QED
        BY <4>1, <4>2, <4>3, <4>4 DEF HandedOver
    <3> QED
      BY <1>1, <3>1, <3>2 DEF Client, ConnectionFailed, SendLine, SendKill, BrokenPipe, EndInput, ReadId,
                              ReadReply, Type, Read, networkVars
  <2>3. \A d \in Clients : (Alive(d)' <=> Alive(d)) /\ (Held(d)' <=> Held(d)) /\ Host(d)' = Host(d)
    BY <2>1 DEF Alive, Held, Host
  <2> QED
    BY <2>1, <2>2, <2>3 DEF HandedOver
<1>2. ASSUME NEW h \in Clients, Handler(h) PROVE HandedOver'
  <2>1. CASE EchoKill(h) \/ ThreadBrokenPipe(h)
    BY <2>1, EndHandedOver DEF EchoKill, ThreadBrokenPipe, send
  <2>2. CASE EchoRead(h) \/ ForkRead(h) \/ ThreadRead(h) \/ ForkSendId(h) \/ ThreadSendId(h)
             \/ EchoAnswer(h) \/ ForkAnswer(h) \/ ThreadAnswer(h) \/ ThreadObey(h)
    <3>1. PICK from, to : HandlerMoves(h, from, to) /\ from \in {"id", "read", "obey", "answer"}
                          /\ to \in {"read", "obey", "answer", "close"}
      BY <2>2 DEF EchoRead, ForkRead, ThreadRead, Receive, ForkSendId, ThreadSendId, SendId, EchoAnswer, ForkAnswer,
                  EchoLine, EchoNothing, SendBack, ThreadAnswer, ThreadObey
    <3>2. UNCHANGED <<descriptors, backlog, server>>
      BY <2>2 DEF EchoRead, ForkRead, ThreadRead, Receive, ForkSendId, ThreadSendId, SendId, EchoAnswer, ForkAnswer,
                  EchoLine, EchoNothing, SendBack, ThreadAnswer, ThreadObey, send, networkVars
    <3>3. Alive(h)
      BY <3>1 DEF HandlerMoves, Alive
    <3> QED
      BY <3>1, <3>2, <3>3, HandlerHandedOver
  <2>3. CASE ForkObey(h)
    <3>1. HandlerMoves(h, "obey", "answer") /\ Alive(h)
      BY <2>3 DEF ForkObey, HandlerMoves, Alive
    <3> QED
      BY <2>3, <3>1, HandlerHandedOver DEF ForkObey
  <2>4. CASE ForkKill(h)
    <3>1. HandlerMoves(h, "answer", "ended") /\ Alive(h) /\ UNCHANGED <<backlog, server>>
      BY <2>4 DEF ForkKill, SendBack, send, HandlerMoves, Alive
    <3> QED
      BY <2>4, <3>1, HandlerHandedOver DEF ForkKill
  <2>5. CASE ThreadClose(h)
    <3>1. HandlerMoves(h, "close", "ended") /\ Alive(h)
      BY <2>5 DEF ThreadClose, HandlerMoves, Alive
    <3> QED
      BY <2>5, <3>1, HandlerHandedOver DEF ThreadClose, SocketOf
  <2> QED
    BY <1>2, <2>1, <2>2, <2>3, <2>4, <2>5 DEF Handler, EchoHandler, ForkHandler, ThreadHandler
<1>3. CASE ServerMain
  <2>1. CASE EchoAccept \/ ForkAccept \/ ThreadAccept
    <3>1. /\ server = "accept" /\ accept /\ new_socket' = Head(backlog) /\ UNCHANGED program
          /\ server' = (IF program = "echo" THEN "handle" ELSE IF program = "fork" THEN "fork" ELSE "test")
          /\ handler' = IF program = "echo" THEN [handler EXCEPT ![Head(backlog)] = "read"] ELSE handler
      BY <2>1 DEF EchoAccept, ForkAccept, ThreadAccept, AcceptConnection, MainMoves
    <3>2. \A c \in Clients : Waiting(c)' => handler'[c] = "none" /\ ~ Held(c)'
      BY <3>1, AcceptFrame DEF HandedOver, TypeOK
    <3>3. \A c \in Clients : Alive(c)' => c \in descriptors'[Host(c)']
      <4>1. SUFFICES ASSUME NEW c \in Clients, Alive(c)' PROVE c \in descriptors'[Host(c)']
        OBVIOUS
      <4>2. Host(c)' = Host(c) /\ (descriptors[Host(c)] \subseteq descriptors'[Host(c)])
        BY <3>1, AcceptFrame DEF Host
      <4>3. CASE Alive(c)
        BY <4>2, <4>3 DEF HandedOver
      <4>4. CASE ~ Alive(c)
        <5>1. program = "echo" /\ c = Head(backlog)
          BY <3>1, <4>1, <4>4 DEF Alive, TypeOK
        <5> QED
          BY <3>1, <5>1, AcceptFrame DEF Host
      <4> QED
        BY <4>3, <4>4
    <3>4. Listener \in descriptors'[Main]
      BY <3>1, AcceptFrame DEF HandedOver
    <3>5. server' \in {"test", "create", "fork"} =>
            new_socket' \in Clients /\ new_socket' \in descriptors'[Main] /\ handler'[new_socket'] = "none"
      BY <3>1, AcceptFrame DEF HandedOver
    <3> QED
      BY <3>1, <3>2, <3>3, <3>4, <3>5, AcceptFrame DEF HandedOver
  <2>2. CASE Fork
    <3>1. /\ server = "fork" /\ server' = "accept" /\ UNCHANGED <<program, backlog>>
          /\ new_socket \in Clients /\ fork(new_socket) /\ new_socket \in descriptors[Main]
          /\ handler' = [handler EXCEPT ![new_socket] = "id"] /\ program = "fork"
      BY <2>2 DEF Fork, MainMoves, HandedOver
    <3>2. \A c \in Clients : Waiting(c)' => Waiting(c) /\ c # new_socket
      BY <3>1, Kinds DEF Waiting, HandedOver, Held
    <3>3. \A c \in Clients : Waiting(c)' => handler'[c] = "none" /\ ~ Held(c)'
      BY <3>1, <3>2, ForkFrame DEF HandedOver, TypeOK
    <3>4. \A c \in Clients : Alive(c)' => c \in descriptors'[Host(c)']
      BY <3>1, ForkFrame DEF Alive, Host, HandedOver, TypeOK
    <3> QED
      BY <3>1, <3>3, <3>4, ForkFrame DEF HandedOver
  <2>3. CASE ForkFails \/ ThreadCreate \/ ThreadTest
    <3>1. /\ UNCHANGED <<program, backlog, descriptors, new_socket>>
          /\ server \in {"fork", "create", "test"}
          /\ \/ server' = "accept"
             \/ server' = "create" /\ UNCHANGED handler
          /\ \/ handler' = [handler EXCEPT ![new_socket] = "failed"]
             \/ handler' = [handler EXCEPT ![new_socket] = "id"] /\ program = "thread"
             \/ UNCHANGED handler
      BY <2>3 DEF ForkFails, ThreadCreate, ThreadTest, MainMoves, networkVars
    <3>2. new_socket \in Clients /\ new_socket \in descriptors[Main] /\ handler[new_socket] = "none"
      BY <3>1 DEF HandedOver
    <3>3. \A c \in Clients : Waiting(c)' => Waiting(c) /\ c # new_socket
      BY <3>1, <3>2, Kinds DEF Waiting, HandedOver, Held
    <3>4. \A c \in Clients : Waiting(c)' => handler'[c] = "none" /\ ~ Held(c)'
      BY <3>1, <3>3 DEF HandedOver, TypeOK, Held
    <3>5. \A c \in Clients : Alive(c)' => c \in descriptors'[Host(c)']
      BY <3>1, <3>2 DEF Alive, Host, HandedOver, TypeOK
    <3> QED
      BY <3>1, <3>2, <3>4, <3>5 DEF HandedOver
  <2>4. CASE ThreadCreateFails
    BY <2>4, EndHandedOver DEF ThreadCreateFails
  <2> QED
    BY <1>3, <2>1, <2>2, <2>3, <2>4 DEF ServerMain
<1> QED
  BY <1>1, <1>2, <1>3 DEF Next

-----------------------------------------------------------------------------
(***************************************************************************)
(* Sessions                                                                *)
(***************************************************************************)
\* Nothing of a session is touched: at most, its handler ends with the server.
Untouched(d) ==
    /\ UNCHANGED <<program, client[d], asked[d], shown[d], toServer[d], toClient[d], received[d]>>
    /\ d \in peers' <=> d \in peers
    /\ Connected(d)' => Connected(d)
    /\ Waiting(d)' => Waiting(d)
    /\ \/ UNCHANGED handler[d]
       \/ handler'[d] = "ended" /\ handler[d] \notin {"none", "failed"} /\ ~ Connected(d)'

\* A connection that waits is the server's as long as it listens.
LEMMA ConnectedParts ==
    ASSUME NEW d
    PROVE  Connected(d) <=> Held(d) \/ (Held(Listener) /\ Waiting(d))
BY DEF Connected, Waiting

LEMMA SessionKept ==
    ASSUME NEW d \in Clients, Session(d), Untouched(d)
    PROVE  Session(d)'
<1>1. /\ Last(d)' = Last(d) /\ (Echo!Broken(d)' <=> Echo!Broken(d))
      /\ NotYet(d)' <=> NotYet(d)
      /\ Quiet(d)' <=> Quiet(d)
  BY DEF Untouched, Last, Echo!Broken, NotYet, Quiet
<1>2. Unconnected(d) => Unconnected(d)'
  <2>1. SUFFICES ASSUME Unconnected(d) PROVE Unconnected(d)'
    OBVIOUS
  <2>2. ~ Connected(d) /\ ~ Waiting(d)
    BY <2>1, ConnectedParts DEF Unconnected
  <2>3. ~ Held(d)' /\ ~ Waiting(d)'
    BY <2>2 DEF Untouched, Connected
  <2> QED
    BY <1>1, <2>1, <2>3 DEF Untouched, Unconnected
<1>3. Greeted(d) => Greeted(d)'
  BY <1>1 DEF Untouched, Greeted
<1>4. Prompted(d) => Prompted(d)'
  BY <1>1 DEF Untouched, Prompted, Reading
<1>5. Awaiting(d) => Awaiting(d)'
  BY <1>1 DEF Untouched, Awaiting, Reading
<1> QED
  BY <1>1, <1>2, <1>3, <1>4, <1>5 DEF Session, Untouched

\* A client that has left is out of the account.
LEMMA LeftSession ==
    ASSUME NEW c \in Clients, client[c] = "left", c \notin peers
    PROVE  Session(c)
BY DEF Session

\* A session whose handler is at work waits for its client's line.
LEMMA AtWork ==
    ASSUME NEW c \in Clients, HandedOver, Session(c), client[c] \in ClientLabels, Alive(c),
           Host(c) \in Processes
    PROVE  /\ Connected(c)
           /\ \/ client[c] = "id" /\ Greeted(c)
              \/ client[c] = "prompt" /\ Prompted(c) /\ Reading(c) /\ Quiet(c)
              \/ client[c] = "reply" /\ Awaiting(c)
              \/ client[c] = "left" /\ c \notin peers
<1>1. Held(c) /\ handler[c] # "none"
  BY DEF HandedOver, Held, Alive
<1>2. Connected(c)
  BY <1>1 DEF Connected
<1> QED
  BY <1>1, <1>2 DEF Session, Prompted, Unconnected, ClientLabels

\* A client disturbs no other session.
LEMMA ClientOthers ==
    ASSUME TypeOK, NEW c \in Clients, Client(c), UNCHANGED serverVars, NEW d \in Clients \ {c}
    PROVE  Untouched(d)
<1>1. UNCHANGED <<program, descriptors, server, new_socket, handler, received>>
  BY ClientFrame
<1>2. UNCHANGED <<client[d], asked[d], shown[d], toServer[d], toClient[d]>> /\ (d \in peers' <=> d \in peers)
  BY DEF Client, Connect, ConnectionFailed, SendLine, SendKill, BrokenPipe, EndInput, ReadId, ReadReply,
         Move, connect, Type, Read, Leave, networkVars, TypeOK
<1>3. Waiting(d)' => Waiting(d)
  <2>1. CASE UNCHANGED backlog
    BY <2>1 DEF Waiting
  <2>2. CASE Connect(c)
    <3>1. backlog' = Append(backlog, c) /\ backlog \in Seq(Clients)
      BY <2>2 DEF Connect, connect, TypeOK
    <3>2. \A k \in DOMAIN backlog' :
            \/ k \in DOMAIN backlog /\ backlog'[k] = backlog[k]
            \/ k = Len(backlog) + 1 /\ backlog'[k] = c
      <4>1. /\ DOMAIN backlog' = 1 .. Len(backlog) + 1 /\ backlog'[Len(backlog) + 1] = c
            /\ \A k \in 1 .. Len(backlog) : backlog'[k] = backlog[k]
        BY <3>1, AppendFacts
      <4>2. DOMAIN backlog = 1 .. Len(backlog) /\ Len(backlog) \in Nat
        BY <3>1
      <4> QED
        BY <4>1, <4>2
    <3> QED
      BY <3>2 DEF Waiting
  <2> QED
    BY <2>1, <2>2 DEF Client, ConnectionFailed, SendLine, SendKill, BrokenPipe, EndInput, ReadId, ReadReply,
                      Type, Read, networkVars
<1>4. Connected(d)' => Connected(d)
  <2>1. \A s : Held(s)' <=> Held(s)
    BY <1>1 DEF Held
  <2> QED
    BY <1>3, <2>1 DEF Connected, Waiting
<1> QED
  BY <1>1, <1>2, <1>3, <1>4 DEF Untouched

\* What a client that is connected has typed is on its way.
LEMMA TypeFrame ==
    ASSUME TypeOK, NEW c \in Clients, NEW word \in Words, Type(c, word)
    PROVE  /\ Len(asked[c])' = Len(asked[c]) + 1
           /\ Last(c)' \in Lines /\ Last(c)'.word = word
           /\ toServer[c] = <<>> /\ Connected(c) => toServer'[c] = <<Last(c)'>>
           /\ UNCHANGED <<shown, descriptors, backlog, reset, toClient>>
<1> DEFINE line == [from |-> c, nr |-> Len(asked[c]) + 1, word |-> word]
<1>1. line \in Lines /\ line.word = word
  BY TypeParts, TypedLine
<1> HIDE DEF line
<1>2. asked'[c] = Append(asked[c], line) /\ asked[c] \in Seq(Lines)
  BY DEF Type, TypeOK, line
<1>3. Len(asked'[c]) = Len(asked[c]) + 1 /\ asked'[c][Len(asked[c]) + 1] = line
  BY <1>1, <1>2, AppendFacts
<1>4. Connected(c) => toServer'[c] = Append(toServer[c], line)
  BY DEF Type, TypeOK, line
<1> QED
  BY <1>1, <1>3, <1>4, AppendEmpty DEF Type, Last

LEMMA ClientOwn ==
    ASSUME TypeOK, NEW c \in Clients, Session(c), Client(c), UNCHANGED serverVars
    PROVE  Session(c)'
<1>1. UNCHANGED <<program, descriptors, server, new_socket, accept_new_connections, handler, received>>
  BY ClientFrame
<1>2. \A s : Held(s)' <=> Held(s)
  BY <1>1 DEF Held
<1>3. CASE Connect(c)
  <2>1. client[c] = "connect" /\ client'[c] = (IF program = "echo" THEN "prompt" ELSE "id") /\ c \in peers'
        /\ UNCHANGED <<asked, shown, toServer, toClient>>
    BY <1>3 DEF Connect, Move, connect, TypeOK
  <2>2. Unconnected(c)
    BY <2>1 DEF Session
  <2>3. NotYet(c)' /\ toClient'[c] = <<>> /\ handler'[c] = "none"
    BY <1>1, <2>1, <2>2 DEF Unconnected, NotYet
  <2>4. ~ Echo!Broken(c)'
    BY <2>3 DEF NotYet, Echo!Broken
  <2>5. CASE program = "echo"
    BY <1>1, <2>1, <2>3, <2>4, <2>5 DEF Session, Prompted, Quiet, Reading, NotYet
  <2>6. CASE program # "echo"
    BY <1>1, <2>1, <2>3, <2>6 DEF Session, Greeted
  <2> QED
    BY <2>5, <2>6
<1>4. CASE ConnectionFailed(c)
  <2>1. client[c] = "connect" /\ client'[c] = "refused"
        /\ UNCHANGED <<asked, shown, toServer, toClient, peers, backlog>>
    BY <1>4 DEF ConnectionFailed, Move, networkVars, TypeOK
  <2>2. Unconnected(c) /\ c \notin peers
    BY <2>1 DEF Session
  <2>3. Unconnected(c)'
    BY <1>1, <1>2, <2>1, <2>2 DEF Unconnected, NotYet, Waiting
  <2> QED
    BY <2>1, <2>2, <2>3 DEF Session
<1>5. CASE SendLine(c)
  <2>1. PICK word \in Words \ {"kill"} : Type(c, word)
    BY <1>5 DEF SendLine
  <2>2. client[c] = "prompt" /\ client'[c] = "reply" /\ UNCHANGED peers
    BY <1>5 DEF SendLine, Move, TypeOK
  <2>3. Prompted(c) /\ c \in peers /\ (Echo!Broken(c) => ~ Connected(c))
    BY <2>2 DEF Session
  <2>4. /\ Len(asked[c])' = Len(asked[c]) + 1
        /\ Last(c)' \in Lines /\ Last(c)'.word # "kill"
        /\ toServer[c] = <<>> /\ Connected(c) => toServer'[c] = <<Last(c)'>>
        /\ UNCHANGED <<shown, backlog, toClient>>
    BY <2>1, TypeFrame
  <2>5. (Connected(c)' <=> Connected(c)) /\ (Echo!Broken(c)' <=> Echo!Broken(c))
    BY <1>2, <2>4 DEF Connected, Echo!Broken
  <2>6. Awaiting(c)'
    BY <1>1, <2>3, <2>4, <2>5 DEF Awaiting, Prompted, Quiet, Reading
  <2>7. toClient'[c] = <<>>
    BY <2>3, <2>4 DEF Prompted
  <2> QED
    BY <2>2, <2>3, <2>5, <2>6, <2>7 DEF Session
<1>6. CASE SendKill(c) \/ BrokenPipe(c) \/ EndInput(c)
  BY <1>6, LeftSession DEF SendKill, BrokenPipe, EndInput, Move, Leave, TypeOK, Session
<1>7. CASE ReadId(c)
  <2>1. client[c] = "id" /\ client'[c] = "prompt" /\ Read(c)
        /\ UNCHANGED <<asked, shown, toServer, peers, backlog>>
    BY <1>7 DEF ReadId, Move, Read, TypeOK
  <2>2. Greeted(c) /\ c \in peers
    BY <2>1 DEF Session
  <2>3. toClient'[c] = <<>>
    BY <2>1, <2>2, SingleFacts DEF Greeted, Read, TypeOK
  <2>4. (Connected(c)' <=> Connected(c)) /\ NotYet(c)'
    BY <1>1, <1>2, <2>1, <2>2 DEF Connected, NotYet, Greeted
  <2>5. Connected(c) => handler[c] = "read"
    BY <2>1, <2>2 DEF Read, Greeted
  <2>6. ~ Echo!Broken(c)'
    BY <2>4 DEF NotYet, Echo!Broken
  <2> QED
    BY <1>1, <2>1, <2>2, <2>3, <2>4, <2>5, <2>6 DEF Session, Prompted, Quiet, Reading, NotYet
<1>8. CASE ReadReply(c)
  <2>1. client[c] = "reply" /\ client'[c] = "prompt" /\ Read(c)
        /\ UNCHANGED <<asked, toServer, peers, backlog>>
    BY <1>8 DEF ReadReply, Move, Read, TypeOK
  <2>2. Awaiting(c) /\ c \in peers /\ (Echo!Broken(c) => ~ Connected(c) /\ toClient[c] = <<>>)
    BY <2>1 DEF Session
  <2>3. toClient'[c] = <<>>
    BY <2>1, <2>2, SingleFacts DEF Awaiting, Read, TypeOK
  <2>4. Connected(c)' <=> Connected(c)
    BY <1>2, <2>1 DEF Connected
  <2>5. Incoming(c) \in Lines \cup {Blank} /\ (Incoming(c) = Blank => ~ Connected(c))
    BY <2>1, <2>2, SingleFacts, Vocabulary DEF Incoming, Awaiting, Read
  <2>6. shown'[c] = Append(shown[c], Incoming(c)) /\ shown[c] \in Seq(Lines \cup {Blank})
    BY <1>8 DEF ReadReply, TypeOK
  <2>7. /\ Len(shown'[c]) = Len(shown[c]) + 1 /\ Len(shown[c]) \in Nat
        /\ shown'[c][Len(shown[c]) + 1] = Incoming(c)
        /\ \A k \in 1 .. Len(shown[c]) : shown'[c][k] = shown[c][k]
    BY <2>5, <2>6, AppendFacts
  <2>8. Echo!Broken(c)' => Echo!Broken(c) \/ Incoming(c) = Blank
    BY <2>7 DEF Echo!Broken
  <2>9. Prompted(c)'
    BY <1>1, <2>1, <2>2, <2>3, <2>4, <2>7 DEF Prompted, Awaiting, Quiet, Reading, Read
  <2> QED
    BY <2>1, <2>2, <2>3, <2>4, <2>5, <2>8, <2>9 DEF Session
<1> QED
  BY <1>3, <1>4, <1>5, <1>6, <1>7, <1>8 DEF Client

\* When the process of main() ends in which the handlers run, nothing is left open.
LEMMA EndUntouched ==
    ASSUME TypeOK, OwnLabels, NEW status, EndProcess(status), program # "fork",
           UNCHANGED <<program, clientVars, backlog, peers, toServer>>,
           NEW d \in Clients, UNCHANGED <<toClient[d], received[d]>>
    PROVE  Untouched(d)
<1>1. \A p \in Processes : descriptors'[p] = {}
  BY EndFrame DEF OwnLabels, Processes
<1>2. ~ Connected(d)'
  BY <1>1 DEF Connected, Held
<1>3. Waiting(d)' <=> Waiting(d)
  BY DEF Waiting
<1> QED
  BY <1>2, <1>3, EndFrame DEF Untouched, clientVars

LEMMA MainSession ==
    ASSUME TypeOK, OwnLabels, HandedOver, NEW d \in Clients, Session(d), ServerMain
    PROVE  Session(d)'
<1>1. UNCHANGED <<program, clientVars, peers, toServer, toClient, received>>
  BY MainFrame
<1>2. ASSUME Connected(d)' => Connected(d), Waiting(d)' => Waiting(d), handler'[d] = handler[d]
      PROVE  Session(d)'
  BY <1>1, <1>2, SessionKept DEF Untouched, clientVars
<1>3. ASSUME NEW label \in {"id", "failed"}, program # "echo", Connected(d)' => Connected(d),
             handler[d] = "none", handler'[d] = label, Held(d)
      PROVE  Session(d)'
  <2>1. Connected(d)
    BY <1>3 DEF Connected
  <2>2. client[d] \notin {"connect", "refused", "prompt"}
    BY <1>3, <2>1 DEF Session, Unconnected, Prompted, Reading
  <2>3. client[d] # "reply"
    BY <1>3, <2>1 DEF Session, Awaiting, Reading
  <2>4. client[d] = "id" => Greeted(d)'
    BY <1>1, <1>3 DEF Session, Greeted, NotYet, clientVars
  <2> QED
    BY <1>1, <2>2, <2>3, <2>4 DEF Session, clientVars
<1>4. CASE EchoAccept
  <2>1. server = "accept" /\ accept /\ program = "echo" /\ handler' = [handler EXCEPT ![Head(backlog)] = "read"]
    BY <1>4 DEF EchoAccept, AcceptConnection, MainMoves
  <2>2. (Connected(d)' => Connected(d)) /\ (Waiting(d)' => Waiting(d))
    BY <2>1, AcceptFrame
  <2>3. CASE d # Head(backlog)
    BY <1>2, <2>1, <2>2, <2>3 DEF TypeOK
  <2>4. CASE d = Head(backlog)
    <3>1. Waiting(d) /\ handler[d] = "none" /\ handler'[d] = "read" /\ Connected(d)
      BY <2>1, <2>4, AcceptFrame, ConnectedParts DEF HandedOver, TypeOK
    <3>2. client[d] \notin {"connect", "refused", "id"}
      BY <2>1, <3>1 DEF Session, Unconnected, Greeted
    <3>3. Prompted(d) => Prompted(d)'
      BY <1>1, <2>1, <3>1 DEF Prompted, Quiet, Reading, clientVars
    <3>4. Awaiting(d) => Awaiting(d)'
      BY <1>1, <2>1, <3>1 DEF Awaiting, Quiet, Reading, Last, clientVars
    <3> QED
      BY <1>1, <3>1, <3>2, <3>3, <3>4, <2>2 DEF Session, clientVars, Echo!Broken
  <2> QED
    BY <2>3, <2>4
<1>5. CASE ForkAccept \/ ThreadAccept
  BY <1>2, <1>5, AcceptFrame DEF ForkAccept, ThreadAccept, AcceptConnection, MainMoves
<1>6. CASE Fork
  <2>1. new_socket \in Clients /\ fork(new_socket) /\ new_socket \in descriptors[Main] /\ UNCHANGED backlog
        /\ handler[new_socket] = "none" /\ handler' = [handler EXCEPT ![new_socket] = "id"] /\ program = "fork"
    BY <1>6 DEF Fork, MainMoves, HandedOver
  <2>2. (Connected(d)' => Connected(d)) /\ (Waiting(d)' => Waiting(d))
    BY <2>1, ForkFrame DEF Connected, Waiting
  <2>3. CASE d = new_socket
    BY <1>3, <2>1, <2>2, <2>3, Kinds DEF Held, TypeOK
  <2>4. CASE d # new_socket
    BY <1>2, <2>1, <2>2, <2>4 DEF TypeOK
  <2> QED
    BY <2>3, <2>4
<1>7. CASE ForkFails \/ ThreadCreate
  <2>1. PICK label \in {"id", "failed"} :
          /\ new_socket \in Clients /\ new_socket \in descriptors[Main] /\ UNCHANGED <<backlog, descriptors>>
          /\ handler[new_socket] = "none" /\ handler' = [handler EXCEPT ![new_socket] = label]
          /\ program # "echo"
    BY <1>7 DEF ForkFails, ThreadCreate, MainMoves, HandedOver, networkVars
  <2>2. (Connected(d)' => Connected(d)) /\ (Waiting(d)' => Waiting(d))
    BY <2>1 DEF Connected, Held, Waiting
  <2>3. CASE d = new_socket
    BY <1>3, <2>1, <2>2, <2>3, Kinds DEF Held, TypeOK
  <2>4. CASE d # new_socket
    BY <1>2, <2>1, <2>2, <2>4 DEF TypeOK
  <2> QED
    BY <2>3, <2>4
<1>8. CASE ThreadTest
  BY <1>2, <1>8 DEF ThreadTest, networkVars, Connected, Held, Waiting
<1>9. CASE ThreadCreateFails
  <2>1. UNCHANGED <<toClient[d], received[d]>>
    BY <1>1
  <2> QED
    BY <1>9, <2>1, EndUntouched, SessionKept DEF ThreadCreateFails
<1> QED
  BY <1>4, <1>5, <1>6, <1>7, <1>8, <1>9 DEF ServerMain

\* A handler disturbs no other session, unless it ends the process it runs in.
LEMMA HandlerOthers ==
    ASSUME TypeOK, OwnLabels, NEW h \in Clients, Handler(h), NEW d \in Clients \ {h}
    PROVE  Untouched(d)
<1>1. UNCHANGED <<program, clientVars, backlog, peers, toServer[d], toClient[d], received[d]>>
  BY DEF Handler, EchoHandler, ForkHandler, ThreadHandler, EchoRead, EchoAnswer, EchoKill, ForkSendId, ForkRead,
         ForkObey, ForkAnswer, ForkKill, ThreadSendId, ThreadRead, ThreadObey, ThreadAnswer, ThreadBrokenPipe,
         ThreadClose, SendId, Receive, SendBack, EchoLine, EchoNothing, HandlerMoves, send, SocketOf,
         networkVars, TypeOK
<1>2. CASE EchoKill(h) \/ ThreadBrokenPipe(h)
  <2>1. UNCHANGED <<program, clientVars, backlog, peers, toServer, toClient[d], received[d]>> /\ program # "fork"
    BY <1>1, <1>2 DEF EchoKill, ThreadBrokenPipe, send
  <2> QED
    BY <1>2, <2>1, EndUntouched DEF EchoKill, ThreadBrokenPipe
<1>3. CASE ~ (EchoKill(h) \/ ThreadBrokenPipe(h))
  <2>1. PICK to : handler' = [handler EXCEPT ![h] = to]
    BY <1>3 DEF Handler, EchoHandler, ForkHandler, ThreadHandler, EchoRead, EchoAnswer, ForkSendId, ForkRead,
         ForkObey, ForkAnswer, ForkKill, ThreadSendId, ThreadRead, ThreadObey, ThreadAnswer,
         ThreadClose, SendId, Receive, SendBack, EchoLine, EchoNothing, HandlerMoves
  <2>2. UNCHANGED descriptors \/ (\E p \in Processes : exit(p) \/ \E s : close(p, s))
    BY <1>3, Kinds DEF Handler, EchoHandler, ForkHandler, ThreadHandler, EchoRead, EchoAnswer, ForkSendId, ForkRead,
         ForkObey, ForkAnswer, ForkKill, ThreadSendId, ThreadRead, ThreadObey, ThreadAnswer,
         ThreadClose, SendId, Receive, SendBack, EchoLine, EchoNothing, networkVars
  <2>3. \A s : Held(s)' => Held(s)
    BY <2>2, CloseFrame DEF Held
  <2>4. (Waiting(d)' => Waiting(d)) /\ (Connected(d)' => Connected(d))
    BY <1>1, <2>3 DEF Waiting, Connected
  <2> QED
    BY <1>1, <2>1, <2>4 DEF Untouched, clientVars, TypeOK
<1> QED
  BY <1>2, <1>3

LEMMA HandlerOwn ==
    ASSUME TypeOK, OwnLabels, HandedOver, NEW h \in Clients, Session(h), Handler(h)
    PROVE  Session(h)'
<1>1. UNCHANGED <<program, client, asked, shown, backlog, peers>>
  BY HandlerFrame DEF clientVars
<1>2. Last(h)' = Last(h) /\ (Echo!Broken(h)' <=> Echo!Broken(h)) /\ client[h] \in ClientLabels
  BY <1>1 DEF Last, Echo!Broken, TypeOK
<1>3. Alive(h)
  BY HandlerFrame
<1>4. /\ Connected(h)
      /\ \/ client[h] = "id" /\ Greeted(h)
         \/ client[h] = "prompt" /\ Prompted(h) /\ Reading(h) /\ Quiet(h)
         \/ client[h] = "reply" /\ Awaiting(h)
         \/ client[h] = "left" /\ h \notin peers
  BY <1>2, <1>3, AtWork, Kinds DEF Host
<1>5. h \in peers => client[h] \in {"id", "prompt", "reply"} /\ (Echo!Broken(h) => client[h] = "id")
  BY <1>4 DEF Session
<1>6. CASE client[h] = "left" /\ h \notin peers
  BY <1>1, <1>6, LeftSession DEF Session
<1>7. CASE h \in peers
  <2>1. CASE ForkSendId(h) \/ ThreadSendId(h)
    <3>1. handler[h] = "id" /\ handler'[h] = "read" /\ toClient'[h] = Append(toClient[h], Id)
          /\ UNCHANGED <<toServer, received>>
      BY <1>7, <2>1 DEF ForkSendId, ThreadSendId, SendId, HandlerMoves, send, SocketOf, TypeOK
    <3>2. client[h] = "id" /\ Greeted(h) /\ toClient[h] = <<>>
      BY <1>4, <1>5, <1>7, <3>1 DEF Greeted, Reading, Awaiting
    <3>3. toClient'[h] = <<Id>>
      BY <3>1, <3>2, AppendEmpty
    <3>4. Greeted(h)'
      BY <1>1, <3>1, <3>2, <3>3 DEF Greeted, NotYet
    <3> QED
      BY <1>1, <1>7, <3>2, <3>4 DEF Session
  <2>2. CASE EchoRead(h) \/ ForkRead(h) \/ ThreadRead(h)
    <3>1. /\ handler[h] = "read" /\ handler'[h] \in {"obey", "answer"} /\ toServer[h] # <<>>
          /\ received'[h] = Head(toServer[h]) /\ toServer'[h] = Tail(toServer[h]) /\ UNCHANGED toClient
      BY <1>7, <2>2 DEF EchoRead, ForkRead, ThreadRead, Receive, HandlerMoves, SocketOf, TypeOK
    <3>2. client[h] = "reply" /\ Awaiting(h) /\ toServer[h] = <<Last(h)>>
      BY <1>4, <1>5, <1>7, <3>1 DEF Greeted, NotYet, Quiet, Awaiting
    <3>3. toServer'[h] = <<>> /\ received'[h] = Last(h) /\ toClient[h] = <<>>
      BY <1>4, <3>1, <3>2, SingleFacts DEF Awaiting, Quiet
    <3>4. Awaiting(h)'
      BY <1>1, <1>2, <3>1, <3>2, <3>3 DEF Awaiting
    <3> QED
      BY <1>1, <1>2, <1>5, <1>7, <3>2, <3>4 DEF Session
  <2>3. CASE ForkObey(h) \/ ThreadObey(h)
    <3>1. handler[h] = "obey" /\ handler'[h] = "answer" /\ UNCHANGED <<toServer, toClient, received>>
      BY <2>3 DEF ForkObey, ThreadObey, HandlerMoves, networkVars, TypeOK
    <3>2. client[h] = "reply" /\ Awaiting(h)
      BY <1>4, <1>5, <1>7, <3>1 DEF Greeted, Reading
    <3>3. Awaiting(h)'
      BY <1>1, <1>2, <1>4, <3>1, <3>2 DEF Awaiting, Reading
    <3> QED
      BY <1>1, <1>2, <1>5, <1>7, <3>2, <3>3 DEF Session
  <2>4. CASE handler[h] = "answer"
    <3>1. client[h] = "reply" /\ Awaiting(h)
      BY <1>4, <1>5, <1>7, <2>4 DEF Greeted, Reading
    <3>2. /\ toClient[h] = <<>> /\ toServer[h] = <<>> /\ received[h] = Last(h)
          /\ Last(h) \in Lines /\ received[h].word # "kill" /\ received[h] # Blank
      BY <1>4, <2>4, <3>1, Vocabulary DEF Awaiting, Reading
    <3>3. CASE EchoAnswer(h) \/ ForkAnswer(h) \/ ThreadAnswer(h)
      <4>1. SendBack(h, "read")
        BY <3>2, <3>3 DEF EchoAnswer, ForkAnswer, ThreadAnswer, EchoLine, EchoNothing
      <4>2. /\ handler'[h] = "read" /\ received'[h] = Blank /\ UNCHANGED toServer
            /\ toClient'[h] = Append(toClient[h], received[h])
        BY <1>7, <4>1 DEF SendBack, HandlerMoves, send, SocketOf, TypeOK
      <4>3. toClient'[h] = <<Last(h)>>
        BY <3>2, <4>2, AppendEmpty
      <4>4. Quiet(h)'
        BY <3>2, <4>2 DEF Quiet
      <4>5. Awaiting(h)'
        BY <1>1, <1>2, <3>1, <3>2, <4>2, <4>3, <4>4 DEF Awaiting
      <4> QED
        BY <1>1, <1>2, <1>5, <1>7, <3>1, <4>5 DEF Session
    <3>4. CASE ThreadBrokenPipe(h)
      BY <3>4, EndUntouched, SessionKept DEF ThreadBrokenPipe
    <3> QED
      BY <2>4, <3>2, <3>3, <3>4 DEF Handler, EchoHandler, ForkHandler, ThreadHandler, EchoRead, ForkRead, ThreadRead,
              Receive, HandlerMoves, EchoKill, ForkSendId, ThreadSendId, SendId, ForkObey, ThreadObey, ForkKill,
              ThreadClose
  <2>5. handler[h] # "close"
    BY <1>4, <1>5, <1>7 DEF Greeted, Reading, Awaiting
  <2> QED
    BY <2>1, <2>2, <2>3, <2>4, <2>5 DEF Handler, EchoHandler, ForkHandler, ThreadHandler, EchoAnswer, EchoKill,
         ForkAnswer, ForkKill, ThreadAnswer, ThreadBrokenPipe, ThreadClose, SendBack, EchoLine, EchoNothing, HandlerMoves
<1> QED
  BY <1>4, <1>6, <1>7 DEF Session

-----------------------------------------------------------------------------
(***************************************************************************)
(* Theorems                                                                *)
(***************************************************************************)
LEMMA InitIndInv == Init => IndInv
<1> SUFFICES ASSUME Init PROVE IndInv
  OBVIOUS
<1>1. TypeOK
  BY InitType, TypeParts
<1>2. /\ \A p \in Processes : descriptors[p] = IF p = Main THEN {Listener} ELSE {}
      /\ backlog = <<>> /\ peers = {} /\ server = "accept" /\ accept_new_connections = TRUE
      /\ \A c \in Clients : /\ client[c] = "connect" /\ asked[c] = <<>> /\ shown[c] = <<>> /\ toServer[c] = <<>>
                           /\ toClient[c] = <<>> /\ received[c] = Blank /\ handler[c] = "none"
  BY DEF Init, ClientInit, NetworkInit
<1>3. OwnLabels
  BY <1>2, Kinds, ConnectionAssumption DEF OwnLabels
<1>4. \A c \in Clients : ~ Waiting(c) /\ ~ Held(c)
  <2>1. DOMAIN backlog = {}
    BY <1>2
  <2>2. \A p \in Processes : descriptors[p] \subseteq {Listener}
    BY <1>2
  <2> QED
    BY <2>1, <2>2, ConnectionAssumption DEF Waiting, Held
<1>5. HandedOver
  BY <1>2, <1>4, Kinds DEF HandedOver, Alive
<1>6. \A c \in Clients : Session(c)
  BY <1>2, <1>4 DEF Session, Unconnected, NotYet
<1> QED
  BY <1>1, <1>3, <1>5, <1>6 DEF IndInv

LEMMA NextIndInv == IndInv /\ [Next]_vars => IndInv'
<1> SUFFICES ASSUME IndInv, [Next]_vars PROVE IndInv'
  OBVIOUS
<1>1. TypeOK /\ OwnLabels /\ HandedOver /\ \A c \in Clients : Session(c)
  BY DEF IndInv
<1>2. CASE UNCHANGED vars
  <2>1. \A c \in Clients : Untouched(c)
    BY <1>2 DEF vars, clientVars, networkVars, serverVars, Untouched, Connected, Held, Waiting
  <2>2. \A c \in Clients : Session(c)'
    BY <1>1, <2>1, SessionKept
  <2>3. TypeOK' /\ OwnLabels' /\ HandedOver'
    BY <1>1, <1>2 DEF vars, clientVars, networkVars, serverVars, TypeOK, OwnLabels, HandedOver, Alive, Waiting,
                      Host, Held
  <2> QED
    BY <2>2, <2>3 DEF IndInv
<1>3. CASE Next
  <2>1. \A c \in Clients : client[c] = "connect" => handler[c] = "none" /\ ~ Held(c) /\ ~ Waiting(c)
    BY <1>1 DEF Session, Unconnected
  <2>2. OwnLabels' /\ HandedOver'
    BY <1>1, <1>3, <2>1, OwnLabelsKept, HandedOverKept
  <2>3. CASE \E c \in Clients : Client(c) /\ UNCHANGED serverVars
    <3>1. PICK c \in Clients : Client(c) /\ UNCHANGED serverVars
      BY <2>3
    <3>2. client[c] = "reply" => Incoming(c) \in Lines \cup {Blank}
      BY <1>1, SingleFacts DEF Session, Awaiting, Incoming
    <3>3. TypeOK'
      BY <1>1, <3>1, <3>2, ClientTypes, TypeParts, TypePartsNext
    <3>4. \A d \in Clients : Session(d)'
      BY <1>1, <3>1, ClientOwn, ClientOthers, SessionKept
    <3> QED
      BY <2>2, <3>3, <3>4 DEF IndInv
  <2>4. CASE ServerMain \/ \E h \in Clients : Handler(h)
    <3>1. /\ server \in {"test", "create", "fork"} => new_socket \in Clients /\ handler[new_socket] = "none"
          /\ \A c \in Clients : Waiting(c) => handler[c] = "none"
      BY <1>1 DEF HandedOver
    <3>2. TypeOK'
      BY <1>1, <2>4, <3>1, ServerTypes, TypeParts, TypePartsNext
    <3>3. \A d \in Clients : Session(d)'
      BY <1>1, <2>4, MainSession, HandlerOwn, HandlerOthers, SessionKept
    <3> QED
      BY <2>2, <3>2, <3>3 DEF IndInv
  <2> QED
    BY <1>3, <2>3, <2>4 DEF Next
<1> QED
  BY <1>2, <1>3

\* The invariant of the whole.
THEOREM Invariance == Spec => []IndInv
<1>1. Init => IndInv
  BY InitIndInv
<1>2. IndInv /\ [Next]_vars => IndInv'
  BY NextIndInv
<1> QED
  BY <1>1, <1>2, PTL DEF Spec

\* Every variable keeps to its type.
THEOREM TypeCorrectness == Spec => []TypeOK
<1>1. IndInv => TypeOK
  BY DEF IndInv
<1> QED
  BY <1>1, Invariance, PTL

-----------------------------------------------------------------------------
(***************************************************************************)
(* `killserver'                                                            *)
(***************************************************************************)
LEMMA ShutKept ==
    ASSUME TypeOK, OwnLabels, HandedOver, NEW c \in Clients, Shut, Unserved(c), ~ Starting(c), [Next]_vars
    PROVE  Shut' /\ Unserved(c)' /\ ~ Starting(c)'
<1>1. program \in {"fork", "thread"} /\ UNCHANGED program
  BY ClientFrame, HandlerFrame, MainFrame DEF Shut, OwnLabels, TypeOK, Next, vars
<1>2. CASE (\E d \in Clients : Client(d) /\ UNCHANGED serverVars) \/ UNCHANGED vars
  BY <1>1, <1>2 DEF Shut, Unserved, Starting, serverVars, vars
<1>3. ASSUME NEW h \in Clients, Handler(h) PROVE Shut' /\ Unserved(c)' /\ ~ Starting(c)'
  <2>1. Alive(h) /\ UNCHANGED new_socket
    BY <1>3, HandlerFrame
  <2>2. UNCHANGED handler[c]
    BY <1>3, <2>1 DEF Unserved, Alive, Handler, EchoHandler, ForkHandler, ThreadHandler, EchoRead, EchoAnswer, EchoKill,
         ForkSendId, ForkRead, ForkObey, ForkAnswer, ForkKill, ThreadSendId, ThreadRead, ThreadObey, ThreadAnswer,
         ThreadBrokenPipe, ThreadClose, SendId, Receive, SendBack, EchoLine, EchoNothing, HandlerMoves, EndProcess,
         Dead, TypeOK
  <2>3. server' \in {server, "ended"}
    BY <1>3 DEF Handler, EchoHandler, ForkHandler, ThreadHandler, EchoRead, EchoAnswer, EchoKill, ForkSendId, ForkRead,
         ForkObey, ForkAnswer, ForkKill, ThreadSendId, ThreadRead, ThreadObey, ThreadAnswer, ThreadBrokenPipe,
         ThreadClose, SendId, Receive, SendBack, EchoLine, EchoNothing, EndProcess
  <2>4. ~ accept_new_connections => ~ accept_new_connections'
    BY <1>3 DEF Handler, EchoHandler, ForkHandler, ThreadHandler, EchoRead, EchoAnswer, EchoKill, ForkSendId, ForkRead,
         ForkObey, ForkAnswer, ForkKill, ThreadSendId, ThreadRead, ThreadObey, ThreadAnswer, ThreadBrokenPipe,
         ThreadClose, SendId, Receive, SendBack, EchoLine, EchoNothing
  <2> QED
    BY <1>1, <2>1, <2>2, <2>3, <2>4 DEF Shut, Unserved, Starting
<1>4. CASE ServerMain
  <2>1. CASE program = "fork"
    BY <1>4, <2>1 DEF Shut, ServerMain, EchoAccept, ForkAccept, ThreadAccept, AcceptConnection, MainMoves, Fork,
                      ForkFails, ThreadTest, ThreadCreate, ThreadCreateFails
  <2>2. CASE program = "thread"
    <3>1. ~ accept_new_connections /\ UNCHANGED accept_new_connections
      BY <1>4, <2>2 DEF Shut, ServerMain, EchoAccept, ForkAccept, ThreadAccept, AcceptConnection, MainMoves, Fork,
                      ForkFails, ThreadTest, ThreadCreate, ThreadCreateFails
    <3>2. CASE ThreadAccept \/ ThreadTest
      BY <1>1, <2>2, <3>1, <3>2 DEF Shut, Unserved, Starting, ThreadAccept, AcceptConnection, ThreadTest, MainMoves
    <3>3. CASE ThreadCreate
      <4>1. new_socket # c /\ new_socket \in Clients /\ server' = "accept"
        BY <3>3 DEF Starting, ThreadCreate, MainMoves, HandedOver
      <4> QED
        BY <1>1, <2>2, <3>1, <3>3, <4>1 DEF Shut, Unserved, Starting, ThreadCreate, TypeOK
    <3>4. CASE ThreadCreateFails
      BY <1>1, <2>2, <3>1, <3>4, EndFrame DEF Shut, Unserved, Starting, ThreadCreateFails
    <3> QED
      BY <1>4, <2>2, <3>2, <3>3, <3>4 DEF ServerMain, EchoAccept, ForkAccept, Fork, ForkFails
  <2> QED
    BY <1>1, <2>1, <2>2
<1> QED
  BY <1>2, <1>3, <1>4 DEF Next

\* Once `killserver' has taken effect nobody is served but those who were, and the
\* one for whom main() is about to create a thread.
THEOREM NoNewSessions == Spec => KillserverHolds
<1> SUFFICES ASSUME NEW c \in Clients
             PROVE  Spec => [](Shut /\ Unserved(c) /\ ~ Starting(c) => []Unserved(c))
  BY DEF KillserverHolds
<1> DEFINE Locked == Shut /\ Unserved(c) /\ ~ Starting(c)
<1>1. IndInv /\ Locked /\ [Next]_vars => Locked'
  BY ShutKept DEF IndInv
<1>2. Locked => Unserved(c)
  OBVIOUS
<1>3. Locked <=> Shut /\ Unserved(c) /\ ~ Starting(c)
  OBVIOUS
<1> HIDE DEF Locked
<1> QED
  BY <1>1, <1>2, <1>3, Invariance, PTL DEF Spec

-----------------------------------------------------------------------------
(***************************************************************************)
(* Refinement                                                              *)
(***************************************************************************)
LEMMA EchoInit == Init => Echo!Init
BY DEF Init, ClientInit, Echo!Init

LEMMA EchoNext == IndInv /\ [Next]_vars => [Echo!Next]_(Echo!vars)
<1> SUFFICES ASSUME IndInv, [Next]_vars PROVE [Echo!Next]_(Echo!vars)
  OBVIOUS
<1>1. TypeOK /\ \A c \in Clients : Session(c)
  BY DEF IndInv
<1>2. CASE \E c \in Clients : Client(c) /\ UNCHANGED serverVars
  <2>1. PICK c \in Clients : Client(c)
    BY <1>2
  <2>2. ASSUME NEW word \in Words, Type(c, word), client[c] = "prompt" PROVE Echo!Ask(c)
    <3>1. Len(shown[c]) = Len(asked[c]) /\ UNCHANGED shown
      BY <1>1, <2>2 DEF Session, Prompted, Type
    <3>2. [from |-> c, nr |-> Len(asked[c]) + 1, word |-> word] \in Lines
      BY <1>1, <2>2, TypeParts, TypedLine
    <3> QED
      BY <2>2, <3>1, <3>2 DEF Type, Echo!Ask
  <2>3. CASE ReadReply(c)
    <3>1. client[c] = "reply" /\ Awaiting(c) /\ (Echo!Broken(c) => toClient[c] = <<>>)
      BY <1>1, <2>3 DEF ReadReply, Move, Session
    <3>2. shown' = [shown EXCEPT ![c] = Append(@, Incoming(c))] /\ UNCHANGED asked
      BY <2>3 DEF ReadReply
    <3>3. Len(shown[c]) < Len(asked[c])
      BY <1>1, <3>1 DEF Awaiting, TypeOK
    <3>4. Echo!Reply(c, Incoming(c))
      BY <3>2, <3>3 DEF Echo!Reply
    <3>5. CASE toClient[c] = <<>>
      BY <3>4, <3>5 DEF Incoming, Echo!Break, Echo!Next
    <3>6. CASE toClient[c] # <<>>
      <4>1. ~ Echo!Broken(c) /\ Incoming(c) = asked[c][Len(asked[c])]
        BY <3>1, <3>6, SingleFacts DEF Awaiting, Incoming, Last
      <4> QED
        BY <3>4, <4>1 DEF Echo!Answer, Echo!Next
    <3> QED
      BY <3>5, <3>6
  <2>4. CASE SendLine(c) \/ SendKill(c) \/ BrokenPipe(c)
    <3>1. \E word \in Words : Type(c, word) /\ client[c] = "prompt"
      BY <2>4 DEF SendLine, SendKill, BrokenPipe, Move, Words
    <3> QED
      BY <2>2, <3>1 DEF Echo!Next
  <2>5. CASE Connect(c) \/ ConnectionFailed(c) \/ EndInput(c) \/ ReadId(c)
    BY <2>5 DEF Connect, ConnectionFailed, EndInput, ReadId, Echo!vars
  <2> QED
    BY <2>1, <2>3, <2>4, <2>5 DEF Client
<1>3. CASE ServerMain \/ \E h \in Clients : Handler(h)
  BY <1>3, MainFrame, HandlerFrame DEF clientVars, Echo!vars
<1>4. CASE UNCHANGED vars
  BY <1>4 DEF vars, clientVars, Echo!vars
<1> QED
  BY <1>2, <1>3, <1>4 DEF Next

\* Each server, whatever its clients do, is an echo service for each of them.
THEOREM Refinement == Spec => ImplementsEcho
<1>1. Init => Echo!Init
  BY EchoInit
<1>2. IndInv /\ [Next]_vars => [Echo!Next]_(Echo!vars)
  BY EchoNext
<1> QED
  BY <1>1, <1>2, Invariance, PTL DEF Spec, ImplementsEcho, Echo!Spec

-----------------------------------------------------------------------------
(***************************************************************************)
(* Why sessions and servers end                                            *)
(***************************************************************************)
\* What was heard from a client stays true while its session rests.
LEMMA HeardKept ==
    ASSUME NEW d \in Clients, Heard(d), UNCHANGED <<program, client[d], asked[d], toServer[d], received[d]>>,
           d \in reset' <=> d \in reset,
           \/ /\ UNCHANGED handler[d] /\ (Connected(d)' => Connected(d))
              /\ program = "echo" /\ Alive(d) => UNCHANGED <<server, new_socket>>
           \/ handler'[d] \in {"none", "failed", "ended"} /\ ~ Connected(d)'
    PROVE  Heard(d)'
<1>1. \A word : Said(d, word)' <=> Said(d, word)
  BY DEF Said
<1>2. Farewell(d) => Farewell(d)' \/ handler'[d] # handler[d]
  BY DEF Farewell
<1>3. (\A k \in DOMAIN toServer[d] : Said(d, toServer[d][k].word))'
  BY <1>1 DEF Heard
<1>4. (received[d] # Blank => Said(d, received[d].word))'
  BY <1>1 DEF Heard
<1> QED
  BY <1>1, <1>2, <1>3, <1>4 DEF Heard, Alive

\* What is typed is added to what was said.
LEMMA SaidTyped ==
    ASSUME TypeOK, NEW c \in Clients, NEW word \in Words, Type(c, word)
    PROVE  \A w : Said(c, w)' <=> Said(c, w) \/ w = word
<1> DEFINE line == [from |-> c, nr |-> Len(asked[c]) + 1, word |-> word]
<1>1. line \in Lines /\ line.word = word
  BY TypeParts, TypedLine
<1> HIDE DEF line
<1>2. asked'[c] = Append(asked[c], line) /\ asked[c] \in Seq(Lines)
  BY DEF Type, TypeOK, line
<1>3. /\ DOMAIN asked'[c] = 1 .. Len(asked[c]) + 1 /\ asked'[c][Len(asked[c]) + 1] = line
      /\ \A k \in 1 .. Len(asked[c]) : asked'[c][k] = asked[c][k]
  BY <1>1, <1>2, AppendFacts
<1>4. DOMAIN asked[c] = 1 .. Len(asked[c]) /\ Len(asked[c]) \in Nat
  BY <1>2
<1> QED
  BY <1>1, <1>3, <1>4 DEF Said

LEMMA ClientHeard ==
    ASSUME TypeOK, HandedOver, NEW c \in Clients, Session(c), Heard(c), Client(c), UNCHANGED serverVars
    PROVE  Heard(c)'
<1>1. UNCHANGED <<program, descriptors, server, new_socket, accept_new_connections, handler, received>>
  BY ClientFrame
<1>2. UNCHANGED reset
  BY DEF Client, Connect, ConnectionFailed, SendLine, SendKill, BrokenPipe, EndInput, ReadId, ReadReply,
         connect, Type, Read, networkVars
<1>3. (Alive(c)' <=> Alive(c)) /\ (Alive(c) => Connected(c))
  BY <1>1, Kinds DEF Alive, Connected, Held, HandedOver, Host
<1>4. client[c] # "left" => ~ Said(c, "kill") /\ c \notin reset
  BY DEF Heard
<1>5. CASE Connect(c) \/ ConnectionFailed(c) \/ EndInput(c) \/ ReadId(c) \/ ReadReply(c)
  <2>1. client[c] # "left" /\ UNCHANGED <<asked, toServer>>
    BY <1>5 DEF Connect, ConnectionFailed, EndInput, ReadId, ReadReply, Move, connect, Read, networkVars
  <2>2. \A word : Said(c, word)' <=> Said(c, word)
    BY <2>1 DEF Said
  <2> QED
    BY <1>1, <1>2, <1>3, <1>4, <2>1, <2>2 DEF Heard
<1>6. ASSUME NEW word \in Words, Type(c, word), client[c] = "prompt",
             \/ word # "kill"
             \/ client'[c] = "left" /\ (program = "thread" /\ Connected(c)' => Farewell(c)')
      PROVE  Heard(c)'
  <2>1. \A w : Said(c, w)' <=> Said(c, w) \/ w = word
    BY <1>6, SaidTyped
  <2>2. (\A k \in DOMAIN toServer[c] : Said(c, toServer[c][k].word))'
    <3>1. CASE UNCHANGED toServer[c]
      BY <2>1, <3>1 DEF Heard
    <3>2. CASE Connected(c)
      <4>1. toServer'[c] = <<Last(c)'>> /\ Last(c)'.word = word
        BY <1>6, <3>2, TypeFrame DEF Session, Prompted, Quiet
      <4> QED
        BY <2>1, <4>1
    <3> QED
      BY <1>6, <3>1, <3>2 DEF Type, TypeOK
  <2>3. ~ Said(c, "kill") /\ c \notin reset
    BY <1>4, <1>6
  <2> QED
    BY <1>1, <1>2, <1>3, <1>6, <2>1, <2>2, <2>3 DEF Heard
<1>7. CASE SendLine(c)
  BY <1>6, <1>7 DEF SendLine, Move
<1>8. CASE SendKill(c)
  <2>1. Type(c, "kill") /\ "kill" \in Words /\ client[c] = "prompt" /\ client'[c] = "left"
    BY <1>8 DEF SendKill, Move, Words, TypeOK
  <2>2. ASSUME program = "thread", Connected(c)' PROVE Farewell(c)'
    <3>1. Connected(c)
      BY <1>1, <2>1, <2>2 DEF Connected, Held, Type
    <3>2. handler[c] = "read" /\ toServer[c] = <<>>
      BY <2>1, <2>2, <3>1 DEF Session, Prompted, Quiet, Reading
    <3>3. toServer'[c] = <<Last(c)'>> /\ Last(c)'.word = "kill" /\ Last(c)' \in Lines
      BY <2>1, <3>1, <3>2, TypeFrame
    <3> QED
      BY <1>1, <1>2, <1>4, <2>1, <3>2, <3>3 DEF Farewell
  <2> QED
    BY <1>6, <2>1, <2>2
<1>9. CASE BrokenPipe(c)
  <2>1. PICK word \in Words : Type(c, word)
    BY <1>9 DEF BrokenPipe
  <2>2. client[c] = "prompt" /\ client'[c] = "left" /\ ~ Connected(c)'
    BY <1>1, <1>9, <2>1 DEF BrokenPipe, Move, Connected, Held, Type, TypeOK
  <2> QED
    BY <1>6, <2>1, <2>2
<1> QED
  BY <1>5, <1>7, <1>8, <1>9 DEF Client

LEMMA MainHeard ==
    ASSUME TypeOK, OwnLabels, HandedOver, NEW d \in Clients, Heard(d), ServerMain
    PROVE  Heard(d)'
<1>1. UNCHANGED <<program, clientVars, reset, toServer, received>>
  BY MainFrame
<1>2. ASSUME Connected(d)' => Connected(d), UNCHANGED handler[d], program # "echo"
      PROVE  Heard(d)'
  BY <1>1, <1>2, HeardKept DEF clientVars
<1>3. ASSUME NEW label \in {"id", "failed"}, program # "echo", handler[d] = "none", handler'[d] = label, Held(d)
      PROVE  Heard(d)'
  <2>1. \A word : Said(d, word)' <=> Said(d, word)
    BY <1>1 DEF Said, clientVars
  <2>2. Connected(d) /\ ~ Farewell(d)
    BY <1>3 DEF Connected, Farewell
  <2> QED
    BY <1>1, <1>3, <2>1, <2>2 DEF Heard, clientVars
<1>4. CASE EchoAccept
  <2>1. server = "accept" /\ accept /\ program = "echo" /\ handler' = [handler EXCEPT ![Head(backlog)] = "read"]
        /\ server' = "handle" /\ new_socket' = Head(backlog)
    BY <1>4 DEF EchoAccept, AcceptConnection, MainMoves
  <2>2. ~ Alive(d)
    BY <2>1 DEF Heard
  <2>3. CASE d # Head(backlog)
    BY <1>1, <2>1, <2>2, <2>3, HeardKept, AcceptFrame DEF clientVars, TypeOK
  <2>4. CASE d = Head(backlog)
    <3>1. \A word : Said(d, word)' <=> Said(d, word)
      BY <1>1 DEF Said, clientVars
    <3>2. handler'[d] = "read"
      BY <2>1, <2>4 DEF TypeOK
    <3> QED
      BY <1>1, <2>1, <2>4, <3>1, <3>2 DEF Heard, clientVars
  <2> QED
    BY <2>3, <2>4
<1>5. CASE ForkAccept \/ ThreadAccept
  BY <1>2, <1>5, AcceptFrame DEF ForkAccept, ThreadAccept, AcceptConnection, MainMoves
<1>6. CASE Fork \/ ForkFails \/ ThreadCreate
  <2>1. PICK label \in {"id", "failed"} :
          /\ new_socket \in Clients /\ new_socket \in descriptors[Main] /\ UNCHANGED backlog
          /\ UNCHANGED descriptors \/ fork(new_socket)
          /\ handler[new_socket] = "none" /\ handler' = [handler EXCEPT ![new_socket] = label]
          /\ program # "echo"
    BY <1>6 DEF Fork, ForkFails, ThreadCreate, MainMoves, HandedOver, networkVars
  <2>2. Connected(d)' => Connected(d)
    BY <2>1, ForkFrame DEF Connected, Held
  <2>3. CASE d = new_socket
    BY <1>3, <2>1, <2>3, Kinds DEF Held, TypeOK
  <2>4. CASE d # new_socket
    BY <1>2, <2>1, <2>2, <2>4 DEF TypeOK
  <2> QED
    BY <2>3, <2>4
<1>7. CASE ThreadTest
  BY <1>2, <1>7 DEF ThreadTest, networkVars, Connected, Held
<1>8. CASE ThreadCreateFails
  <2>1. EndProcess("failed") /\ program = "thread"
    BY <1>8 DEF ThreadCreateFails
  <2>2. \A p \in Processes : descriptors'[p] = {}
    BY <2>1, EndFrame DEF OwnLabels, Processes
  <2>3. ~ Connected(d)' /\ handler'[d] \in {"none", "failed", "ended"}
    BY <2>1, <2>2, EndFrame DEF Connected, Held
  <2> QED
    BY <1>1, <2>3, HeardKept DEF clientVars
<1> QED
  BY <1>4, <1>5, <1>6, <1>7, <1>8 DEF ServerMain

\* Unless a handler ends the process of main(), the other handlers go on.
LEMMA HandlerHeardOthers ==
    ASSUME TypeOK, OwnLabels, NEW h \in Clients, Heard(h), Handler(h), NEW d \in Clients \ {h}, Heard(d)
    PROVE  Heard(d)'
<1>1. Untouched(d) /\ UNCHANGED new_socket
  BY HandlerOthers, HandlerFrame
<1>2. d \in reset' <=> d \in reset
  BY DEF send, SocketOf, networkVars,
         Handler, EchoHandler, ForkHandler, ThreadHandler, EchoRead, EchoAnswer, EchoKill, ForkSendId, ForkRead,
         ForkObey, ForkAnswer, ForkKill, ThreadSendId, ThreadRead, ThreadObey, ThreadAnswer, ThreadBrokenPipe,
         ThreadClose, SendId, Receive, SendBack, EchoLine, EchoNothing
<1>3. program = "echo" /\ Alive(d) => FALSE
  BY HandlerFrame DEF Heard
<1> QED
  BY <1>1, <1>2, <1>3, HeardKept DEF Untouched

LEMMA HandlerHeardOwn ==
    ASSUME TypeOK, OwnLabels, HandedOver, NEW h \in Clients, Session(h), Heard(h), Handler(h)
    PROVE  Heard(h)'
<1>1. UNCHANGED <<program, client, asked, new_socket, backlog>> /\ Alive(h)
  BY HandlerFrame DEF clientVars
<1>2. \A word : Said(h, word)' <=> Said(h, word)
  BY <1>1 DEF Said
<1>3. Connected(h) /\ (h \notin peers => client[h] = "left")
  BY <1>1, AtWork, Kinds DEF Host, TypeOK, Session
<1>4. ASSUME NEW message, send(h, message)
      PROVE  (h \in reset' => h \in reset \/ client[h] = "left") /\ UNCHANGED toServer
  BY <1>3, <1>4 DEF send
<1>5. CASE ForkSendId(h) \/ ThreadSendId(h)
  <2>1. handler[h] = "id" /\ handler'[h] = "read" /\ send(h, Id) /\ UNCHANGED <<received, server>>
    BY <1>5 DEF ForkSendId, ThreadSendId, SendId, HandlerMoves, SocketOf, TypeOK
  <2>2. program = "thread" => ~ Said(h, "kill")
    BY <1>3, <2>1 DEF Heard, Farewell
  <2> QED
    BY <1>1, <1>2, <1>4, <2>1, <2>2, Vocabulary DEF Heard, Alive
<1>6. CASE EchoRead(h) \/ ForkRead(h) \/ ThreadRead(h)
  <2>1. /\ handler[h] = "read" /\ handler'[h] \in {"obey", "answer"} /\ UNCHANGED <<reset, server>>
        /\ toServer[h] = <<>> => h \notin peers
        /\ received'[h] = IF toServer[h] = <<>> THEN received[h] ELSE Head(toServer[h])
        /\ toServer'[h] = IF toServer[h] = <<>> THEN toServer[h] ELSE Tail(toServer[h])
        /\ toServer[h] \in Seq(Lines)
    BY <1>6 DEF EchoRead, ForkRead, ThreadRead, Receive, HandlerMoves, SocketOf, TypeOK
  <2>2. (\A k \in DOMAIN toServer[h] : Said(h, toServer[h][k].word))'
    <3>1. CASE toServer[h] = <<>>
      BY <1>2, <2>1, <3>1 DEF Heard
    <3>2. CASE toServer[h] # <<>>
      <4>1. \A k \in DOMAIN toServer'[h] : k + 1 \in DOMAIN toServer[h] /\ toServer'[h][k] = toServer[h][k + 1]
        BY <2>1, <3>2, QueueFacts
      <4> QED
        BY <1>2, <4>1 DEF Heard
    <3> QED
      BY <3>1, <3>2
  <2>3. (received[h] # Blank => Said(h, received[h].word))'
    <3>1. CASE toServer[h] = <<>>
      BY <1>2, <2>1, <3>1 DEF Heard
    <3>2. CASE toServer[h] # <<>>
      <4>1. received'[h] = toServer[h][1] /\ 1 \in DOMAIN toServer[h]
        BY <2>1, <3>2, QueueFacts
      <4> QED
        BY <1>2, <4>1 DEF Heard
    <3> QED
      BY <3>1, <3>2
  <2>4. program = "thread" /\ Said(h, "kill") => Farewell(h)'
    <3>1. SUFFICES ASSUME program = "thread", Said(h, "kill") PROVE Farewell(h)'
      OBVIOUS
    <3>2. PICK line \in Lines : h \notin reset /\ toServer[h] = <<line>> /\ line.word = "kill"
      BY <1>3, <2>1, <3>1 DEF Heard, Farewell
    <3>3. received'[h] = line /\ toServer'[h] = <<>>
      BY <2>1, <3>2, SingleFacts
    <3> QED
      BY <2>1, <3>2, <3>3 DEF Farewell
  <2> QED
    BY <1>1, <1>2, <2>1, <2>2, <2>3, <2>4 DEF Heard, Alive
<1>7. CASE ForkObey(h) \/ ThreadObey(h)
  <2>1. handler[h] = "obey" /\ handler'[h] = "answer" /\ UNCHANGED <<toServer, reset, received>>
        /\ program \in {"fork", "thread"}
    BY <1>7 DEF ForkObey, ThreadObey, HandlerMoves, networkVars, TypeOK
  <2>2. Farewell(h) => Farewell(h)'
    BY <2>1 DEF Farewell
  <2> QED
    BY <1>1, <1>2, <1>3, <2>1, <2>2 DEF Heard
<1>8. CASE EchoAnswer(h) \/ ForkAnswer(h)
  <2>1. /\ handler'[h] = "read" /\ UNCHANGED <<toServer, server>> /\ received'[h] \in {received[h], Blank}
        /\ program \in {"echo", "fork"} /\ (h \in reset' => h \in reset \/ client[h] = "left")
    BY <1>4, <1>8 DEF EchoAnswer, ForkAnswer, EchoLine, EchoNothing, SendBack, HandlerMoves, SocketOf, networkVars,
                      TypeOK
  <2> QED
    BY <1>1, <1>2, <2>1 DEF Heard, Alive
<1>9. CASE ThreadAnswer(h)
  <2>1. /\ handler[h] = "answer" /\ UNCHANGED toServer /\ received'[h] = Blank /\ program = "thread"
        /\ handler'[h] = (IF received[h].word = "kill" THEN "close" ELSE "read")
        /\ (h \in reset' => h \in reset \/ client[h] = "left")
    BY <1>4, <1>9 DEF ThreadAnswer, SendBack, HandlerMoves, SocketOf, TypeOK
  <2>2. received[h].word = "kill" => Said(h, "kill")
    BY Vocabulary DEF Heard
  <2>3. Said(h, "kill") => received[h].word = "kill"
    BY <1>3, <2>1 DEF Heard, Farewell
  <2> QED
    BY <1>1, <1>2, <2>1, <2>2, <2>3 DEF Heard
<1>10. CASE EchoKill(h) \/ ThreadBrokenPipe(h)
  <2>1. /\ EndProcess("ended") /\ program # "fork" /\ UNCHANGED toServer /\ received'[h] \in {received[h], Blank}
        /\ (h \in reset' => h \in reset \/ client[h] = "left")
    BY <1>4, <1>10 DEF EchoKill, ThreadBrokenPipe, SocketOf, TypeOK
  <2>2. \A p \in Processes : descriptors'[p] = {}
    BY <2>1, EndFrame DEF OwnLabels, Processes
  <2>3. ~ Connected(h)' /\ handler'[h] \in {"none", "failed", "ended"}
    BY <2>1, <2>2, EndFrame DEF Connected, Held
  <2> QED
    BY <1>1, <1>2, <2>1, <2>3 DEF Heard, Alive
<1>11. CASE ForkKill(h)
  <2>1. /\ handler'[h] = "ended" /\ UNCHANGED toServer /\ received'[h] = Blank /\ program = "fork"
        /\ (h \in reset' => h \in reset \/ client[h] = "left")
    BY <1>4, <1>11 DEF ForkKill, SendBack, HandlerMoves, SocketOf, TypeOK
  <2> QED
    BY <1>1, <1>2, <2>1 DEF Heard
<1>12. CASE ThreadClose(h)
  <2>1. /\ handler'[h] = "ended" /\ UNCHANGED <<toServer, received, reset>> /\ program = "thread"
        /\ close(Main, h)
    BY <1>12 DEF ThreadClose, HandlerMoves, SocketOf, TypeOK
  <2>2. \A p \in Processes : h \notin descriptors'[p]
    BY <2>1, Kinds, ConnectionAssumption DEF close, OwnLabels, Processes, TypeOK
  <2>3. ~ Connected(h)'
    BY <1>1, <2>2 DEF Connected, Held, HandedOver, Waiting, Alive
  <2> QED
    BY <1>1, <1>2, <2>1, <2>3 DEF Heard
<1> QED
  BY <1>5, <1>6, <1>7, <1>8, <1>9, <1>10, <1>11, <1>12
     DEF Handler, EchoHandler, ForkHandler, ThreadHandler

\* Nothing that was said is taken back; who hung up does not speak again.
LEMMA SaidKept ==
    ASSUME IndInv, [Next]_vars, NEW c \in Clients
    PROVE  /\ \A word : Said(c, word) => Said(c, word)'
           /\ HungUp(c) => HungUp(c)'
<1>1. TypeOK
  BY DEF IndInv
<1>2. CASE UNCHANGED <<asked[c], client[c]>>
  BY <1>2 DEF Said, HungUp
<1>3. CASE \E d \in Clients : Client(d) /\ UNCHANGED serverVars
  <2>1. PICK d \in Clients : Client(d) /\ UNCHANGED serverVars
    BY <1>3
  <2>2. CASE c # d
    BY <1>1, <1>2, <2>1, <2>2, ClientOthers DEF Untouched
  <2>3. CASE c = d
    <3>1. client[c] # "left"
      BY <2>1, <2>3 DEF Client, Connect, ConnectionFailed, SendLine, SendKill, BrokenPipe, EndInput, ReadId, ReadReply,
                        Move
    <3>2. UNCHANGED asked \/ \E word \in Words : Type(c, word)
      BY <2>1, <2>3 DEF Client, Connect, ConnectionFailed, SendLine, SendKill, BrokenPipe, EndInput, ReadId, ReadReply,
                        Words
    <3>3. \A word : Said(c, word) => Said(c, word)'
      BY <1>1, <3>2, SaidTyped DEF Said
    <3> QED
      BY <3>1, <3>3 DEF HungUp
  <2> QED
    BY <2>2, <2>3
<1>4. CASE ServerMain \/ \E h \in Clients : Handler(h)
  BY <1>2, <1>4, MainFrame, HandlerFrame DEF clientVars
<1>5. CASE UNCHANGED vars
  BY <1>2, <1>5 DEF vars, clientVars
<1> QED
  BY <1>3, <1>4, <1>5 DEF Next

\* The steps that end a handler or the process of main().
LEMMA CauseKept == CauseInv /\ [Next]_vars => EndsForCause'
<1> SUFFICES ASSUME CauseInv, [Next]_vars PROVE EndsForCause'
  OBVIOUS
<1>1. IndInv /\ TypeOK /\ OwnLabels /\ HandedOver /\ EndsForCause
      /\ \A c \in Clients : Session(c) /\ Heard(c)
  BY DEF CauseInv, IndInv
<1>2. \A c \in Clients :
        /\ Said(c, "kill") => Said(c, "kill")'
        /\ Said(c, "killserver") => Said(c, "killserver")'
        /\ HungUp(c) => HungUp(c)'
  BY <1>1, SaidKept
<1>3. ASSUME UNCHANGED <<program, server>>, \A c \in Clients : handler'[c] = "ended" => handler[c] = "ended"
      PROVE  EndsForCause'
  BY <1>1, <1>2, <1>3 DEF EndsForCause
<1>4. CASE (\E c \in Clients : Client(c) /\ UNCHANGED serverVars) \/ UNCHANGED vars
  BY <1>3, <1>4, ClientFrame DEF vars, serverVars
<1>5. CASE ServerMain
  <2>1. CASE ThreadCreateFails
    BY <2>1 DEF ThreadCreateFails, EndProcess, EndsForCause
  <2>2. CASE ~ ThreadCreateFails
    <3>1. /\ server \notin {"ended", "failed"} /\ server' \notin {"ended", "failed"} /\ UNCHANGED program
          /\ \A c \in Clients : handler'[c] = "ended" => handler[c] = "ended"
      BY <1>1, <1>5, <2>2 DEF ServerMain, EchoAccept, ForkAccept, ThreadAccept, AcceptConnection, Fork, ForkFails,
                         ThreadTest, ThreadCreate, MainMoves, TypeOK
    <3> QED
      BY <1>1, <1>2, <3>1 DEF EndsForCause
  <2> QED
    BY <2>1, <2>2
<1>6. ASSUME NEW h \in Clients, Handler(h) PROVE EndsForCause'
  <2>1. Alive(h) /\ UNCHANGED <<program, clientVars>> /\ Heard(h) /\ Session(h)
    BY <1>1, <1>6, HandlerFrame
  <2>2. CASE EchoKill(h)
    <3>1. program = "echo" /\ received[h].word = "kill" /\ EndProcess("ended")
      BY <2>2 DEF EchoKill
    <3>2. Said(h, "kill")'
      BY <1>2, <2>1, <3>1, Vocabulary DEF Heard
    <3>3. \A c \in Clients : Alive(c) => c = h
      BY <1>1, <2>1, <3>1 DEF Heard
    <3>4. \A c \in Clients : handler'[c] = "ended" => handler[c] = "ended" \/ c = h
      BY <1>1, <3>1, <3>3, EndFrame DEF Alive, TypeOK, HandlerLabels
    <3> QED
      BY <1>1, <1>2, <2>1, <3>1, <3>2, <3>4, EndFrame DEF EndsForCause
  <2>3. CASE ThreadBrokenPipe(h)
    <3>1. program = "thread" /\ handler[h] = "answer" /\ h \in reset /\ EndProcess("ended")
      BY <2>3 DEF ThreadBrokenPipe, SocketOf
    <3>2. Connected(h)
      BY <1>1, <2>1, AtWork, Kinds DEF Host, TypeOK
    <3>3. HungUp(h)'
      BY <1>2, <2>1, <3>1, <3>2 DEF Heard, HungUp, Farewell
    <3> QED
      BY <2>1, <3>1, <3>3, EndFrame, <1>1 DEF EndsForCause
  <2>4. CASE ForkObey(h)
    <3>1. /\ program = "fork" /\ handler' = [handler EXCEPT ![h] = "answer"]
          /\ IF received[h].word = "killserver" THEN server' = "ended" ELSE UNCHANGED server
      BY <2>4 DEF ForkObey, HandlerMoves
    <3>2. received[h].word = "killserver" => Said(h, "killserver")'
      BY <1>2, <2>1, Vocabulary DEF Heard
    <3>3. \A c \in Clients : handler'[c] = "ended" => handler[c] = "ended"
      BY <1>1, <3>1 DEF TypeOK
    <3> QED
      BY <1>1, <1>2, <2>1, <3>1, <3>2, <3>3 DEF EndsForCause
  <2>5. CASE ForkKill(h) \/ ThreadClose(h)
    <3>1. UNCHANGED server /\ handler' = [handler EXCEPT ![h] = "ended"]
      BY <2>5 DEF ForkKill, SendBack, ThreadClose, HandlerMoves
    <3>2. Said(h, "kill")'
      BY <1>2, <2>1, <2>5, Vocabulary DEF Heard, ForkKill, ThreadClose, HandlerMoves
    <3>3. \A c \in Clients : handler'[c] = "ended" => handler[c] = "ended" \/ c = h
      BY <1>1, <3>1 DEF TypeOK
    <3> QED
      BY <1>1, <1>2, <2>1, <3>1, <3>2, <3>3 DEF EndsForCause
  <2>6. CASE ~ (EchoKill(h) \/ ThreadBrokenPipe(h) \/ ForkObey(h) \/ ForkKill(h) \/ ThreadClose(h))
    <3>1. UNCHANGED server /\ \E to \in {"read", "obey", "answer", "close"} : handler' = [handler EXCEPT ![h] = to]
      BY <1>6, <2>6 DEF Handler, EchoHandler, ForkHandler, ThreadHandler, EchoRead, EchoAnswer, ForkSendId, ForkRead,
         ForkAnswer, ThreadSendId, ThreadRead, ThreadObey, ThreadAnswer, SendId, Receive, SendBack, EchoLine,
         EchoNothing, HandlerMoves
    <3>2. \A c \in Clients : handler'[c] = "ended" => handler[c] = "ended"
      BY <1>1, <3>1 DEF TypeOK
    <3> QED
      BY <1>3, <2>1, <3>1, <3>2
  <2> QED
    BY <2>2, <2>3, <2>4, <2>5, <2>6
<1> QED
  BY <1>4, <1>5, <1>6 DEF Next

LEMMA InitCauseInv == Init => CauseInv
<1> SUFFICES ASSUME Init PROVE CauseInv
  OBVIOUS
<1>1. IndInv
  BY InitIndInv
<1>2. /\ server = "accept" /\ reset = {}
      /\ \A c \in Clients : /\ asked[c] = <<>> /\ toServer[c] = <<>>
                           /\ received[c] = Blank /\ handler[c] = "none"
  BY DEF Init, ClientInit, NetworkInit
<1>3. \A c \in Clients : \A word : ~ Said(c, word)
  <2>1. \A c \in Clients : DOMAIN asked[c] = {}
    BY <1>2, EmptyDomain, Zenon
  <2> QED
    BY <2>1 DEF Said
<1>4. \A c \in Clients : DOMAIN toServer[c] = {}
  BY <1>2, EmptyDomain, Zenon
<1>5. \A c \in Clients : Heard(c)
  BY <1>2, <1>3, <1>4 DEF Heard, Alive
<1>6. EndsForCause
  BY <1>2 DEF EndsForCause
<1> QED
  BY <1>1, <1>5, <1>6 DEF CauseInv

LEMMA NextCauseInv == CauseInv /\ [Next]_vars => CauseInv'
<1> SUFFICES ASSUME CauseInv, [Next]_vars PROVE CauseInv'
  OBVIOUS
<1>1. IndInv /\ TypeOK /\ OwnLabels /\ HandedOver
      /\ \A c \in Clients : Session(c) /\ Heard(c)
  BY DEF CauseInv, IndInv
<1>2. IndInv' /\ EndsForCause'
  BY <1>1, NextIndInv, CauseKept
<1>3. CASE \E c \in Clients : Client(c) /\ UNCHANGED serverVars
  <2>1. PICK c \in Clients : Client(c) /\ UNCHANGED serverVars
    BY <1>3
  <2>2. UNCHANGED reset /\ UNCHANGED <<server, new_socket>>
    BY <2>1 DEF Client, Connect, ConnectionFailed, SendLine, SendKill, BrokenPipe, EndInput, ReadId, ReadReply,
                connect, Type, Read, networkVars, serverVars
  <2>3. ASSUME NEW d \in Clients \ {c} PROVE Heard(d)'
    <3>1. Untouched(d) /\ UNCHANGED handler
      BY <1>1, <2>1, ClientOthers, ClientFrame
    <3> QED
      BY <1>1, <2>2, <3>1, HeardKept DEF Untouched
  <2>4. Heard(c)'
    BY <1>1, <2>1, ClientHeard
  <2> QED
    BY <1>2, <2>3, <2>4 DEF CauseInv
<1>4. CASE ServerMain
  BY <1>1, <1>2, <1>4, MainHeard DEF CauseInv
<1>5. CASE \E h \in Clients : Handler(h)
  BY <1>1, <1>2, <1>5, HandlerHeardOwn, HandlerHeardOthers DEF CauseInv
<1>6. CASE UNCHANGED vars
  <2>1. \A d \in Clients : Heard(d)'
    BY <1>1, <1>6, HeardKept DEF vars, clientVars, networkVars, serverVars, Connected, Held
  <2> QED
    BY <1>2, <2>1 DEF CauseInv
<1> QED
  BY <1>3, <1>4, <1>5, <1>6 DEF Next

\* A session, and a server, ends only for the cause its program gives.
THEOREM CausesOfEnd == Spec => []EndsForCause
<1>1. Init => CauseInv
  BY InitCauseInv
<1>2. CauseInv /\ [Next]_vars => CauseInv'
  BY NextCauseInv
<1>3. CauseInv => EndsForCause
  BY DEF CauseInv
<1> QED
  BY <1>1, <1>2, <1>3, PTL DEF Spec

-----------------------------------------------------------------------------
(***************************************************************************)
(* What the liveness properties rest on                                    *)
(***************************************************************************)
\* A session never stops with both of its ends waiting for the other to speak:
\* every line obeyed is answered before the handler reads again.
THEOREM SessionsNeverStuck == Spec => []NeverBothRead
<1>1. IndInv => NeverBothRead
  <2> SUFFICES ASSUME IndInv, NEW c \in Clients, client[c] \in {"id", "reply"}, toClient[c] = <<>>,
                      Connected(c), handler[c] = "read", toServer[c] = <<>>
               PROVE  FALSE
    BY DEF NeverBothRead
  <2>1. Session(c)
    BY DEF IndInv
  <2>2. CASE client[c] = "id"
    <3>1. toClient[c] = <<Id>>
      BY <2>1, <2>2 DEF Session, Greeted
    <3>2. <<Id>> # <<>>
      OBVIOUS
    <3> QED
      BY <3>1, <3>2
  <2>3. CASE client[c] = "reply"
    <3>1. Awaiting(c)
      BY <2>1, <2>3 DEF Session
    <3>2. toClient[c] = <<Last(c)>> \/ toServer[c] = <<Last(c)>>
      BY <3>1 DEF Awaiting
    <3>3. <<Last(c)>> # <<>>
      OBVIOUS
    <3> QED
      BY <3>2, <3>3
  <2> QED
    BY <2>2, <2>3
<1> QED
  BY <1>1, Invariance, PTL

OpenUnlessTold == accept_new_connections \/ \E d \in Clients : Said(d, "killserver")

\* Only a handler that was told `killserver' closes the door.
LEMMA DoorKept ==
    ASSUME CauseInv, OpenUnlessTold, [Next]_vars
    PROVE  OpenUnlessTold'
<1>1. IndInv /\ TypeOK /\ \A c \in Clients : Heard(c)
  BY DEF CauseInv, IndInv
<1>2. \A c \in Clients : Said(c, "killserver") => Said(c, "killserver")'
  BY <1>1, SaidKept
<1>3. CASE UNCHANGED accept_new_connections
  BY <1>2, <1>3 DEF OpenUnlessTold
<1>4. CASE (\E c \in Clients : Client(c) /\ UNCHANGED serverVars) \/ UNCHANGED vars
  BY <1>3, <1>4, ClientFrame DEF vars, serverVars
<1>5. CASE ServerMain
  BY <1>3, <1>5 DEF ServerMain, EchoAccept, ForkAccept, ThreadAccept, AcceptConnection, Fork, ForkFails,
                    ThreadTest, ThreadCreate, ThreadCreateFails, MainMoves
<1>6. ASSUME NEW h \in Clients, Handler(h) PROVE OpenUnlessTold'
  <2>1. CASE ThreadObey(h)
    <3>1. CASE received[h].word = "killserver"
      <4>1. Said(h, "killserver")
        BY <1>1, <3>1, Vocabulary DEF Heard
      <4> QED
        BY <1>2, <4>1 DEF OpenUnlessTold
    <3>2. CASE received[h].word # "killserver"
      BY <1>2, <2>1, <3>2 DEF ThreadObey, OpenUnlessTold
    <3> QED
      BY <3>1, <3>2
  <2>2. CASE ~ ThreadObey(h)
    <3>1. UNCHANGED accept_new_connections
      BY <1>6, <2>2 DEF Handler, EchoHandler, ForkHandler, ThreadHandler, EchoRead, EchoAnswer, EchoKill, ForkSendId,
         ForkRead, ForkObey, ForkAnswer, ForkKill, ThreadSendId, ThreadRead, ThreadAnswer, ThreadBrokenPipe,
         ThreadClose, SendId, Receive, SendBack, EchoLine, EchoNothing, HandlerMoves
    <3> QED
      BY <1>3, <3>1
  <2> QED
    BY <2>1, <2>2
<1> QED
  BY <1>4, <1>5, <1>6 DEF Next

\* Where a client that waits for its session identifier is.
Placed(c) ==
    \/ Waiting(c) \/ AtHand(c) \/ handler[c] # "none"
    \/ server \in {"ended", "failed"} \/ \E d \in Clients : Said(d, "killserver")

\* connect() puts a client behind those that wait, and takes nobody's place.
LEMMA ConnectWaits ==
    ASSUME TypeOK, NEW c \in Clients, connect(c)
    PROVE  /\ Waiting(c)'
           /\ \A d \in Clients : Waiting(d) => Waiting(d)'
<1>1. backlog' = Append(backlog, c) /\ backlog \in Seq(Clients)
  BY DEF connect, TypeOK
<1>2. /\ DOMAIN backlog' = 1 .. Len(backlog) + 1 /\ backlog'[Len(backlog) + 1] = c
      /\ \A k \in 1 .. Len(backlog) : backlog'[k] = backlog[k]
  BY <1>1, AppendFacts
<1>3. DOMAIN backlog = 1 .. Len(backlog) /\ Len(backlog) \in Nat
  BY <1>1
<1>4. /\ Len(backlog) + 1 \in DOMAIN backlog'
      /\ \A k \in DOMAIN backlog : k \in DOMAIN backlog'
  BY <1>2, <1>3
<1> QED
  BY <1>2, <1>3, <1>4 DEF Waiting

\* accept() takes the client that has waited longest and leaves the others waiting.
LEMMA AcceptWaits ==
    ASSUME TypeOK, accept, NEW d \in Clients, Waiting(d), d # Head(backlog)
    PROVE  Waiting(d)'
<1>1. backlog \in Seq(Clients) /\ backlog # <<>> /\ backlog' = Tail(backlog)
  BY DEF accept, TypeOK
<1>2. PICK k \in DOMAIN backlog : backlog[k] = d
  BY DEF Waiting
<1>3. k \in 1 .. Len(backlog) /\ Len(backlog) \in Nat /\ k # 1
  BY <1>1, <1>2
<1>4. k - 1 \in DOMAIN backlog' /\ backlog'[k - 1] = d
  BY <1>1, <1>2, <1>3
<1> QED
  BY <1>4 DEF Waiting

LEMMA ClientForgetsNobody ==
    ASSUME CauseInv, NotForgotten, NEW c \in Clients, Client(c), UNCHANGED serverVars
    PROVE  NotForgotten'
<1>1. IndInv /\ TypeOK
  BY DEF CauseInv, IndInv
<1>2. UNCHANGED <<program, server, new_socket, handler>>
  BY ClientFrame
<1>3. \A d \in Clients : Said(d, "killserver") => Said(d, "killserver")'
  BY <1>1, SaidKept DEF Next
<1>4. \A d \in Clients : Waiting(d) => Waiting(d)'
  <2>1. CASE UNCHANGED backlog
    BY <2>1 DEF Waiting
  <2>2. CASE Connect(c)
    BY <1>1, <2>2, ConnectWaits DEF Connect
  <2> QED
    BY <2>1, <2>2 DEF Client, ConnectionFailed, SendLine, SendKill, BrokenPipe, EndInput, ReadId, ReadReply,
                      Type, Read, networkVars
<1>5. \A d \in Clients : Placed(d) => Placed(d)'
  BY <1>2, <1>3, <1>4 DEF Placed, AtHand
<1>6. ASSUME NEW d \in Clients, client'[d] = "id", client[d] # "id"
      PROVE  Waiting(d)'
  <2>1. d = c
    BY <1>1, <1>6, ClientOthers DEF Untouched
  <2>2. Connect(c)
    BY <1>1, <1>6, <2>1 DEF Client, Connect, ConnectionFailed, SendLine, SendKill, BrokenPipe, EndInput, ReadId,
                            ReadReply, Move, TypeOK
  <2> QED
    BY <1>1, <2>1, <2>2, ConnectWaits DEF Connect
<1> QED
  BY <1>2, <1>5, <1>6 DEF NotForgotten, Placed

LEMMA MainForgetsNobody ==
    ASSUME CauseInv, OpenUnlessTold, NotForgotten, ServerMain
    PROVE  NotForgotten'
<1>1. IndInv /\ TypeOK /\ OwnLabels /\ HandedOver
  BY DEF CauseInv, IndInv
<1>2. UNCHANGED <<program, client, asked>>
  BY MainFrame DEF clientVars
<1>3. \A d \in Clients : Said(d, "killserver") <=> Said(d, "killserver")'
  BY <1>2 DEF Said
<1>4. SUFFICES ASSUME NEW c \in Clients, program # "echo", client[c] = "id", Placed(c),
                      ~ \E d \in Clients : Said(d, "killserver")
               PROVE  Placed(c)'
  BY <1>2, <1>3 DEF NotForgotten, Placed
<1>5. CASE EchoAccept
  BY <1>4, <1>5 DEF EchoAccept
<1>6. CASE ForkAccept \/ ThreadAccept
  <2>1. /\ server = "accept" /\ accept /\ UNCHANGED handler
        /\ server' \in {"test", "fork"} /\ new_socket' = Head(backlog)
    BY <1>6 DEF ForkAccept, ThreadAccept, AcceptConnection, MainMoves
  <2>2. CASE handler[c] # "none"
    BY <2>1, <2>2 DEF Placed
  <2>3. CASE Waiting(c) /\ c # Head(backlog)
    BY <1>1, <2>1, <2>3, AcceptWaits DEF Placed
  <2>4. CASE c = Head(backlog)
    BY <2>1, <2>4 DEF Placed, AtHand
  <2> QED
    BY <1>4, <2>1, <2>2, <2>3, <2>4 DEF Placed, AtHand
<1>7. CASE Fork \/ ForkFails \/ ThreadCreate
  <2>1. /\ UNCHANGED backlog /\ new_socket \in Clients /\ server \in {"fork", "create"}
        /\ \E label \in {"id", "failed"} : handler' = [handler EXCEPT ![new_socket] = label]
    BY <1>1, <1>7 DEF Fork, ForkFails, ThreadCreate, MainMoves, networkVars, HandedOver
  <2>2. handler'[new_socket] # "none" /\ \A d \in Clients : handler[d] # "none" => handler'[d] # "none"
    BY <1>1, <2>1 DEF TypeOK
  <2>3. Waiting(c) => Waiting(c)'
    BY <2>1 DEF Waiting
  <2> QED
    BY <1>4, <2>1, <2>2, <2>3 DEF Placed, AtHand
<1>8. CASE ThreadTest
  <2>1. /\ server = "test" /\ server' = "create" /\ UNCHANGED <<new_socket, handler, backlog>>
    BY <1>4, <1>8 DEF ThreadTest, MainMoves, networkVars, OpenUnlessTold
  <2> QED
    BY <1>4, <2>1 DEF Placed, AtHand, Waiting
<1>9. CASE ThreadCreateFails
  BY <1>9 DEF ThreadCreateFails, EndProcess, Placed
<1> QED
  BY <1>5, <1>6, <1>7, <1>8, <1>9 DEF ServerMain

LEMMA HandlerForgetsNobody ==
    ASSUME CauseInv, NotForgotten, NEW h \in Clients, Handler(h)
    PROVE  NotForgotten'
<1>1. TypeOK
  BY DEF CauseInv, IndInv
<1>2. UNCHANGED <<program, client, asked, new_socket, backlog>>
  BY HandlerFrame DEF clientVars
<1>3. server' \in {server, "ended"}
  BY DEF Handler, EchoHandler, ForkHandler, ThreadHandler, EchoRead, EchoAnswer, EchoKill, ForkSendId, ForkRead,
         ForkObey, ForkAnswer, ForkKill, ThreadSendId, ThreadRead, ThreadObey, ThreadAnswer, ThreadBrokenPipe,
         ThreadClose, SendId, Receive, SendBack, EchoLine, EchoNothing, EndProcess
<1>4. \A d \in Clients : handler[d] # "none" => handler'[d] # "none"
  <2>1. CASE EchoKill(h) \/ ThreadBrokenPipe(h)
    BY <1>1, <2>1, EndFrame DEF EchoKill, ThreadBrokenPipe
  <2>2. CASE ~ (EchoKill(h) \/ ThreadBrokenPipe(h))
    <3>1. \E to \in {"read", "obey", "answer", "close", "ended"} : handler' = [handler EXCEPT ![h] = to]
      BY <2>2 DEF Handler, EchoHandler, ForkHandler, ThreadHandler, EchoRead, EchoAnswer, ForkSendId, ForkRead,
         ForkObey, ForkAnswer, ForkKill, ThreadSendId, ThreadRead, ThreadObey, ThreadAnswer, ThreadClose, SendId,
         Receive, SendBack, EchoLine, EchoNothing, HandlerMoves
    <3> QED
      BY <1>1, <3>1 DEF TypeOK
  <2> QED
    BY <2>1, <2>2
<1>5. \A d \in Clients : Placed(d) => Placed(d)'
  BY <1>2, <1>3, <1>4 DEF Placed, AtHand, Waiting, Said
<1> QED
  BY <1>2, <1>5 DEF NotForgotten, Placed

LEMMA InitQueueInv == Init => QueueInv
<1> SUFFICES ASSUME Init PROVE QueueInv
  OBVIOUS
<1>1. CauseInv
  BY InitCauseInv
<1>2. accept_new_connections /\ \A c \in Clients : client[c] = "connect"
  BY DEF Init, ClientInit
<1> QED
  BY <1>1, <1>2 DEF QueueInv, NotForgotten

LEMMA NextQueueInv == QueueInv /\ [Next]_vars => QueueInv'
<1> SUFFICES ASSUME QueueInv, [Next]_vars PROVE QueueInv'
  OBVIOUS
<1>1. CauseInv /\ OpenUnlessTold /\ NotForgotten
  BY DEF QueueInv, OpenUnlessTold
<1>2. CauseInv' /\ OpenUnlessTold'
  BY <1>1, NextCauseInv, DoorKept
<1>3. NotForgotten'
  <2>1. CASE UNCHANGED vars
    BY <1>1, <2>1 DEF NotForgotten, Waiting, AtHand, Said, vars, clientVars, networkVars, serverVars
  <2> QED
    BY <1>1, <2>1, ClientForgetsNobody, MainForgetsNobody, HandlerForgetsNobody DEF Next
<1> QED
  BY <1>2, <1>3 DEF QueueInv, OpenUnlessTold

\* No connection is lost between the backlog, main() and its handler.
THEOREM NobodyForgotten == Spec => []NotForgotten
<1>1. Init => QueueInv
  BY InitQueueInv
<1>2. QueueInv /\ [Next]_vars => QueueInv'
  BY NextQueueInv
<1>3. QueueInv => NotForgotten
  BY DEF QueueInv
<1> QED
  BY <1>1, <1>2, <1>3, PTL DEF Spec
=============================================================================
