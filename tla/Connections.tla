----------------------------- MODULE Connections -----------------------------
(***************************************************************************)
(* The calls of <sys/socket.h> and <unistd.h> that the socket programs     *)
(* make.  External: not part of the repository.  A client has at most one  *)
(* connection, named after it.  Loopback TCP neither loses nor reorders,   *)
(* and what was sent in one piece is read in one piece: lines are short.   *)
(***************************************************************************)
EXTENDS Integers, Sequences

CONSTANTS
    Clients,
    Backlog   \* connections that wait to be accepted, at most

\* The processes of a server: main(), and one child per client of the fork server.
Main == "main"
Listener == "listener"
Processes == Clients \cup {Main}
Sockets == Clients \cup {Listener}

ASSUME ConnectionAssumption == Main \notin Clients /\ Listener \notin Clients /\ Backlog \in Nat

VARIABLES
    descriptors,          \* per process of the server: the sockets it has open
    backlog,              \* connections not yet accepted, oldest first
    peers,                \* clients that have their end of the connection open
    reset,                \* connections on which a client that left was sent data
    toServer, toClient    \* per connection: what was sent and not yet read

networkVars == <<descriptors, backlog, peers, reset, toServer, toClient>>

NetworkInit ==
    /\ descriptors = [p \in Processes |-> IF p = Main THEN {Listener} ELSE {}]
    /\ backlog = <<>>
    /\ peers = {}
    /\ reset = {}
    /\ toServer = [c \in Clients |-> <<>>]
    /\ toClient = [c \in Clients |-> <<>>]

Held(s) == \E p \in Processes : s \in descriptors[p]

\* The server's end of connection c is open while some process has it open, or
\* may still accept it.
Connected(c) == Held(c) \/ (Held(Listener) /\ \E k \in DOMAIN backlog : backlog[k] = c)

\* The kernel completes a connection before the server accepts it.
connect(c) ==
    /\ Held(Listener)
    /\ Len(backlog) < Backlog
    /\ backlog' = Append(backlog, c)
    /\ peers' = peers \cup {c}
    /\ UNCHANGED <<descriptors, reset, toServer, toClient>>

accept ==
    /\ backlog # <<>>
    /\ backlog' = Tail(backlog)
    /\ descriptors' = [descriptors EXCEPT ![Main] = @ \cup {Head(backlog)}]
    /\ UNCHANGED <<peers, reset, toServer, toClient>>

\* A child has everything open that its parent has open.
fork(child) == descriptors' = [descriptors EXCEPT ![child] = descriptors[Main]]

close(p, s) == descriptors' = [descriptors EXCEPT ![p] = @ \ {s}]

\* The end of a process closes all it has open.
exit(p) == descriptors' = [descriptors EXCEPT ![p] = {}]

\* To send to a client that has left succeeds once; the answer is a reset.
send(c, message) ==
    /\ \/ /\ c \in peers
          /\ toClient' = [toClient EXCEPT ![c] = Append(@, message)]
          /\ UNCHANGED reset
       \/ /\ c \notin peers
          /\ reset' = reset \cup {c}
          /\ UNCHANGED toClient
    /\ UNCHANGED <<backlog, peers, toServer>>
=============================================================================
