---------------------------- MODULE GeminiServer ----------------------------
(***************************************************************************)
(* geminid's server (sbin/geminid/server.c): a parent that accepts, forks  *)
(* a child for each client and closes its own copy of the socket, and the  *)
(* children, each serving one client.  The children are never waited for,  *)
(* so each keeps its slot of the process table after it exits.             *)
(* Outside the program: the kernel's tables and queue, with their limits,  *)
(* and the clients, of which some stop talking.                            *)
(***************************************************************************)
EXTENDS Integers, Sequences, FiniteSets

CONSTANTS
  Client,
  NULL,
  Cooperative,  (* clients that go on talking until the server hangs up    *)
  Backlog,      (* connections that can wait for accept, listen's argument *)
  MaxFd,        (* client sockets a process can hold                       *)
  MaxProc,      (* children the process table has room for                 *)
  MaxClients    (* MAX_CLIENTS of geminid.h                                *)

ASSUME ClientAssumption ==
  /\ IsFiniteSet(Client) /\ NULL \notin Client /\ Cooperative \subseteq Client
ASSUME LimitAssumption ==
  Backlog \in Nat /\ MaxFd \in Nat /\ MaxProc \in Nat /\ MaxClients \in Nat

VARIABLES
  pc,           (* the parent: starting, then in its loop                  *)
  client_sock,  (* the parent's variable                                   *)
  parentFds,    (* clients whose socket the parent holds                   *)
  child,        (* where the child of each client is                       *)
  childFds,     (* clients whose socket that child holds                   *)
  backlog,      (* connections waiting for accept                          *)
  arrived,      (* history: clients that have connected                    *)
  addrlen       (* the length accept is given: its first value, left to    *)
                (* chance, may be below 0; accept sets it when it succeeds *)

vars == <<pc, client_sock, parentFds, child, childFds, backlog, arrived,
          addrlen>>

ChildState == {"none", "tls", "handler", "closing", "exiting", "zombie"}

TypeOK ==
  /\ pc \in {"start", "accept", "fork", "close", "exited"}
  /\ client_sock \in Client \cup {NULL}
  /\ (pc \in {"fork", "close"} => client_sock \in Client)
  /\ parentFds \subseteq Client /\ Cardinality(parentFds) <= MaxFd
  /\ child \in [Client -> ChildState]
  /\ childFds \in [Client -> SUBSET Client]
  /\ backlog \in Seq(Client) /\ Len(backlog) <= Backlog
  /\ arrived \subseteq Client
  /\ addrlen \in {"usable", "negative"}

Init ==
  /\ pc = "start" /\ client_sock = NULL /\ parentFds = {}
  /\ child = [c \in Client |-> "none"]
  /\ childFds = [c \in Client |-> {}]
  /\ backlog = <<>> /\ arrived = {}
  /\ addrlen \in {"usable", "negative"}

(* The processes that exist: a child that exited is not reaped.            *)
Forked == {c \in Client : child[c] # "none"}
Live == {c \in Client : child[c] \notin {"none", "zombie"}}

----------------------------------------------------------------------------
(* create_tls_context and create_server: a missing key or certificate, or  *)
(* a port in use, ends the program.                                        *)
Start ==
  /\ pc = "start"
  /\ pc' \in {"accept", "exited"}
  /\ UNCHANGED <<client_sock, parentFds, child, childFds, backlog, arrived,
                 addrlen>>

(* Mutant of Accept: the loop does not go back when accept fails.          *)
AcceptUnchecked ==
  /\ pc = "accept" /\ backlog # <<>>
  /\ IF Cardinality(parentFds) < MaxFd
     THEN /\ client_sock' = Head(backlog)
          /\ backlog' = Tail(backlog)
          /\ parentFds' = parentFds \cup {Head(backlog)}
     ELSE client_sock' = NULL /\ UNCHANGED <<backlog, parentFds, addrlen>>
  /\ pc' = "fork"
  /\ UNCHANGED <<child, childFds, arrived, addrlen>>

(* accept; when the process holds all the sockets it can, it fails, says   *)
(* so and tries again, to no other effect.                                 *)
Accept ==
  /\ pc = "accept" /\ backlog # <<>> /\ Cardinality(parentFds) < MaxFd
  /\ addrlen = "usable"
  /\ client_sock' = Head(backlog)
  /\ backlog' = Tail(backlog)
  /\ parentFds' = parentFds \cup {Head(backlog)}
  /\ pc' = "fork"
  /\ UNCHANGED <<child, childFds, arrived, addrlen>>

(* With a length below 0 accept fails and the kernel drops the connection  *)
(* it had taken from the queue; the length stays, and the loop goes on.    *)
AcceptDrops ==
  /\ pc = "accept" /\ backlog # <<>> /\ Cardinality(parentFds) < MaxFd
  /\ addrlen = "negative"
  /\ client_sock' = NULL
  /\ backlog' = Tail(backlog)
  /\ UNCHANGED <<pc, parentFds, child, childFds, arrived, addrlen>>

(* The child starts with a copy of every socket the parent holds.          *)
ForkOk ==
  /\ pc = "fork" /\ Cardinality(Forked) < MaxProc
  /\ child' = [child EXCEPT ![client_sock] = "tls"]
  /\ childFds' = [childFds EXCEPT ![client_sock] = parentFds]
  /\ pc' = "close"
  /\ UNCHANGED <<client_sock, parentFds, backlog, arrived, addrlen>>

(* No slot or no memory left: the parent says so and goes on to the next   *)
(* client, with this one's socket open.                                    *)
ForkFail ==
  /\ pc = "fork"
  /\ pc' = "accept"
  /\ UNCHANGED <<client_sock, parentFds, child, childFds, backlog, arrived,
                 addrlen>>

(* Mutant of Close: the parent keeps its copy.                             *)
CloseNothing ==
  /\ pc = "close"
  /\ pc' = "accept"
  /\ UNCHANGED <<client_sock, parentFds, child, childFds, backlog, arrived,
                 addrlen>>

(* Mutant of Close: it closes whatever it holds.                           *)
CloseAll ==
  /\ pc = "close"
  /\ parentFds' = {}
  /\ pc' = "accept"
  /\ UNCHANGED <<client_sock, child, childFds, backlog, arrived, addrlen>>

Close ==
  /\ pc = "close"
  /\ parentFds' = parentFds \ {client_sock}
  /\ pc' = "accept"
  /\ UNCHANGED <<client_sock, child, childFds, backlog, arrived, addrlen>>

----------------------------------------------------------------------------
(* client_handler, in the child of c: the handshake succeeds or not, ...   *)
TlsAccept(c) ==
  /\ child[c] = "tls"
  /\ \E s \in {"handler", "closing"} : child' = [child EXCEPT ![c] = s]
  /\ UNCHANGED <<pc, client_sock, parentFds, childFds, backlog, arrived,
                 addrlen>>

(* ... one request is read and, if invalid, answered, ...                  *)
Handle(c) ==
  /\ child[c] = "handler"
  /\ child' = [child EXCEPT ![c] = "closing"]
  /\ UNCHANGED <<pc, client_sock, parentFds, childFds, backlog, arrived,
                 addrlen>>

(* ... the client's socket is closed ...                                   *)
CloseSocket(c) ==
  /\ child[c] = "closing"
  /\ child' = [child EXCEPT ![c] = "exiting"]
  /\ childFds' = [childFds EXCEPT ![c] = @ \ {c}]
  /\ UNCHANGED <<pc, client_sock, parentFds, backlog, arrived, addrlen>>

(* ... and the process exits, which closes what else it holds.             *)
Exit(c) ==
  /\ child[c] = "exiting"
  /\ child' = [child EXCEPT ![c] = "zombie"]
  /\ childFds' = [childFds EXCEPT ![c] = {}]
  /\ UNCHANGED <<pc, client_sock, parentFds, backlog, arrived, addrlen>>

(* A client connects while the server listens and its queue has room.      *)
Connect(c) ==
  /\ pc \notin {"start", "exited"} /\ c \notin arrived /\ Len(backlog) < Backlog
  /\ backlog' = Append(backlog, c)
  /\ arrived' = arrived \cup {c}
  /\ UNCHANGED <<pc, client_sock, parentFds, child, childFds, addrlen>>

Parent == Start \/ Accept \/ AcceptDrops \/ ForkOk \/ ForkFail \/ Close
Child(c) == TlsAccept(c) \/ Handle(c) \/ CloseSocket(c) \/ Exit(c)

Next == Parent \/ \E c \in Client : Child(c) \/ Connect(c)

(* Processes are scheduled; a child that waits for its client goes on only *)
(* if the client does.                                                     *)
Fairness ==
  /\ WF_vars(Parent)
  /\ \A c \in Client : WF_vars(CloseSocket(c)) /\ WF_vars(Exit(c))
  /\ \A c \in Cooperative : WF_vars(TlsAccept(c)) /\ WF_vars(Handle(c))

Spec == Init /\ [][Next]_vars /\ Fairness

----------------------------------------------------------------------------
(* The clients the parent has given up on: it holds the socket, has no     *)
(* child for it and will never look at it again.                           *)
Leaked(c) == /\ c \in parentFds /\ child[c] = "none"
             /\ ~(pc = "fork" /\ client_sock = c)

(* A connection has one owner: once a client has a child, the only other   *)
(* process that holds its socket is the parent on its way from fork to     *)
(* close.  Otherwise the client would not see the end of the connection    *)
(* when its child closes it, however many clients came in between.         *)
SingleOwner ==
  \A c \in Client : child[c] # "none" =>
    /\ c \in parentFds => pc = "close" /\ client_sock = c
    /\ \A k \in Client \ {c} : c \notin childFds[k]

(* A socket the parent failed to fork for is never closed by the parent    *)
(* (the branch that prints "can't fork" has no close), nor ever served.    *)
LeakedForever ==
  [][\A c \in Client : Leaked(c) => Leaked(c)']_vars

(* The client sees the end of its connection: its child has closed the     *)
(* socket and no other process holds it.                                   *)
HungUp(c) == /\ child[c] \in {"exiting", "zombie"} /\ c \notin parentFds
             /\ \A k \in Client : c \notin childFds[k]

(* No client waits for another: each one that keeps talking is served and  *)
(* sees the end of its connection, whoever else is silent, unless fork     *)
(* failed when its turn came or the parent has run out of descriptors,     *)
(* and provided that addrlen, never initialised, does not start below 0.   *)
Served ==
  \A c \in Cooperative :
    (c \in arrived /\ addrlen = "usable")
      ~> (HungUp(c) \/ Leaked(c) \/ Cardinality(parentFds) >= MaxFd)

(* geminid.h: MAX_CLIENTS is 15: no more clients are served at a time.     *)
AtMostMaxClients == Cardinality(Live) <= MaxClients
=============================================================================
