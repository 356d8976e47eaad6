------------------------- MODULE GeminiServerProofs -------------------------
(***************************************************************************)
(* Proofs about GeminiServer, for every finite set of clients and every    *)
(* limit of the tables and the queue.                                      *)
(***************************************************************************)
EXTENDS GeminiServer, FiniteSetTheorems, SequenceTheorems, TLAPS

(* No process holds the client's socket and none serves it.                *)
Fresh(c) == /\ child[c] = "none" /\ c \notin parentFds
            /\ \A k \in Client : c \notin childFds[k]

(* Clients that have not come, and those that wait, are fresh; none waits  *)
(* twice.                                                                  *)
NewcomersFresh == \A c \in Client \ arrived : Fresh(c)
Waiting == {backlog[i] : i \in 1..Len(backlog)}
WaitingFresh == \A c \in Client : c \in Waiting => c \in arrived /\ Fresh(c)
WaitingOnce ==
  \A i, j \in 1..Len(backlog) : i # j => backlog[i] # backlog[j]

(* The client the parent has just accepted is in its hands alone.          *)
AcceptedFresh ==
  pc = "fork" => /\ client_sock \in arrived \cap parentFds
                 /\ child[client_sock] = "none"
                 /\ \A k \in Client : client_sock \notin childFds[k]

(* What the parent closes has a child.                                     *)
ClosingForked == pc = "close" => child[client_sock] # "none"

IInv ==
  /\ TypeOK
  /\ NewcomersFresh
  /\ WaitingFresh
  /\ WaitingOnce
  /\ AcceptedFresh
  /\ ClosingForked
  /\ SingleOwner

----------------------------------------------------------------------------
(* A new client at the end of the queue.                                   *)
LEMMA ConnectStep ==
  ASSUME IInv, NEW c \in Client, Connect(c)
  PROVE  IInv'
<1>1. /\ c \notin arrived /\ Len(backlog) < Backlog
      /\ backlog' = Append(backlog, c) /\ arrived' = arrived \cup {c}
      /\ UNCHANGED <<pc, client_sock, parentFds, child, childFds, addrlen>>
  BY DEF Connect
<1>2. /\ backlog \in Seq(Client) /\ Len(backlog) \in Nat
      /\ backlog' \in Seq(Client) /\ Len(backlog') = Len(backlog) + 1
      /\ \A i \in 1..Len(backlog) : backlog'[i] = backlog[i]
      /\ backlog'[Len(backlog) + 1] = c
  BY <1>1, AppendProperties, LenProperties DEF IInv, TypeOK
<1>3. Fresh(c) /\ \A d \in Client : Fresh(d)' <=> Fresh(d)
  BY <1>1 DEF IInv, NewcomersFresh, Fresh
<1>4. TypeOK'
  BY <1>1, <1>2, LimitAssumption DEF IInv, TypeOK
<1>5. NewcomersFresh'
  BY <1>1, <1>3 DEF IInv, NewcomersFresh
<1>6. WaitingFresh'
  <2>1. \A d \in Client : d \in Waiting' => d \in Waiting \/ d = c
    BY <1>2 DEF Waiting
  <2> QED
    BY <1>1, <1>3, <2>1 DEF IInv, WaitingFresh
<1>7. WaitingOnce'
  <2>1. \A i \in 1..Len(backlog) : backlog[i] # c
    BY <1>1, <1>2, ElementOfSeq DEF IInv, WaitingFresh, Waiting
  <2> QED
    BY <1>2, <2>1 DEF IInv, WaitingOnce
<1>8. AcceptedFresh' /\ ClosingForked' /\ SingleOwner'
  BY <1>1 DEF IInv, AcceptedFresh, ClosingForked, SingleOwner
<1> QED
  BY <1>4, <1>5, <1>6, <1>7, <1>8 DEF IInv

(* What taking the first client leaves in the queue.                       *)
LEMMA QueueTail ==
  ASSUME IInv, backlog # <<>>, backlog' = Tail(backlog)
  PROVE  /\ Head(backlog) \in Client \cap Waiting
         /\ backlog' \in Seq(Client) /\ Len(backlog') <= Backlog
         /\ \A d \in Client : d \in Waiting' => d \in Waiting /\ d # Head(backlog)
         /\ WaitingOnce'
<1> DEFINE c == Head(backlog)
<1>1. /\ backlog \in Seq(Client) /\ Len(backlog) \in Nat /\ 1 \in 1..Len(backlog)
      /\ c \in Client /\ c = backlog[1]
      /\ backlog' \in Seq(Client) /\ Len(backlog') = Len(backlog) - 1
      /\ \A i \in 1..Len(backlog') : backlog'[i] = backlog[i + 1]
  <2>1. backlog \in Seq(Client) /\ backlog # <<>>
    BY DEF IInv, TypeOK
  <2>2. Len(backlog) \in Nat \ {0}
    BY <2>1, EmptySeq, LenProperties
  <2> QED
    BY <2>1, <2>2, HeadTailProperties
<1>2. Len(backlog') <= Backlog
  BY <1>1, LimitAssumption DEF IInv, TypeOK
<1>3. \A i \in 1..Len(backlog') : i + 1 \in 1..Len(backlog) /\ i + 1 # 1
  BY <1>1
<1>4. \A d \in Client : d \in Waiting' => d \in Waiting /\ d # c
  <2> SUFFICES ASSUME NEW d \in Client, d \in Waiting'
               PROVE  d \in Waiting /\ d # c
    OBVIOUS
  <2>1. PICK i \in 1..Len(backlog') : d = backlog'[i]
    BY DEF Waiting
  <2>2. i + 1 \in 1..Len(backlog) /\ i + 1 # 1 /\ d = backlog[i + 1]
    BY <1>1, <1>3, <2>1
  <2>3. backlog[i + 1] # backlog[1]
    BY <1>1, <2>2 DEF IInv, WaitingOnce
  <2> QED
    BY <1>1, <2>2, <2>3 DEF Waiting
<1>5. WaitingOnce'
  BY <1>1 DEF IInv, WaitingOnce
<1>6. c \in Client \cap Waiting
  BY <1>1 DEF Waiting
<1> QED
  BY <1>1, <1>2, <1>4, <1>5, <1>6

(* The parent takes the first client of the queue.                         *)
LEMMA AcceptStep ==
  ASSUME IInv, Accept
  PROVE  IInv'
<1> DEFINE c == Head(backlog)
<1>1. /\ pc = "accept" /\ backlog # <<>> /\ Cardinality(parentFds) < MaxFd
      /\ client_sock' = c /\ backlog' = Tail(backlog)
      /\ parentFds' = parentFds \cup {c} /\ pc' = "fork"
      /\ UNCHANGED <<child, childFds, arrived, addrlen>>
  BY DEF Accept
<1>2. /\ c \in Client \cap Waiting
      /\ backlog' \in Seq(Client) /\ Len(backlog') <= Backlog
      /\ \A d \in Client : d \in Waiting' => d \in Waiting /\ d # c
      /\ WaitingOnce'
  BY <1>1, QueueTail
<1>3. c \in arrived /\ Fresh(c)
  BY <1>2 DEF IInv, WaitingFresh
<1>4. \A d \in Client \ {c} : Fresh(d) => Fresh(d)'
  BY <1>1 DEF Fresh
<1>5. TypeOK'
  <2>1. IsFiniteSet(parentFds) /\ c \notin parentFds
    BY <1>3, ClientAssumption, FS_Subset DEF IInv, TypeOK, Fresh
  <2>2. Cardinality(parentFds') = Cardinality(parentFds) + 1
        /\ Cardinality(parentFds) \in Nat
    BY <1>1, <2>1, FS_AddElement, FS_CardinalityType
  <2>3. Cardinality(parentFds') <= MaxFd
    BY <1>1, <2>2, LimitAssumption
  <2> QED
    BY <1>1, <1>2, <2>3 DEF IInv, TypeOK
<1>6. NewcomersFresh'
  BY <1>1, <1>3, <1>4 DEF IInv, NewcomersFresh
<1>7. WaitingFresh'
  BY <1>1, <1>2, <1>4 DEF IInv, WaitingFresh
<1>8. AcceptedFresh' /\ ClosingForked'
  BY <1>1, <1>3 DEF AcceptedFresh, ClosingForked, Fresh
<1>9. SingleOwner'
  BY <1>1, <1>3 DEF IInv, SingleOwner, Fresh
<1> QED
  BY <1>2, <1>5, <1>6, <1>7, <1>8, <1>9 DEF IInv

(* A connection the kernel drops is nobody's.                              *)
LEMMA AcceptDropsStep ==
  ASSUME IInv, AcceptDrops
  PROVE  IInv'
<1>1. /\ pc = "accept" /\ backlog # <<>> /\ backlog' = Tail(backlog)
      /\ client_sock' = NULL
      /\ UNCHANGED <<pc, parentFds, child, childFds, arrived, addrlen>>
  BY DEF AcceptDrops
<1>2. /\ backlog' \in Seq(Client) /\ Len(backlog') <= Backlog
      /\ \A d \in Client : d \in Waiting' => d \in Waiting
      /\ WaitingOnce'
  BY <1>1, QueueTail
<1>3. TypeOK'
  BY <1>1, <1>2 DEF IInv, TypeOK
<1>4. NewcomersFresh' /\ WaitingFresh'
  <2>1. \A d \in Client : Fresh(d) => Fresh(d)'
    BY <1>1 DEF Fresh
  <2> QED
    BY <1>1, <1>2, <2>1 DEF IInv, NewcomersFresh, WaitingFresh
<1>5. AcceptedFresh' /\ ClosingForked' /\ SingleOwner'
  BY <1>1 DEF IInv, AcceptedFresh, ClosingForked, SingleOwner
<1> QED
  BY <1>2, <1>3, <1>4, <1>5 DEF IInv

(* The child starts with copies of the parent's sockets: of leaked ones    *)
(* and of its own, for no other has a child at this point.                 *)
LEMMA ForkStep ==
  ASSUME IInv, ForkOk
  PROVE  IInv'
<1> DEFINE c == client_sock
<1>1. /\ pc = "fork" /\ pc' = "close"
      /\ child' = [child EXCEPT ![c] = "tls"]
      /\ childFds' = [childFds EXCEPT ![c] = parentFds]
      /\ UNCHANGED <<client_sock, parentFds, backlog, arrived, addrlen>>
  BY DEF ForkOk
<1>2. /\ c \in Client /\ parentFds \subseteq Client
      /\ child \in [Client -> ChildState]
      /\ childFds \in [Client -> SUBSET Client]
  BY <1>1 DEF IInv, TypeOK
<1>3. c \in arrived /\ child[c] = "none" /\ \A k \in Client : c \notin childFds[k]
  BY <1>1 DEF IInv, AcceptedFresh
<1>4. \A d \in Client : child[d] # "none" => d \notin parentFds
  BY <1>1 DEF IInv, SingleOwner
<1>5. TypeOK'
  BY <1>1, <1>2 DEF IInv, TypeOK, ChildState
<1>6. \A d \in Client \ {c} : Fresh(d) => Fresh(d)'
  BY <1>1, <1>2 DEF Fresh
<1>7. NewcomersFresh'
  BY <1>1, <1>3, <1>6 DEF IInv, NewcomersFresh
<1>8. WaitingFresh'
  <2>1. c \in parentFds /\ Waiting' = Waiting
    BY <1>1 DEF IInv, AcceptedFresh, Waiting
  <2>2. c \notin Waiting
    BY <1>2, <2>1 DEF IInv, WaitingFresh, Fresh
  <2> QED
    BY <1>1, <1>6, <2>1, <2>2 DEF IInv, WaitingFresh
<1>9. WaitingOnce' /\ AcceptedFresh' /\ ClosingForked'
  BY <1>1, <1>2 DEF IInv, WaitingOnce, AcceptedFresh, ClosingForked
<1>10. SingleOwner'
  BY <1>1, <1>2, <1>3, <1>4 DEF IInv, SingleOwner
<1> QED
  BY <1>5, <1>7, <1>8, <1>9, <1>10 DEF IInv

(* The parent gives up on a client it could not fork for.                  *)
LEMMA ForkFailStep ==
  ASSUME IInv, ForkFail
  PROVE  IInv'
<1>1. /\ pc = "fork" /\ pc' = "accept"
      /\ UNCHANGED <<client_sock, parentFds, child, childFds, backlog, arrived,
                     addrlen>>
  BY DEF ForkFail
<1>2. TypeOK' /\ AcceptedFresh' /\ ClosingForked' /\ WaitingOnce'
  BY <1>1 DEF IInv, TypeOK, AcceptedFresh, ClosingForked, WaitingOnce
<1>3. NewcomersFresh' /\ WaitingFresh'
  BY <1>1 DEF IInv, NewcomersFresh, WaitingFresh, Waiting, Fresh
<1>4. SingleOwner'
  BY <1>1 DEF IInv, SingleOwner
<1> QED
  BY <1>2, <1>3, <1>4 DEF IInv

(* The parent closes its copy of the socket.                               *)
LEMMA CloseStep ==
  ASSUME IInv, Close
  PROVE  IInv'
<1>1. /\ pc = "close" /\ pc' = "accept"
      /\ parentFds' = parentFds \ {client_sock}
      /\ UNCHANGED <<client_sock, child, childFds, backlog, arrived, addrlen>>
  BY DEF Close
<1>2. TypeOK'
  <2>1. IsFiniteSet(parentFds)
    BY ClientAssumption, FS_Subset DEF IInv, TypeOK
  <2>2. /\ Cardinality(parentFds') <= Cardinality(parentFds)
        /\ Cardinality(parentFds') \in Nat /\ Cardinality(parentFds) \in Nat
    BY <1>1, <2>1, FS_Subset, FS_CardinalityType
  <2>3. Cardinality(parentFds') <= MaxFd
    BY <2>2, LimitAssumption DEF IInv, TypeOK
  <2> QED
    BY <1>1, <2>3 DEF IInv, TypeOK
<1>3. AcceptedFresh' /\ ClosingForked' /\ WaitingOnce'
  BY <1>1 DEF IInv, AcceptedFresh, ClosingForked, WaitingOnce
<1>4. NewcomersFresh' /\ WaitingFresh'
  BY <1>1 DEF IInv, NewcomersFresh, WaitingFresh, Waiting, Fresh
<1>5. SingleOwner'
  BY <1>1 DEF IInv, SingleOwner
<1> QED
  BY <1>2, <1>3, <1>4, <1>5 DEF IInv

(* A child gives sockets up and takes none.                                *)
LEMMA ChildStep ==
  ASSUME IInv, NEW c \in Client, Child(c)
  PROVE  IInv'
<1>1. UNCHANGED <<pc, client_sock, parentFds, backlog, arrived, addrlen>>
  BY DEF Child, TlsAccept, Handle, CloseSocket, Exit
<1>2. /\ child \in [Client -> ChildState] /\ childFds \in [Client -> SUBSET Client]
      /\ child[c] # "none"
  BY DEF Child, TlsAccept, Handle, CloseSocket, Exit, IInv, TypeOK
<1>3. /\ child' \in [Client -> ChildState] /\ childFds' \in [Client -> SUBSET Client]
      /\ \A d \in Client : child'[d] = "none" <=> child[d] = "none"
      /\ \A d \in Client : childFds'[d] \subseteq childFds[d]
  <2>1. CASE TlsAccept(c)
    BY <1>2, <2>1 DEF TlsAccept, ChildState
  <2>2. CASE Handle(c)
    BY <1>2, <2>2 DEF Handle, ChildState
  <2>3. CASE CloseSocket(c)
    BY <1>2, <2>3 DEF CloseSocket, ChildState
  <2>4. CASE Exit(c)
    BY <1>2, <2>4 DEF Exit, ChildState
  <2> QED
    BY <2>1, <2>2, <2>3, <2>4 DEF Child
<1>4. TypeOK'
  BY <1>1, <1>3 DEF IInv, TypeOK
<1>5. \A d \in Client : Fresh(d) => Fresh(d)'
  BY <1>1, <1>3 DEF Fresh
<1>6. NewcomersFresh' /\ WaitingFresh' /\ WaitingOnce'
  <2>1. Waiting' = Waiting
    BY <1>1 DEF Waiting
  <2> QED
    BY <1>1, <1>5, <2>1 DEF IInv, NewcomersFresh, WaitingFresh, WaitingOnce
<1>7. AcceptedFresh' /\ ClosingForked'
  BY <1>1, <1>3 DEF IInv, AcceptedFresh, ClosingForked, TypeOK
<1>8. SingleOwner'
  BY <1>1, <1>3 DEF IInv, SingleOwner
<1> QED
  BY <1>4, <1>6, <1>7, <1>8 DEF IInv

----------------------------------------------------------------------------
(* Before the server starts nobody holds anything.                         *)
LEMMA InitIInv == Init => IInv
<1> SUFFICES ASSUME Init PROVE IInv
  OBVIOUS
<1>1. TypeOK
  BY LimitAssumption, FS_EmptySet, EmptySeq DEF Init, TypeOK, ChildState
<1>2. NewcomersFresh /\ SingleOwner /\ AcceptedFresh /\ ClosingForked
  BY DEF Init, NewcomersFresh, Fresh, SingleOwner, AcceptedFresh, ClosingForked
<1>3. Len(backlog) = 0
  BY EmptySeq DEF Init
<1>4. WaitingFresh /\ WaitingOnce
  BY <1>3 DEF WaitingFresh, Waiting, WaitingOnce
<1> QED
  BY <1>1, <1>2, <1>4 DEF IInv

(* Every step of the parent, a child or a client preserves the invariant.  *)
LEMMA NextIInv == IInv /\ [Next]_vars => IInv'
<1> SUFFICES ASSUME IInv, [Next]_vars PROVE IInv'
  OBVIOUS
<1>1. CASE Start
  BY <1>1 DEF Start, IInv, TypeOK, NewcomersFresh, WaitingFresh, Waiting,
              WaitingOnce, AcceptedFresh, ClosingForked, SingleOwner, Fresh
<1>2. CASE Accept
  BY <1>2, AcceptStep
<1>3. CASE AcceptDrops
  BY <1>3, AcceptDropsStep
<1>4. CASE ForkOk
  BY <1>4, ForkStep
<1>5. CASE ForkFail
  BY <1>5, ForkFailStep
<1>6. CASE Close
  BY <1>6, CloseStep
<1>7. ASSUME NEW c \in Client, Child(c) \/ Connect(c) PROVE IInv'
  BY <1>7, ChildStep, ConnectStep
<1>8. CASE UNCHANGED vars
  BY <1>8 DEF vars, IInv, TypeOK, NewcomersFresh, WaitingFresh, Waiting,
              WaitingOnce, AcceptedFresh, ClosingForked, SingleOwner, Fresh
<1> QED
  BY <1>1, <1>2, <1>3, <1>4, <1>5, <1>6, <1>7, <1>8
     DEF Next, Parent

(* The variables keep their types: the descriptor table and the queue stay *)
(* within their limits.                                                    *)
THEOREM TypeCorrect == Spec => []TypeOK
<1>1. IInv => TypeOK
  BY DEF IInv
<1> QED
  BY InitIInv, NextIInv, <1>1, PTL DEF Spec

(* A client with a child has one owner, but for the parent on its way from *)
(* fork to close: see SingleOwner.                                         *)
THEOREM OneOwner == Spec => []SingleOwner
<1>1. IInv => SingleOwner
  BY DEF IInv
<1> QED
  BY InitIInv, NextIInv, <1>1, PTL DEF Spec

(* A leaked socket stays open and unserved: see LeakedForever.             *)
THEOREM LeaksStay == Spec => LeakedForever
<1> DEFINE Stays == \A c \in Client : Leaked(c) => Leaked(c)'
<1>1. IInv /\ [Next]_vars => [Stays]_vars
  <2> SUFFICES ASSUME IInv, Next, NEW c \in Client, Leaked(c)
               PROVE  Leaked(c)'
    OBVIOUS
  <2>1. CASE Start \/ AcceptDrops \/ ForkFail
    BY <2>1 DEF Start, AcceptDrops, ForkFail, Leaked
  <2>2. CASE Accept
    <3>1. Head(backlog) \in Waiting /\ Head(backlog) \in Client
      BY <2>2, QueueTail DEF Accept
    <3>2. Head(backlog) # c
      BY <3>1 DEF IInv, WaitingFresh, Fresh, Leaked
    <3> QED
      BY <2>2, <3>2 DEF Accept, Leaked
  <2>3. CASE ForkOk
    BY <2>3 DEF ForkOk, Leaked, IInv, TypeOK
  <2>4. CASE Close
    BY <2>4 DEF Close, Leaked, IInv, ClosingForked
  <2>5. ASSUME NEW d \in Client, Connect(d) PROVE Leaked(c)'
    BY <2>5 DEF Connect, Leaked
  <2>6. ASSUME NEW d \in Client, Child(d) PROVE Leaked(c)'
    <3>1. d # c
      BY <2>6 DEF Child, TlsAccept, Handle, CloseSocket, Exit, Leaked
    <3> QED
      BY <2>6, <3>1
         DEF Child, TlsAccept, Handle, CloseSocket, Exit, Leaked, IInv, TypeOK
  <2> QED
    BY <2>1, <2>2, <2>3, <2>4, <2>5, <2>6 DEF Next, Parent
<1> QED
  BY InitIInv, NextIInv, <1>1, PTL DEF Spec, LeakedForever
=============================================================================
