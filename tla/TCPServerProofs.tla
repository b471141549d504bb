--------------------------- MODULE TCPServerProofs ---------------------------
(***************************************************************************)
(* Proofs about TCPServer for every number of workers, transports, handles *)
(* and connections: type correctness, the single outstanding AcceptEx, the *)
(* ownership invariant OwnInv from which the exclusion of handlers and the *)
(* absence of a use after free follow, and in the second half the service  *)
(* a connection gets, with ServiceInv.                                     *)
(*                                                                         *)
(* Every step moves the right to act on a transport from one holder to the *)
(* next: from an outstanding operation to its packet, from the packet to   *)
(* the worker that takes it, from the worker to the next operation.  That  *)
(* only one of them holds it is HandledByOne; LifeInv says which holders a *)
(* live or deleted transport may have and StackInv what a worker's label   *)
(* says about the transport on its stack.                                  *)
(***************************************************************************)
EXTENDS TCPServer, IOCPBaseProofs

USE ConstantsAssumption, ServerAssumption DEF Threads

(* The head of the port is a packet, and taking it leaves a port.          *)
LEMMA PortHead ==
  ASSUME NetOK, port # <<>>
  PROVE  /\ Head(port) \in Packet
         /\ Head(port).io \in Transports
         /\ Head(port).key \in Transports \cup {Listener}
         /\ Head(port).bytes \in Nat
         /\ Head(port).ok \in BOOLEAN
         /\ Tail(port) \in Seq(Packet)
BY HeadOfPort DEF NetOK

(* A completion of the right fields is a packet and names its transport.   *)
LEMMA CompletionPacket ==
  ASSUME NEW key \in Transports \cup {Listener}, NEW t \in Transports,
         NEW ok \in BOOLEAN, NEW n \in Nat
  PROVE  /\ Completion(key, t, ok, n) \in Packet
         /\ Completion(key, t, ok, n).key = key
         /\ Completion(key, t, ok, n).io = t
BY DEF Completion, Packet

(* What the kernel posts when it completes an accept or a receive.         *)
LEMMA KernelAcceptPosts ==
  ASSUME TypeOK, NEW t \in Transports, KernelAccept(t)
  PROVE  \E ok \in BOOLEAN, n \in Nat : port' = Append(port, Completion(Listener, t, ok, n))
<1>1. ASSUME NEW n \in 1 .. RequestSize PROVE n \in Nat
  BY ServerAssumption
<1> QED
  BY <1>1 DEF KernelAccept

(* ...a receive of some bytes, of none, or a failed one.                   *)
LEMMA KernelRecvPosts ==
  ASSUME TypeOK, NEW t \in Transports, KernelRecv(t)
  PROVE  \E ok \in BOOLEAN, n \in Nat : port' = Append(port, Completion(t, t, ok, n))
<1>1. inbound[t] \in Nat
  BY DEF TypeOK, NetOK
<1>2. ASSUME NEW n \in 1 .. inbound[t] PROVE n \in Nat
  BY <1>1
<1> QED
  BY <1>2 DEF KernelRecv

(* Posting a completion leaves a port.                                     *)
LEMMA PortAppend ==
  ASSUME NetOK, NEW key \in Transports \cup {Listener}, NEW t \in Transports,
         NEW ok \in BOOLEAN, NEW n \in Nat
  PROVE  Append(port, Completion(key, t, ok, n)) \in Seq(Packet)
BY CompletionPacket, AppendProperties DEF NetOK

(* The next five lemmas, one per part of TypeOK: a step keeps the types of *)
(* the threads' stacks...                                                  *)
LEMMA ThreadsType ==
  ASSUME TypeOK, Next PROVE ThreadsOK'
<1>0. ThreadsOK
  BY DEF TypeOK
<1>1. ASSUME NEW w \in Threads, NEW l \in Labels, Goto(w, l) PROVE ThreadsOK'
  BY <1>0, <1>1 DEF Goto, ThreadsOK
<1>2. ASSUME NEW w \in Threads, Return(w) \/ Die(w) \/ GoWild(w) PROVE ThreadsOK'
  BY <1>0, <1>2 DEF Return, Die, GoWild, ThreadsOK, Labels
<1>3. ASSUME UNCHANGED threadVars PROVE ThreadsOK'
  BY <1>0, <1>3 DEF threadVars, ThreadsOK
<1>4. {"wait", "accept", "next", "store", "add", "done", "complete", "callback",
       "rearm", "remove", "erase", "dead", "wild"} \subseteq Labels
  BY DEF Labels
<1>5. ASSUME NEW w \in Workers, RecvPacket(w) PROVE ThreadsOK'
  <2>1. CASE UNCHANGED threadVars
    BY <2>1, <1>3
  <2>2. CASE ~ UNCHANGED threadVars
    <3>1. Head(port).io \in Transports /\ Head(port).bytes \in Nat
      BY <1>5, PortHead DEF RecvPacket, Recv, TypeOK
    <3>2. /\ \E l \in {"accept", "complete"} : pc' = [pc EXCEPT ![w] = l]
          /\ obj' = [obj EXCEPT ![w] = Head(port).io]
          /\ nbytes' = [nbytes EXCEPT ![w] = Head(port).bytes]
      BY <1>5, <2>2 DEF RecvPacket, Recv
    <3> QED
      BY <1>0, <1>4, <3>1, <3>2 DEF ThreadsOK
  <2> QED
    BY <2>1, <2>2
<1>6. ASSUME NEW w \in Workers, AcceptBegin(w) PROVE ThreadsOK'
  <2>1. CASE accepted # None /\ life[accepted] = "live"
    BY <1>0, <1>4, <1>6, <2>1 DEF AcceptBegin, AfterContext, ThreadsOK, TypeOK,
         AcceptOK
  <2>2. CASE ~(accepted # None /\ life[accepted] = "live")
    BY <1>2, <1>6, <2>2 DEF AcceptBegin, AfterContext
  <2> QED
    BY <2>1, <2>2
<1>7. ASSUME NEW w \in Threads, AcceptNext(w) \/ StoreAccepted(w) PROVE ThreadsOK'
  BY <1>1, <1>2, <1>4, <1>7 DEF AcceptNext, StoreAccepted, AfterStore
<1>8. ASSUME NEW w \in Workers, AddAccepted(w) \/ OnRecived(w) PROVE ThreadsOK'
  BY <1>1, <1>2, <1>4, <1>8 DEF AddAccepted, OnRecived, RequestArrived, AfterAnswer
<1>9. ASSUME NEW w \in Workers, Complition(w) \/ StartReceiving(w) PROVE ThreadsOK'
  BY <1>1, <1>2, <1>4, <1>9 DEF Complition, Count, StartReceiving
<1>10. ASSUME NEW w \in Workers,
             RemoveTransport(w) \/ EraseTransport(w) \/ UseAfterFree(w)
      PROVE  ThreadsOK'
  BY <1>1, <1>2, <1>4, <1>10 DEF RemoveTransport, Hold, EraseTransport, Erased,
       Leave, UseAfterFree
<1>11. ASSUME TimerStep \/ NetworkStep PROVE ThreadsOK'
  BY <1>3, <1>11 DEF TimerStep, CopyTransports, PrintTransport, NetworkStep,
       KernelAccept, ClientRequest, KernelRecv, PeerClose, PeerReset
<1> QED
  BY <1>5, <1>6, <1>7, <1>8, <1>9, <1>10, <1>11 DEF Next, WorkerStep, MainStep

(* ...of the transports' fields...                                         *)
LEMMA HeapType ==
  ASSUME TypeOK, Next PROVE HeapOK'
<1>0. HeapOK
  BY DEF TypeOK
<1>1. ASSUME UNCHANGED heapVars PROVE HeapOK'
  BY <1>0, <1>1 DEF heapVars, HeapOK
<1>2. ASSUME NEW w \in Threads, AcceptNext(w) PROVE HeapOK'
  BY <1>0, <1>2 DEF AcceptNext, HeapOK, FreeSockets
<1>3. ASSUME NEW w \in Workers, OnRecived(w) PROVE HeapOK'
  <2>1. curr' \in [Transports -> Nat]
    BY <1>0, <1>3 DEF OnRecived, RequestArrived, AfterAnswer, At, HeapOK,
         ServerAssumption
  <2> QED
    BY <1>0, <1>3, <2>1 DEF OnRecived, RequestArrived, AfterAnswer, HeapOK
<1>4. ASSUME NEW w \in Workers, Complition(w) PROVE HeapOK'
  <2>1. nbytes[w] \in Nat
    BY DEF TypeOK, ThreadsOK
  <2>2. curr' \in [Transports -> Nat]
    BY <1>0, <1>4, <2>1 DEF Complition, Count, HeapOK
  <2> QED
    BY <1>0, <1>4, <2>2 DEF Complition, Count, HeapOK
<1>5. ASSUME NEW w \in Workers, RemoveTransport(w) PROVE HeapOK'
  BY <1>0, <1>5 DEF RemoveTransport, Hold, HeapOK
<1>6. ASSUME NEW w \in Workers,
             \/ RecvPacket(w)
             \/ AcceptBegin(w)
             \/ AddAccepted(w)
             \/ StartReceiving(w)
             \/ EraseTransport(w)
             \/ UseAfterFree(w)
      PROVE  HeapOK'
  BY <1>1, <1>6 DEF RecvPacket, Recv, AcceptBegin, AfterContext, AddAccepted,
       StartReceiving, EraseTransport, Erased, Leave, UseAfterFree
<1>7. ASSUME NEW w \in Threads, StoreAccepted(w) PROVE HeapOK'
  BY <1>1, <1>7 DEF StoreAccepted, AfterStore
<1>8. ASSUME TimerStep \/ NetworkStep PROVE HeapOK'
  BY <1>1, <1>8 DEF TimerStep, CopyTransports, PrintTransport, NetworkStep,
       KernelAccept, ClientRequest, KernelRecv, PeerClose, PeerReset
<1> QED
  BY <1>2, <1>3, <1>4, <1>5, <1>6, <1>7, <1>8 DEF Next, WorkerStep, MainStep

(* ...of m_Transports and the timer's copy of it...                        *)
LEMMA MapType ==
  ASSUME TypeOK, Next PROVE MapOK'
<1>0. MapOK
  BY DEF TypeOK
<1>1. ASSUME UNCHANGED <<mapVars, timerVars>> PROVE MapOK'
  BY <1>0, <1>1 DEF mapVars, timerVars, MapOK
<1>2. ASSUME NEW w \in Workers, AddAccepted(w) PROVE MapOK'
  <2>1. obj[w] \in Transports \cup {None}
    BY DEF TypeOK, ThreadsOK
  <2>2. table' \in [Sockets -> Transports \cup {None}]
    BY <1>0, <1>2, <2>1 DEF AddAccepted, AddTransport, MapOK
  <2> QED
    BY <1>0, <1>2, <2>2 DEF AddAccepted, AddTransport, MapOK, timerVars
<1>3. ASSUME NEW w \in Workers, RemoveTransport(w) PROVE MapOK'
  BY <1>0, <1>3 DEF RemoveTransport, Hold, MapOK, timerVars
<1>4. ASSUME NEW w \in Workers, EraseTransport(w) PROVE MapOK'
  BY <1>0, <1>4 DEF EraseTransport, Erased, Leave, MapOK, timerVars
<1>5. CASE TimerStep
  BY <1>0, <1>5 DEF TimerStep, CopyTransports, PrintTransport, Registered,
       mapVars, MapOK
<1>6. ASSUME NEW w \in Workers,
             \/ RecvPacket(w)
             \/ AcceptBegin(w)
             \/ OnRecived(w)
             \/ Complition(w)
             \/ StartReceiving(w)
             \/ UseAfterFree(w)
      PROVE  MapOK'
  BY <1>1, <1>6 DEF RecvPacket, Recv, AcceptBegin, AfterContext, OnRecived,
       RequestArrived, AfterAnswer, Complition, Count, StartReceiving, UseAfterFree
<1>7. ASSUME NEW w \in Threads, AcceptNext(w) \/ StoreAccepted(w) PROVE MapOK'
  BY <1>1, <1>7 DEF AcceptNext, StoreAccepted, AfterStore
<1>8. CASE NetworkStep
  BY <1>1, <1>8 DEF NetworkStep, KernelAccept, ClientRequest, KernelRecv,
       PeerClose, PeerReset
<1> QED
  BY <1>2, <1>3, <1>4, <1>5, <1>6, <1>7, <1>8 DEF Next, WorkerStep, MainStep

(* ...of the port and the operations the kernel has outstanding...         *)
LEMMA NetType ==
  ASSUME TypeOK, Next PROVE NetOK'
<1>0. NetOK
  BY DEF TypeOK
<1>1. ASSUME UNCHANGED <<port, netVars>> PROVE NetOK'
  BY <1>0, <1>1 DEF netVars, NetOK
<1>2. ASSUME NEW w \in Workers, RecvPacket(w) PROVE NetOK'
  BY <1>0, <1>2, PortHead DEF RecvPacket, Recv, netVars, NetOK
<1>3. ASSUME NEW w \in Workers, StartReceiving(w) PROVE NetOK'
  BY <1>0, <1>3 DEF StartReceiving, NetOK
<1>4. ASSUME NEW t \in Transports, KernelAccept(t) PROVE NetOK'
  <2>0. ASSUME NEW n \in 1 .. RequestSize PROVE n \in Nat /\ RequestSize - n \in Nat
    BY ServerAssumption
  <2>1. port' \in Seq(Packet)
    BY <1>0, <1>4, KernelAcceptPosts, PortAppend
  <2>2. inbound' \in [Transports -> Nat]
    BY <1>0, <1>4, <2>0 DEF KernelAccept, NetOK
  <2>3. peer' \in [Transports -> {"none", "open", "closed", "reset"}]
    BY <1>0, <1>4 DEF KernelAccept, NetOK
  <2> QED
    BY <1>0, <1>4, <2>1, <2>2, <2>3 DEF KernelAccept, NetOK
<1>5. ASSUME NEW t \in Transports, KernelRecv(t) PROVE NetOK'
  <2>a. inbound[t] \in Nat /\ recvs[t] \in Nat
    BY <1>0 DEF NetOK
  <2>b. ASSUME NEW n \in 1 .. inbound[t] PROVE n \in Nat /\ inbound[t] - n \in Nat
    BY <2>a
  <2>1. port' \in Seq(Packet)
    BY <1>0, <1>5, KernelRecvPosts, PortAppend
  <2>2. inbound' \in [Transports -> Nat] /\ recvs' \in [Transports -> Nat]
    <3>1. recvs[t] - 1 \in Nat /\ recvs' = [recvs EXCEPT ![t] = recvs[t] - 1]
      BY <1>5, <2>a DEF KernelRecv
    <3>2. \/ UNCHANGED inbound
          \/ \E n \in 1 .. inbound[t] : inbound' = [inbound EXCEPT ![t] = inbound[t] - n]
      BY <1>5 DEF KernelRecv
    <3> QED
      BY <1>0, <2>b, <3>1, <3>2 DEF NetOK
  <2> QED
    BY <1>0, <1>5, <2>1, <2>2 DEF KernelRecv, NetOK
<1>6. ASSUME NEW t \in Transports,
             ClientRequest(t) \/ PeerClose(t) \/ PeerReset(t)
      PROVE  NetOK'
  <2>1. CASE ClientRequest(t)
    <3>1. inbound[t] + RequestSize \in Nat
      BY <1>0, ServerAssumption DEF NetOK
    <3> QED
      BY <1>0, <2>1, <3>1 DEF ClientRequest, NetOK
  <2>2. CASE PeerClose(t)
    BY <1>0, <2>2 DEF PeerClose, NetOK
  <2>3. CASE PeerReset(t)
    BY <1>0, <2>3 DEF PeerReset, NetOK
  <2> QED
    BY <1>6, <2>1, <2>2, <2>3
<1>7. ASSUME NEW w \in Workers,
             \/ AcceptBegin(w)
             \/ AddAccepted(w)
             \/ OnRecived(w)
             \/ Complition(w)
             \/ RemoveTransport(w)
             \/ EraseTransport(w)
             \/ UseAfterFree(w)
      PROVE  NetOK'
  BY <1>1, <1>7 DEF AcceptBegin, AfterContext, AddAccepted, OnRecived,
       RequestArrived, AfterAnswer, Complition, Count, RemoveTransport, Hold,
       EraseTransport, Erased, Leave, UseAfterFree, netVars
<1>8. ASSUME NEW w \in Threads, AcceptNext(w) \/ StoreAccepted(w) PROVE NetOK'
  BY <1>1, <1>8 DEF AcceptNext, StoreAccepted, AfterStore
<1>9. CASE TimerStep
  BY <1>1, <1>9 DEF TimerStep, CopyTransports, PrintTransport
<1> QED
  BY <1>2, <1>3, <1>4, <1>5, <1>6, <1>7, <1>8, <1>9
     DEF Next, WorkerStep, MainStep, NetworkStep

(* ...and of the accept chain and the clients.                             *)
LEMMA AcceptType ==
  ASSUME TypeOK, Next PROVE AcceptOK'
<1>0. AcceptOK
  BY DEF TypeOK
<1>1. ASSUME UNCHANGED <<acceptVars, requested, cut, overrun>> PROVE AcceptOK'
  BY <1>0, <1>1 DEF acceptVars, AcceptOK
<1>2. ASSUME NEW w \in Workers, RecvPacket(w) PROVE AcceptOK'
  <2>1. Head(port).io \in Transports
    BY <1>2, PortHead DEF RecvPacket, Recv, TypeOK
  <2> QED
    BY <1>0, <1>2, <2>1 DEF RecvPacket, AcceptOK
<1>3. ASSUME NEW w \in Workers, AcceptBegin(w) PROVE AcceptOK'
  BY <1>0, <1>3 DEF AcceptBegin, AfterContext, AcceptOK
<1>4. ASSUME NEW w \in Threads, AcceptNext(w) \/ StoreAccepted(w) PROVE AcceptOK'
  <2>1. obj[w] \in Transports \cup {None}
    BY DEF TypeOK, ThreadsOK
  <2>2. CASE AcceptNext(w)
    <3>1. abandoned' \in SUBSET (Transports \cup {Listener})
      BY <1>0, <2>1, <2>2 DEF AcceptNext, Abandons, AcceptOK
    <3> QED
      BY <1>0, <2>2, <3>1 DEF AcceptNext, AcceptOK
  <2> QED
    BY <1>0, <1>4, <2>2 DEF StoreAccepted, AcceptOK
<1>5. ASSUME NEW w \in Workers, OnRecived(w) PROVE AcceptOK'
  BY <1>0, <1>5 DEF OnRecived, Cut, RequestArrived, AfterAnswer, acceptVars, AcceptOK
<1>6. ASSUME NEW t \in Transports, KernelAccept(t) \/ ClientRequest(t) PROVE AcceptOK'
  BY <1>0, <1>6 DEF KernelAccept, ClientRequest, acceptVars, AcceptOK
<1>7. ASSUME NEW w \in Workers, AddAccepted(w) PROVE AcceptOK'
  BY <1>1, <1>7 DEF AddAccepted
<1> QED
  BY <1>1, <1>2, <1>3, <1>4, <1>5, <1>6, <1>7
     DEF Next, WorkerStep, MainStep, TimerStep, NetworkStep

(* The types hold initially...                                             *)
LEMMA InitTypes ==
  ASSUME Init PROVE TypeOK
<1>1. ThreadsOK
  BY DEF Init, ThreadsOK, Labels
<1>2. HeapOK /\ MapOK
  BY DEF Init, HeapOK, MapOK
<1>3. NetOK
  BY EmptySeq DEF Init, NetOK
<1>4. AcceptOK
  BY DEF Init, AcceptOK
<1> QED
  BY <1>1, <1>2, <1>3, <1>4 DEF TypeOK

(* ...and every step keeps them.                                           *)
LEMMA NextTypes ==
  ASSUME TypeOK, Next PROVE TypeOK'
BY ThreadsType, HeapType, MapType, NetType, AcceptType DEF TypeOK

(* Every variable of the server keeps its type, whatever the instance.     *)
THEOREM TypeCorrect == Spec => []TypeOK
<1>1. TypeOK /\ UNCHANGED vars => TypeOK'
  BY DEF TypeOK, ThreadsOK, HeapOK, MapOK, NetOK, AcceptOK, vars, baseVars,
       threadVars, heapVars, mapVars, timerVars, netVars, acceptVars
<1>2. TypeOK /\ [Next]_vars => TypeOK'
  BY <1>1, NextTypes
<1> QED
  BY <1>2, InitTypes, PTL DEF Spec

-----------------------------------------------------------------------------
(* Where the packets of the port are after one was taken from it...        *)
LEMMA AfterTake ==
  ASSUME NetOK, port # <<>>, port' = Tail(port)
  PROVE  /\ 1 \in DOMAIN port /\ port[1] = Head(port)
         /\ \A i \in DOMAIN port' :
              i \in Nat /\ i + 1 \in DOMAIN port /\ i + 1 # 1 /\ port'[i] = port[i + 1]
BY PortTaken DEF NetOK

(* ...and after one was posted to it.                                      *)
LEMMA AfterPost ==
  ASSUME NetOK, NEW p \in Packet, port' = Append(port, p)
  PROVE  \A i \in DOMAIN port' :
           \/ i \in DOMAIN port /\ port'[i] = port[i]
           \/ i = Len(port) + 1 /\ port'[i] = p
BY PortPosted DEF NetOK

(* The accept chain never forks.                                           *)
LEMMA SingleAcceptStep ==
  ASSUME TypeOK, SingleAcceptEx, Next PROVE SingleAcceptEx'
<1> USE DEF AtMostOne
<1>0. NetOK /\ ThreadsOK /\ AcceptOK
  BY DEF TypeOK
<1>1. ASSUME UNCHANGED <<port, accepting>>, Accepters' \subseteq Accepters
      PROVE  SingleAcceptEx'
  BY <1>1 DEF SingleAcceptEx, ListenerPackets
<1>2. ASSUME NEW w \in Threads, NEW l \in Labels \ {"accept", "next"}, Goto(w, l)
      PROVE  Accepters' \subseteq Accepters
  BY <1>0, <1>2 DEF Accepters, Goto, ThreadsOK
<1>3. ASSUME NEW w \in Threads, Return(w) \/ Die(w) \/ GoWild(w)
      PROVE  Accepters' \subseteq Accepters
  BY <1>0, <1>3 DEF Accepters, Return, Die, GoWild, ThreadsOK
<1>4. ASSUME UNCHANGED pc PROVE Accepters' = Accepters
  BY <1>4 DEF Accepters
<1>5. {"store", "add", "done", "complete", "callback", "rearm", "remove", "erase"}
         \subseteq Labels \ {"accept", "next"}
  BY DEF Labels
<1>6. ASSUME NEW w \in Workers, RecvPacket(w) PROVE SingleAcceptEx'
  <2> DEFINE p == Head(port)
  <2>1. /\ port # <<>> /\ port' = Tail(port)
        /\ pc[w] = "wait" /\ UNCHANGED accepting
    BY <1>6 DEF RecvPacket, Recv
  <2>2. /\ 1 \in DOMAIN port /\ port[1] = p
        /\ \A i \in DOMAIN port' :
              i \in Nat /\ i + 1 \in DOMAIN port /\ i + 1 # 1 /\ port'[i] = port[i + 1]
    BY <1>0, <2>1, AfterTake
  <2>3. \A i \in ListenerPackets' : i \in Nat /\ i + 1 \in ListenerPackets /\ i + 1 # 1
    BY <2>2 DEF ListenerPackets
  <2>4. AtMostOne(ListenerPackets')
    <3> SUFFICES ASSUME NEW x \in ListenerPackets', NEW y \in ListenerPackets' PROVE x = y
      OBVIOUS
    <3>1. x + 1 = y + 1
      BY <2>3 DEF SingleAcceptEx
    <3> QED
      BY <2>3, <3>1
  <2>5. CASE p.key = Listener
    <3>1. ListenerPackets # {} /\ 1 \in ListenerPackets
      BY <2>2, <2>5 DEF ListenerPackets
    <3>2. ListenerPackets' = {}
      BY <2>3, <3>1 DEF SingleAcceptEx
    <3>3. Accepters' \subseteq {w}
      BY <1>0, <1>6, <3>1 DEF SingleAcceptEx, Accepters, RecvPacket, Recv,
           threadVars, ThreadsOK
    <3>4. accepting = {}
      BY <3>1 DEF SingleAcceptEx
    <3> QED
      BY <2>1, <2>4, <3>2, <3>3, <3>4 DEF SingleAcceptEx
  <2>6. CASE p.key # Listener
    <3>1. Accepters' \subseteq Accepters
      BY <1>0, <1>6, <2>6 DEF Accepters, RecvPacket, Recv, threadVars, ThreadsOK
    <3> QED
      BY <2>1, <2>3, <2>4, <3>1 DEF SingleAcceptEx
  <2> QED
    BY <2>5, <2>6
<1>7. ASSUME NEW w \in Workers, AcceptBegin(w) PROVE SingleAcceptEx'
  <2>1. Accepters' \subseteq Accepters
    BY <1>0, <1>3, <1>7 DEF AcceptBegin, AfterContext, Accepters, ThreadsOK
  <2> QED
    BY <1>1, <1>7, <2>1 DEF AcceptBegin, AfterContext
<1>8. ASSUME NEW w \in Threads, AcceptNext(w) PROVE SingleAcceptEx'
  <2>1. CASE UNCHANGED accepting
    <3>1. Accepters' \subseteq Accepters
      BY <1>2, <1>3, <1>5, <1>8 DEF AcceptNext
    <3> QED
      BY <1>1, <1>8, <2>1, <3>1 DEF AcceptNext
  <2>2. CASE ~UNCHANGED accepting
    <3>1. w \in Accepters
      BY <1>8 DEF AcceptNext, Accepters
    <3>2. PICK t \in Transports : accepting' = accepting \cup {t} /\ Goto(w, "store")
      BY <1>8, <2>2 DEF AcceptNext
    <3>3. accepting = {} /\ ListenerPackets = {} /\ Accepters = {w}
      BY <3>1 DEF SingleAcceptEx
    <3>4. Accepters' = {}
      BY <1>0, <3>2, <3>3 DEF Accepters, Goto, ThreadsOK
    <3>5. ListenerPackets' = {}
      BY <1>8, <3>3 DEF AcceptNext, ListenerPackets
    <3> QED
      BY <3>2, <3>3, <3>4, <3>5 DEF SingleAcceptEx
  <2> QED
    BY <2>1, <2>2
<1>9. ASSUME NEW w \in Threads, StoreAccepted(w) PROVE SingleAcceptEx'
  BY <1>1, <1>2, <1>5, <1>9 DEF StoreAccepted, AfterStore
<1>10. ASSUME NEW w \in Workers, AddAccepted(w) \/ OnRecived(w) PROVE SingleAcceptEx'
  BY <1>1, <1>2, <1>3, <1>5, <1>10 DEF AddAccepted, OnRecived, RequestArrived,
       AfterAnswer, acceptVars
<1>11. ASSUME NEW w \in Workers, UNCHANGED <<acceptVars, requested, cut, overrun>>,
             \/ Complition(w)
             \/ StartReceiving(w)
             \/ RemoveTransport(w)
             \/ EraseTransport(w)
             \/ UseAfterFree(w)
      PROVE  SingleAcceptEx'
  <2>1. UNCHANGED <<port, accepting>>
    BY <1>11 DEF Complition, Count, StartReceiving, RemoveTransport, Hold,
         EraseTransport, Erased, Leave, UseAfterFree, acceptVars
  <2>2. Accepters' \subseteq Accepters
    BY <1>2, <1>3, <1>5, <1>11 DEF Complition, Count, StartReceiving,
         RemoveTransport, Hold, EraseTransport, Erased, Leave, UseAfterFree
  <2> QED
    BY <1>1, <2>1, <2>2
<1>12. CASE TimerStep
  BY <1>1, <1>4, <1>12 DEF TimerStep, CopyTransports, PrintTransport, acceptVars,
       threadVars
<1>13. ASSUME NEW t \in Transports, KernelAccept(t) PROVE SingleAcceptEx'
  <2>1. accepting = {t} /\ accepting' = {} /\ ListenerPackets = {} /\ Accepters' = {}
    BY <1>4, <1>13 DEF KernelAccept, SingleAcceptEx, threadVars
  <2>2. PICK p : port' = Append(port, p) /\ p \in Packet
    BY <1>13, KernelAcceptPosts, CompletionPacket
  <2>3. ListenerPackets' \subseteq {Len(port) + 1}
    BY <1>0, <2>1, <2>2, AfterPost DEF ListenerPackets
  <2> QED
    BY <2>1, <2>3 DEF SingleAcceptEx
<1>14. ASSUME NEW t \in Transports, KernelRecv(t), UNCHANGED <<acceptVars, requested, cut, overrun>>
       PROVE  SingleAcceptEx'
  <2>1. UNCHANGED accepting /\ Accepters' = Accepters
    BY <1>4, <1>14 DEF KernelRecv, threadVars, acceptVars
  <2>2. PICK p : port' = Append(port, p) /\ p \in Packet /\ p.key # Listener
    BY <1>14, KernelRecvPosts, CompletionPacket, ConstantsAssumption
  <2>3. ListenerPackets' \subseteq ListenerPackets
    BY <1>0, <2>2, AfterPost DEF ListenerPackets
  <2> QED
    BY <2>1, <2>3 DEF SingleAcceptEx
<1>15. ASSUME NEW t \in Transports, PeerClose(t) \/ PeerReset(t) \/ ClientRequest(t),
              UNCHANGED acceptVars
       PROVE  SingleAcceptEx'
  BY <1>1, <1>4, <1>15 DEF PeerClose, PeerReset, ClientRequest, threadVars,
       acceptVars
<1> QED
  BY <1>6, <1>7, <1>8, <1>9, <1>10, <1>11, <1>12, <1>13, <1>14, <1>15
     DEF Next, WorkerStep, MainStep, NetworkStep, ClientRequest

(* At most one AcceptEx of a listening socket is ever in flight.           *)
THEOREM SingleAccept == Spec => []SingleAcceptEx
<1>1. Init => SingleAcceptEx
  BY DEF Init, SingleAcceptEx, AtMostOne, ListenerPackets, Accepters
<1>2. TypeOK /\ SingleAcceptEx /\ [Next]_vars => SingleAcceptEx'
  <2>1. ASSUME SingleAcceptEx, UNCHANGED vars PROVE SingleAcceptEx'
    BY <2>1 DEF SingleAcceptEx, AtMostOne, ListenerPackets, Accepters, vars,
         baseVars, threadVars, acceptVars
  <2> QED
    BY <2>1, SingleAcceptStep
<1> QED
  BY <1>1, <1>2, TypeCorrect, PTL DEF Spec

-----------------------------------------------------------------------------
(* Exclusive is not inductive: what a fresh or a deleted transport may be  *)
(* named by, and where a worker's transport comes from, must be known too. *)
Unheld(t) == recvs[t] = 0 /\ t \notin accepting /\ PacketsOf(t) = {}

LifeInv ==
  \A t \in Transports :
    /\ life[t] = "unallocated" => Unheld(t) /\ HoldersOf(t) = {}
    /\ life[t] = "deleted" => Unheld(t) /\ \A w \in HoldersOf(t) : pc[w] = "erase"

InHandler == Handling \cup {"accept", "next", "store", "add"}

StackInv ==
  \A w \in Workers :
    /\ pc[w] # "wild"
    /\ pc[w] \in InHandler => obj[w] \in Transports
    /\ pc[w] = "accept" => ov[w] = obj[w]

OwnInv ==
  ~overrun => (\A t \in Transports : HandledByOne(t)) /\ LifeInv /\ StackInv

(* A step that moves one thread on within its handler, or out of it, and   *)
(* starts no operation keeps the invariant.                                *)
LEMMA Calm ==
  ASSUME TypeOK, OwnInv, ~overrun,
         NEW w \in Threads, NEW l \in Labels \ {"accept", "wild"},
         pc' = [pc EXCEPT ![w] = l],
         UNCHANGED <<port, recvs, accepting, life>>,
         \A v \in Workers : v # w => ov'[v] = ov[v],
         \/ /\ obj' = obj
            /\ pc[w] # "erase"
            /\ w \in Workers => obj[w] \in Transports
         \/ /\ obj' = [obj EXCEPT ![w] = None]
            /\ l \in {"wait", "dead"}
  PROVE  OwnInv'
<1>0. /\ pc \in [Threads -> Labels]
      /\ obj \in [Threads -> Transports \cup {None}]
  BY DEF TypeOK, ThreadsOK
<1>1. (\A t \in Transports : HandledByOne(t)) /\ LifeInv /\ StackInv
  BY DEF OwnInv
<1>2. ASSUME NEW t \in Transports
      PROVE  HoldersOf(t)' \subseteq HoldersOf(t) /\ PacketsOf(t)' = PacketsOf(t)
  BY <1>0, ConstantsAssumption DEF HoldersOf, PacketsOf
<1>3. ASSUME NEW t \in Transports PROVE HandledByOne(t)'
  BY <1>1, <1>2 DEF HandledByOne, AtMostOne
<1>4. LifeInv'
  <2> SUFFICES ASSUME NEW t \in Transports
               PROVE  /\ life[t] = "unallocated" => Unheld(t)' /\ HoldersOf(t)' = {}
                      /\ life[t] = "deleted" =>
                           Unheld(t)' /\ \A v \in HoldersOf(t)' : pc'[v] = "erase"
    BY DEF LifeInv
  <2>1. Unheld(t)' = Unheld(t)
    BY <1>2 DEF Unheld
  <2>2. ASSUME life[t] = "deleted", NEW v \in HoldersOf(t)' PROVE pc'[v] = "erase"
    <3>1. v \in HoldersOf(t) /\ pc[v] = "erase"
      BY <1>1, <1>2, <2>2 DEF LifeInv
    <3>2. v # w
      BY <1>0, <2>2, <3>1, ConstantsAssumption DEF HoldersOf
    <3> QED
      BY <1>0, <3>1, <3>2 DEF HoldersOf
  <2> QED
    BY <1>1, <1>2, <2>1, <2>2 DEF LifeInv
<1>5. StackInv'
  BY <1>0, <1>1 DEF StackInv, InHandler, Handling
<1> QED
  BY <1>3, <1>4, <1>5 DEF OwnInv

(* Steps that leave the threads and the transports alone keep it too.      *)
LEMMA Still ==
  ASSUME OwnInv,
         UNCHANGED <<threadVars, port, recvs, life, accepting, ov, overrun>>
  PROVE  OwnInv'
BY DEF OwnInv, HandledByOne, AtMostOne, LifeInv, StackInv, Unheld, PacketsOf,
       HoldersOf, threadVars

(* A worker takes a packet and becomes the one thread to handle it.        *)
LEMMA OwnRecv ==
  ASSUME TypeOK, OwnInv, ~overrun, NEW w \in Workers, RecvPacket(w)
  PROVE  OwnInv'
<1>0. NetOK /\ ThreadsOK /\ AcceptOK
  BY DEF TypeOK
<1>1. (\A t \in Transports : HandledByOne(t)) /\ LifeInv /\ StackInv
  BY DEF OwnInv
<1>2. /\ port # <<>> /\ port' = Tail(port) /\ pc[w] = "wait"
      /\ UNCHANGED <<life, recvs, accepting, overrun>>
  BY DEF RecvPacket, Recv, heapVars, netVars
<1>3. /\ 1 \in DOMAIN port /\ port[1] = Head(port)
      /\ \A i \in DOMAIN port' :
            i \in Nat /\ i + 1 \in DOMAIN port /\ i + 1 # 1 /\ port'[i] = port[i + 1]
  BY <1>0, <1>2, AfterTake
<1>4. PICK u \in Transports : u = Head(port).io
  BY <1>0, <1>2, PortHead
<1>4a. 1 \in PacketsOf(u) /\ HandledByOne(u)
  BY <1>1, <1>3, <1>4 DEF PacketsOf
<1>5. /\ recvs[u] = 0 /\ u \notin accepting /\ HoldersOf(u) = {} /\ PacketsOf(u) = {1}
      /\ life[u] # "unallocated" /\ life[u] # "deleted"
  <2>1. recvs[u] \in Nat
    BY <1>0 DEF NetOK
  <2>2. recvs[u] = 0 /\ u \notin accepting /\ HoldersOf(u) = {}
    BY <1>4a, <2>1 DEF HandledByOne
  <2>3. PacketsOf(u) = {1}
    BY <1>4a DEF HandledByOne, AtMostOne
  <2>4. life[u] # "unallocated" /\ life[u] # "deleted"
    BY <1>1, <1>4a DEF LifeInv, Unheld
  <2> QED
    BY <2>2, <2>3, <2>4
<1>6. ASSUME NEW t \in Transports, NEW i \in PacketsOf(t)'
      PROVE  i \in Nat /\ i + 1 \in PacketsOf(t) /\ i + 1 # 1
  BY <1>3 DEF PacketsOf
<1>7. PacketsOf(u)' = {}
  BY <1>4, <1>5, <1>6
<1>8. ASSUME NEW t \in Transports PROVE AtMostOne(PacketsOf(t)')
  <2> SUFFICES ASSUME NEW x \in PacketsOf(t)', NEW y \in PacketsOf(t)' PROVE x = y
    BY DEF AtMostOne
  <2>1. x + 1 = y + 1
    BY <1>1, <1>6 DEF HandledByOne, AtMostOne
  <2> QED
    BY <1>6, <2>1
<1>9. /\ obj' = obj \/ obj' = [obj EXCEPT ![w] = u]
      /\ \/ UNCHANGED threadVars
         \/ /\ obj'[w] = u
            /\ pc' = [pc EXCEPT ![w] = "accept"] \/ pc' = [pc EXCEPT ![w] = "complete"]
      /\ ov' = [ov EXCEPT ![w] = IF pc'[w] = "accept" THEN u ELSE None]
  BY <1>0, <1>4 DEF RecvPacket, Recv, threadVars, ThreadsOK
<1>10. HoldersOf(u)' \subseteq {w}
  BY <1>0, <1>4, <1>5, <1>9 DEF HoldersOf, ThreadsOK
<1>11. ASSUME NEW t \in Transports, t # u PROVE HoldersOf(t)' \subseteq HoldersOf(t)
  BY <1>0, <1>9, <1>11 DEF HoldersOf, ThreadsOK
<1>12. ASSUME NEW t \in Transports PROVE HandledByOne(t)'
  <2>1. CASE t = u
    BY <1>2, <1>5, <1>7, <1>10, <2>1 DEF HandledByOne, AtMostOne
  <2>2. CASE t # u
    BY <1>1, <1>2, <1>6, <1>8, <1>11, <2>2 DEF HandledByOne, AtMostOne
  <2> QED
    BY <2>1, <2>2
<1>13. LifeInv'
  <2> SUFFICES ASSUME NEW t \in Transports
               PROVE  /\ life[t] = "unallocated" => Unheld(t)' /\ HoldersOf(t)' = {}
                      /\ life[t] = "deleted" =>
                           Unheld(t)' /\ \A v \in HoldersOf(t)' : pc'[v] = "erase"
    BY <1>2 DEF LifeInv
  <2>1. CASE t = u
    BY <1>5, <2>1
  <2>2. CASE t # u
    <3>1. Unheld(t) => Unheld(t)'
      BY <1>2, <1>6 DEF Unheld
    <3>2. ASSUME life[t] = "deleted", NEW v \in HoldersOf(t)' PROVE pc'[v] = "erase"
      <4>1. v \in HoldersOf(t) /\ pc[v] = "erase"
        BY <1>1, <1>11, <2>2, <3>2 DEF LifeInv
      <4>2. v # w
        BY <1>2, <4>1
      <4> QED
        BY <1>0, <1>9, <4>1, <4>2 DEF threadVars, ThreadsOK, HoldersOf
    <3> QED
      BY <1>1, <1>11, <2>2, <3>1, <3>2 DEF LifeInv
  <2> QED
    BY <2>1, <2>2
<1>14. StackInv'
  <2> SUFFICES ASSUME NEW v \in Workers
               PROVE  /\ pc'[v] # "wild"
                      /\ pc'[v] \in InHandler => obj'[v] \in Transports
                      /\ pc'[v] = "accept" => ov'[v] = obj'[v]
    BY DEF StackInv, InHandler, Handling
  <2>1. CASE v = w
    BY <1>0, <1>1, <1>2, <1>4, <1>9, <2>1 DEF StackInv, threadVars, ThreadsOK,
         AcceptOK, InHandler, Handling
  <2>2. CASE v # w
    <3>1. pc'[v] = pc[v] /\ obj'[v] = obj[v] /\ ov'[v] = ov[v]
      BY <1>0, <1>9, <2>2 DEF threadVars, ThreadsOK, AcceptOK
    <3> QED
      BY <1>1, <3>1 DEF StackInv
  <2> QED
    BY <2>1, <2>2
<1> QED
  BY <1>12, <1>13, <1>14 DEF OwnInv

(* Reading the slot of its own accept, a handler keeps its transport.      *)
LEMMA OwnAcceptBegin ==
  ASSUME TypeOK, OwnInv, ~overrun, ~overrun', NEW w \in Workers, AcceptBegin(w)
  PROVE  OwnInv'
<1>0. ThreadsOK /\ AcceptOK
  BY DEF TypeOK
<1>1. pc[w] = "accept" /\ obj[w] \in Transports /\ accepted = obj[w]
  BY DEF OwnInv, StackInv, AcceptBegin, AfterContext, InHandler
<1>2. life[accepted] = "live"
  <2>1. w \in HoldersOf(accepted)
    BY <1>1 DEF HoldersOf
  <2> QED
    BY <1>1, <2>1 DEF OwnInv, LifeInv, TypeOK, HeapOK
<1>3. obj' = obj /\ pc' = [pc EXCEPT ![w] = "next"]
  BY <1>0, <1>1, <1>2, ConstantsAssumption DEF AcceptBegin, AfterContext, ThreadsOK
<1>4. UNCHANGED <<port, recvs, accepting, life>>
  BY DEF AcceptBegin, AfterContext, heapVars, netVars
<1>5. \A v \in Workers : v # w => ov'[v] = ov[v]
  BY <1>0 DEF AcceptBegin, AfterContext, AcceptOK
<1> QED
  BY <1>1, <1>3, <1>4, <1>5, Calm DEF Labels

(* AcceptNext puts a new transport in the hands of the kernel alone.       *)
LEMMA OwnAcceptNext ==
  ASSUME TypeOK, OwnInv, ~overrun, NEW w \in Threads, AcceptNext(w)
  PROVE  OwnInv'
<1>0. ThreadsOK /\ HeapOK
  BY DEF TypeOK
<1>1. (\A t \in Transports : HandledByOne(t)) /\ LifeInv /\ StackInv
  BY DEF OwnInv
<1>2. /\ pc[w] = "next"
      /\ UNCHANGED <<port, recvs, ov>>
      /\ w \in Workers => obj[w] \in Transports
  BY <1>1 DEF AcceptNext, netVars, StackInv, InHandler
<1>3. CASE Die(w) /\ UNCHANGED <<life, accepting>>
  BY <1>2, <1>3, Calm DEF Die, Labels
<1>4. CASE ~(Die(w) /\ UNCHANGED <<life, accepting>>)
  <2>1. PICK t \in Transports :
          /\ life[t] = "unallocated"
          /\ life' = [life EXCEPT ![t] = "live"]
          /\ \/ accepting' = accepting \cup {t} /\ Goto(w, "store")
             \/ UNCHANGED accepting /\ Die(w)
    BY <1>4 DEF AcceptNext
  <2>2. Unheld(t) /\ HoldersOf(t) = {}
    BY <1>1, <2>1 DEF LifeInv
  <2>3. ASSUME NEW u \in Transports
        PROVE  HoldersOf(u)' \subseteq HoldersOf(u) /\ PacketsOf(u)' = PacketsOf(u)
    BY <1>0, <1>2, <2>1, ConstantsAssumption DEF HoldersOf, PacketsOf, Goto, Die,
         ThreadsOK
  <2>4. ASSUME NEW u \in Transports PROVE HandledByOne(u)'
    <3>1. HandledByOne(u)
      BY <1>1
    <3>2. HoldersOf(u)' \subseteq HoldersOf(u) /\ PacketsOf(u)' = PacketsOf(u) /\ recvs' = recvs
      BY <1>2, <2>3
    <3>3. u \in accepting' => u \in accepting \/ u = t
      BY <2>1
    <3> QED
      BY <2>2, <3>1, <3>2, <3>3 DEF HandledByOne, AtMostOne, Unheld
  <2>5. LifeInv'
    <3> SUFFICES ASSUME NEW u \in Transports
                 PROVE  /\ life'[u] = "unallocated" => Unheld(u)' /\ HoldersOf(u)' = {}
                        /\ life'[u] = "deleted" =>
                             Unheld(u)' /\ \A v \in HoldersOf(u)' : pc'[v] = "erase"
      BY DEF LifeInv
    <3>1. CASE u = t
      BY <1>0, <2>1, <3>1 DEF HeapOK
    <3>2. CASE u # t
      <4>1. life'[u] = life[u] /\ (Unheld(u) => Unheld(u)')
        BY <1>0, <1>2, <2>1, <2>3, <3>2 DEF HeapOK, Unheld
      <4>2. ASSUME life[u] = "deleted", NEW v \in HoldersOf(u)' PROVE pc'[v] = "erase"
        <5>1. v \in Workers /\ pc[v] = "erase"
          BY <1>1, <2>3, <4>2 DEF LifeInv, HoldersOf
        <5>2. v # w
          BY <1>2, <5>1
        <5> QED
          BY <1>0, <2>1, <5>1, <5>2 DEF Goto, Die, ThreadsOK
      <4> QED
        BY <1>1, <2>3, <4>1, <4>2 DEF LifeInv
    <3> QED
      BY <3>1, <3>2
  <2>6. StackInv'
    BY <1>0, <1>1, <1>2, <2>1 DEF StackInv, Goto, Die, InHandler, Handling,
         ThreadsOK
  <2> QED
    BY <2>4, <2>5, <2>6 DEF OwnInv
<1> QED
  BY <1>3, <1>4

(* A worker starts the next WSARecv, and nothing else named its transport. *)
LEMMA OwnStartReceiving ==
  ASSUME TypeOK, OwnInv, ~overrun, NEW w \in Workers, StartReceiving(w),
         UNCHANGED <<acceptVars, requested, cut, overrun>>
  PROVE  OwnInv'
<1>0. ThreadsOK /\ NetOK
  BY DEF TypeOK
<1>1. (\A t \in Transports : HandledByOne(t)) /\ LifeInv /\ StackInv
  BY DEF OwnInv
<1>2. /\ pc[w] = "rearm" /\ UNCHANGED <<port, life, accepting, ov>>
      /\ obj[w] \in Transports
  BY <1>1 DEF StartReceiving, At, heapVars, acceptVars, StackInv, InHandler,
       Handling
<1>3. CASE Die(w) /\ UNCHANGED recvs
  BY <1>2, <1>3, Calm DEF Die, Labels
<1>4. CASE Return(w) /\ recvs' = [recvs EXCEPT ![obj[w]] = @ + 1]
  <2>1. PICK t \in Transports : t = obj[w]
    BY <1>2
  <2>2. w \in HoldersOf(t) /\ HandledByOne(t)
    BY <1>1, <2>1 DEF HoldersOf
  <2>3. /\ recvs[t] = 0 /\ t \notin accepting /\ PacketsOf(t) = {} /\ HoldersOf(t) = {w}
        /\ life[t] # "unallocated" /\ life[t] # "deleted"
    <3>1. recvs[t] \in Nat
      BY <1>0 DEF NetOK
    <3>2. recvs[t] = 0 /\ t \notin accepting /\ PacketsOf(t) = {}
      BY <2>2, <3>1 DEF HandledByOne
    <3>3. HoldersOf(t) = {w}
      BY <2>2 DEF HandledByOne, AtMostOne
    <3>4. life[t] # "unallocated" /\ life[t] # "deleted"
      BY <1>1, <1>2, <2>2 DEF LifeInv
    <3> QED
      BY <3>2, <3>3, <3>4
  <2>4. /\ recvs'[t] = 1
        /\ \A u \in Transports : u # t => recvs'[u] = recvs[u]
    BY <1>0, <1>4, <2>1, <2>3 DEF NetOK
  <2>5. ASSUME NEW u \in Transports
        PROVE  HoldersOf(u)' \subseteq HoldersOf(u) \ {w} /\ PacketsOf(u)' = PacketsOf(u)
    BY <1>0, <1>2, <1>4, ConstantsAssumption DEF HoldersOf, PacketsOf, Return,
         ThreadsOK
  <2>6. ASSUME NEW u \in Transports PROVE HandledByOne(u)'
    <3>1. CASE u = t
      BY <1>2, <2>3, <2>4, <2>5, <3>1 DEF HandledByOne, AtMostOne
    <3>2. CASE u # t
      <4>1. HandledByOne(u)
        BY <1>1
      <4> QED
        BY <1>2, <2>4, <2>5, <3>2, <4>1 DEF HandledByOne, AtMostOne
    <3> QED
      BY <3>1, <3>2
  <2>7. LifeInv'
    <3> SUFFICES ASSUME NEW u \in Transports
                 PROVE  /\ life[u] = "unallocated" => Unheld(u)' /\ HoldersOf(u)' = {}
                        /\ life[u] = "deleted" =>
                             Unheld(u)' /\ \A v \in HoldersOf(u)' : pc'[v] = "erase"
      BY <1>2 DEF LifeInv
    <3>1. CASE u = t
      BY <2>3, <3>1
    <3>2. CASE u # t
      <4>1. Unheld(u) => Unheld(u)'
        BY <1>2, <2>4, <2>5, <3>2 DEF Unheld
      <4>2. \A v \in Workers \ {w} : pc'[v] = pc[v]
        BY <1>0, <1>4 DEF Return, ThreadsOK
      <4> QED
        BY <1>1, <2>5, <4>1, <4>2 DEF LifeInv, HoldersOf
    <3> QED
      BY <3>1, <3>2
  <2>8. StackInv'
    BY <1>0, <1>1, <1>2, <1>4 DEF StackInv, Return, InHandler, Handling, ThreadsOK
  <2> QED
    BY <2>6, <2>7, <2>8 DEF OwnInv
<1> QED
  BY <1>3, <1>4 DEF StartReceiving

(* The worker that deletes a transport is the only one to know it.         *)
LEMMA OwnRemove ==
  ASSUME TypeOK, OwnInv, ~overrun, NEW w \in Workers, RemoveTransport(w),
         UNCHANGED <<acceptVars, requested, cut, overrun>>
  PROVE  OwnInv'
<1>0. ThreadsOK /\ NetOK /\ HeapOK
  BY DEF TypeOK
<1>1. (\A t \in Transports : HandledByOne(t)) /\ LifeInv /\ StackInv
  BY DEF OwnInv
<1>2. /\ pc[w] = "remove" /\ UNCHANGED <<port, recvs, accepting, ov>>
      /\ obj[w] \in Transports
  BY <1>1 DEF RemoveTransport, Hold, At, netVars, acceptVars, StackInv, InHandler,
       Handling
<1>3. CASE Return(w) /\ UNCHANGED life
  BY <1>2, <1>3, Calm DEF Return, Labels
<1>4. CASE life' = [life EXCEPT ![obj[w]] = "deleted"] /\ Goto(w, "erase")
  <2>1. PICK t \in Transports : t = obj[w]
    BY <1>2
  <2>2. w \in HoldersOf(t) /\ HandledByOne(t)
    BY <1>1, <2>1 DEF HoldersOf
  <2>3. Unheld(t) /\ HoldersOf(t) = {w}
    <3>1. recvs[t] \in Nat
      BY <1>0 DEF NetOK
    <3> QED
      BY <2>2, <3>1 DEF HandledByOne, AtMostOne, Unheld
  <2>4. ASSUME NEW u \in Transports
        PROVE  HoldersOf(u)' = HoldersOf(u) /\ PacketsOf(u)' = PacketsOf(u)
    BY <1>2, <1>4 DEF HoldersOf, PacketsOf, Goto
  <2>5. ASSUME NEW u \in Transports PROVE HandledByOne(u)'
    BY <1>1, <1>2, <2>4 DEF HandledByOne, AtMostOne
  <2>6. LifeInv'
    <3> SUFFICES ASSUME NEW u \in Transports
                 PROVE  /\ life'[u] = "unallocated" => Unheld(u)' /\ HoldersOf(u)' = {}
                        /\ life'[u] = "deleted" =>
                             Unheld(u)' /\ \A v \in HoldersOf(u)' : pc'[v] = "erase"
      BY DEF LifeInv
    <3>1. Unheld(u)' = Unheld(u)
      BY <1>2, <2>4 DEF Unheld
    <3>2. pc'[w] = "erase" /\ \A v \in Workers : pc[v] = "erase" => pc'[v] = "erase"
      BY <1>0, <1>4 DEF Goto, ThreadsOK
    <3>3. CASE u = t
      BY <1>0, <1>4, <2>1, <2>3, <2>4, <3>1, <3>2, <3>3 DEF HeapOK
    <3>4. CASE u # t
      <4>1. life'[u] = life[u]
        BY <1>0, <1>4, <2>1, <3>4 DEF HeapOK
      <4> QED
        BY <1>1, <2>4, <3>1, <3>2, <4>1 DEF LifeInv, HoldersOf
    <3> QED
      BY <3>3, <3>4
  <2>7. StackInv'
    BY <1>0, <1>1, <1>2, <1>4 DEF StackInv, Goto, InHandler, Handling, ThreadsOK
  <2> QED
    BY <2>5, <2>6, <2>7 DEF OwnInv
<1> QED
  BY <1>3, <1>4 DEF RemoveTransport, Hold

(* The kernel turns an operation outstanding on t into a packet that names *)
(* t.                                                                      *)
LEMMA OwnPost ==
  ASSUME TypeOK, OwnInv, ~overrun, NEW t \in Transports,
         NEW p \in Packet, p.io = t, port' = Append(port, p),
         \/ t \in accepting /\ accepting' = accepting \ {t} /\ recvs' = recvs
         \/ recvs[t] > 0 /\ recvs' = [recvs EXCEPT ![t] = @ - 1] /\ accepting' = accepting,
         UNCHANGED <<threadVars, life, ov, overrun>>
  PROVE  OwnInv'
<1>0. NetOK
  BY DEF TypeOK
<1>1. (\A u \in Transports : HandledByOne(u)) /\ LifeInv /\ StackInv
  BY DEF OwnInv
<1>2. recvs \in [Transports -> Nat]
  BY <1>0 DEF NetOK
<1>3. /\ PacketsOf(t) = {} /\ HoldersOf(t) = {}
      /\ life[t] # "unallocated" /\ life[t] # "deleted"
  BY <1>1 DEF HandledByOne, LifeInv, Unheld
<1>4. recvs'[t] = 0 /\ t \notin accepting'
  BY <1>1, <1>2 DEF HandledByOne
<1>5. ASSUME NEW u \in Transports, u # t
      PROVE  recvs'[u] = recvs[u] /\ (u \in accepting' <=> u \in accepting)
  BY <1>2, <1>5
<1>6. ASSUME NEW u \in Transports PROVE HoldersOf(u)' = HoldersOf(u)
  BY DEF HoldersOf, threadVars
<1>7. PacketsOf(t)' \subseteq {Len(port) + 1}
  BY <1>0, <1>3, AfterPost DEF PacketsOf
<1>8. ASSUME NEW u \in Transports, u # t PROVE PacketsOf(u)' \subseteq PacketsOf(u)
  BY <1>0, <1>8, AfterPost DEF PacketsOf
<1>9. ASSUME NEW u \in Transports PROVE HandledByOne(u)'
  <2>1. CASE u = t
    BY <1>3, <1>4, <1>6, <1>7, <2>1 DEF HandledByOne, AtMostOne
  <2>2. CASE u # t
    <3>1. HandledByOne(u)
      BY <1>1
    <3> QED
      BY <1>5, <1>6, <1>8, <2>2, <3>1 DEF HandledByOne, AtMostOne
  <2> QED
    BY <2>1, <2>2
<1>10. LifeInv'
  <2> SUFFICES ASSUME NEW u \in Transports
               PROVE  /\ life[u] = "unallocated" => Unheld(u)' /\ HoldersOf(u)' = {}
                      /\ life[u] = "deleted" =>
                           Unheld(u)' /\ \A v \in HoldersOf(u)' : pc'[v] = "erase"
    BY DEF LifeInv
  <2>1. CASE u = t
    BY <1>3, <2>1
  <2>2. CASE u # t
    <3>1. Unheld(u) => Unheld(u)'
      BY <1>5, <1>8, <2>2 DEF Unheld
    <3> QED
      BY <1>1, <1>6, <3>1 DEF LifeInv, threadVars
  <2> QED
    BY <2>1, <2>2
<1>11. StackInv'
  BY <1>1 DEF StackInv, threadVars
<1> QED
  BY <1>9, <1>10, <1>11 DEF OwnInv

(* Every step keeps the ownership invariant: the lemmas above, by action.  *)
LEMMA OwnStep ==
  ASSUME TypeOK, OwnInv, Next PROVE OwnInv'
<1> SUFFICES ASSUME ~overrun' PROVE OwnInv'
  BY DEF OwnInv
<1>0. ThreadsOK /\ AcceptOK
  BY DEF TypeOK
<1>1. ~overrun
  BY DEF Next, WorkerStep, MainStep, TimerStep, NetworkStep, RecvPacket,
       AcceptBegin, AfterContext, AcceptNext, StoreAccepted, AfterStore, AddAccepted,
       OnRecived, RequestArrived, AfterAnswer, KernelAccept, ClientRequest
<1>2. StackInv /\ LifeInv
  BY <1>1 DEF OwnInv
<1>3. ASSUME NEW w \in Workers, UNCHANGED <<port, recvs, accepting, life, ov>>,
             NEW l \in Labels \ {"accept", "wild"}, Goto(w, l),
             pc[w] \in InHandler
      PROVE  OwnInv'
  BY <1>1, <1>2, <1>3, Calm DEF Goto, StackInv, InHandler, Handling
<1>4. ASSUME NEW w \in Workers, UNCHANGED <<port, recvs, accepting, life, ov>>,
             Return(w) \/ Die(w)
      PROVE  OwnInv'
  BY <1>1, <1>4, Calm DEF Return, Die, Labels
<1>5. {"add", "done", "complete", "callback", "rearm", "remove"}
         \subseteq Labels \ {"accept", "wild"}
  BY DEF Labels
<1>6. ASSUME NEW w \in Threads, StoreAccepted(w) PROVE OwnInv'
  <2>1. w \in Workers => obj[w] \in Transports
    BY <1>2, <1>6 DEF StoreAccepted, AfterStore, StackInv, InHandler
  <2> QED
    BY <1>1, <1>5, <1>6, <2>1, Calm DEF StoreAccepted, AfterStore, Goto, heapVars,
         netVars
<1>7. ASSUME NEW w \in Workers, AddAccepted(w) PROVE OwnInv'
  BY <1>3, <1>5, <1>7 DEF AddAccepted, At, heapVars, netVars, acceptVars, InHandler
<1>8. ASSUME NEW w \in Workers, OnRecived(w) PROVE OwnInv'
  BY <1>3, <1>4, <1>5, <1>8 DEF OnRecived, RequestArrived, AfterAnswer, At,
       netVars, acceptVars, InHandler, Handling
<1>9. ASSUME NEW w \in Workers, Complition(w), UNCHANGED acceptVars PROVE OwnInv'
  BY <1>3, <1>5, <1>9 DEF Complition, Count, At, netVars, acceptVars, InHandler,
       Handling
<1>10. ASSUME NEW w \in Workers, EraseTransport(w), UNCHANGED acceptVars PROVE OwnInv'
  BY <1>4, <1>10 DEF EraseTransport, Erased, Leave, heapVars, netVars, acceptVars
<1>11. ASSUME NEW w \in Workers, UseAfterFree(w) PROVE FALSE
  <2>1. /\ pc[w] \in InHandler /\ pc[w] # "erase" /\ obj[w] \in Transports
        /\ life[obj[w]] = "deleted"
    BY <1>2, <1>11 DEF UseAfterFree, StackInv, InHandler, Handling
  <2>2. w \in HoldersOf(obj[w])
    BY DEF HoldersOf
  <2> QED
    BY <1>2, <2>1, <2>2 DEF LifeInv
<1>12. ASSUME TimerStep PROVE OwnInv'
  BY <1>12, Still DEF TimerStep, CopyTransports, PrintTransport, heapVars,
       netVars, acceptVars
<1>13. ASSUME NEW t \in Transports, KernelAccept(t) PROVE OwnInv'
  <2>1. PICK p \in Packet : p.io = t /\ port' = Append(port, p)
    BY <1>13, KernelAcceptPosts, CompletionPacket
  <2> QED
    BY <1>1, <1>13, <2>1, OwnPost DEF KernelAccept, heapVars
<1>14. ASSUME NEW t \in Transports, KernelRecv(t), UNCHANGED <<acceptVars, requested, cut, overrun>>
       PROVE  OwnInv'
  <2>1. PICK p \in Packet : p.io = t /\ port' = Append(port, p)
    BY <1>14, KernelRecvPosts, CompletionPacket
  <2> QED
    BY <1>1, <1>14, <2>1, OwnPost DEF KernelRecv, heapVars, acceptVars
<1>15. ASSUME NEW t \in Transports, UNCHANGED <<acceptVars, overrun>>,
              PeerClose(t) \/ PeerReset(t) \/ ClientRequest(t)
       PROVE  OwnInv'
  BY <1>15, Still DEF PeerClose, PeerReset, ClientRequest, heapVars, acceptVars
<1> QED
  BY <1>1, <1>6, <1>7, <1>8, <1>9, <1>10, <1>11, <1>12, <1>13, <1>14, <1>15,
     OwnRecv, OwnAcceptBegin, OwnAcceptNext, OwnStartReceiving, OwnRemove
     DEF Next, WorkerStep, MainStep, NetworkStep, ClientRequest

(* Nothing has a holder initially.                                         *)
LEMMA InitOwned ==
  ASSUME Init PROVE OwnInv
<1>1. \A t \in Transports : Unheld(t) /\ HoldersOf(t) = {} /\ life[t] = "unallocated"
  BY ConstantsAssumption DEF Init, Unheld, PacketsOf, HoldersOf
<1>2. StackInv
  BY ConstantsAssumption DEF Init, StackInv, InHandler, Handling
<1> QED
  BY <1>1, <1>2 DEF OwnInv, LifeInv, HandledByOne, AtMostOne, Unheld

(* In every run without an overrun, every transport is handled by one      *)
(* worker at a time and never after it was deleted.                        *)
THEOREM OwnershipInvariant == Spec => []OwnInv
<1>1. OwnInv /\ UNCHANGED vars => OwnInv'
  BY Still DEF vars, baseVars, heapVars, netVars, acceptVars
<1>2. TypeOK /\ OwnInv /\ [Next]_vars => OwnInv'
  BY <1>1, OwnStep
<1> QED
  BY <1>2, InitOwned, TypeCorrect, PTL DEF Spec

(* TCPTransport::Complition needs no lock.                                 *)
THEOREM ExclusiveHandlers == Spec => []Exclusive
<1>1. OwnInv => Exclusive
  BY DEF OwnInv, Exclusive
<1> QED
  BY <1>1, OwnershipInvariant, PTL

(* RemoveTransport never deletes a transport another worker still uses.    *)
THEOREM NeverUsedAfterFree == Spec => []NoUseAfterFree
<1>1. OwnInv => NoUseAfterFree
  BY DEF OwnInv, StackInv, NoUseAfterFree
<1> QED
  BY <1>1, OwnershipInvariant, PTL

-----------------------------------------------------------------------------
(***************************************************************************)
(* The service a connection gets: m_Socket2Transports is sound and holds   *)
(* every connection that receives, no connection is forgotten, and no byte *)
(* of a request is lost or counted twice.                                  *)
(*                                                                         *)
(* The map is sound whatever the accept slot does: TableInv says what the  *)
(* one owner of the critical section is doing meanwhile.  The rest rests   *)
(* on the exclusion of handlers proved above: a step changes what is known *)
(* of the transports of its own handler and, by Elsewhere, nothing about   *)
(* any other.                                                              *)
(***************************************************************************)

(* What a worker's label says about its stack, whether or not an accept    *)
(* slot was read too early.                                                *)
StackWhole ==
  \A w \in Workers :
    /\ pc[w] \in InHandler \cup {"erase"} => obj[w] \in Transports
    /\ pc[w] = "wait" => obj[w] = None
    /\ pc[w] = "erase" => lock = w /\ life[obj[w]] = "deleted"

(* An entry of the map is good, or the owner of the critical section is    *)
(* about to erase it.                                                      *)
EntryOK(s) ==
  table[s] # None =>
    /\ sock[table[s]] = s
    /\ \/ life[table[s]] = "live"
       \/ life[table[s]] = "deleted" /\ lock # None /\ obj[lock] = table[s]

TableInv ==
  /\ StackWhole
  /\ lock # None => lock \in Workers /\ pc[lock] = "erase"
  /\ \A s \in Sockets : EntryOK(s)

(* Live transports have sockets of their own: WSASocket hands out no       *)
(* handle that is open.                                                    *)
SocketsApart ==
  \A t, u \in Transports :
    life[t] = "live" /\ life[u] = "live" /\ sock[t] = sock[u] => t = u

-----------------------------------------------------------------------------
(* A step of one thread that stays clear of the critical section, moves to *)
(* a label whose transport it knows and leaves the transports of the map   *)
(* as they are keeps the map sound.                                        *)
LEMMA TableAside ==
  ASSUME TypeOK, TableInv,
         NEW w \in Threads, NEW l \in Labels \ {"erase"}, NEW o \in Transports \cup {None},
         pc' = [pc EXCEPT ![w] = l], obj' = [obj EXCEPT ![w] = o],
         w \in Workers => pc[w] # "erase",
         l \in InHandler => o \in Transports \/ w = Main,
         l = "wait" => o = None,
         UNCHANGED <<table, lock>>,
         \A t \in Transports :
           life[t] # "unallocated" => life'[t] = life[t] /\ sock'[t] = sock[t]
  PROVE  TableInv'
<1>0. ThreadsOK /\ MapOK
  BY DEF TypeOK
<1>1. ASSUME NEW v \in Workers, v # w PROVE pc'[v] = pc[v] /\ obj'[v] = obj[v]
  BY <1>0, <1>1 DEF ThreadsOK
<1>2. pc'[w] = l /\ obj'[w] = o
  BY <1>0 DEF ThreadsOK
<1>3. StackWhole'
  <2> SUFFICES ASSUME NEW v \in Workers
               PROVE  /\ pc'[v] \in InHandler \cup {"erase"} => obj'[v] \in Transports
                      /\ pc'[v] = "wait" => obj'[v] = None
                      /\ pc'[v] = "erase" => lock' = v /\ life'[obj'[v]] = "deleted"
    BY DEF StackWhole, InHandler, Handling
  <2>1. CASE v = w
    BY <1>2, <2>1
  <2>2. CASE v # w
    BY <1>1, <2>2 DEF TableInv, StackWhole
  <2> QED
    BY <2>1, <2>2
<1>4. lock' # None => lock' \in Workers /\ pc'[lock'] = "erase" /\ obj'[lock'] = obj[lock]
  BY <1>1 DEF TableInv
<1>5. ASSUME NEW s \in Sockets PROVE EntryOK(s)'
  <2>1. EntryOK(s) /\ table[s] \in Transports \cup {None}
    BY <1>0 DEF TableInv, MapOK
  <2> QED
    BY <1>4, <2>1 DEF EntryOK
<1> QED
  BY <1>3, <1>4, <1>5 DEF TableInv

(* Steps of the timer and of the network leave map and threads alone.      *)
LEMMA TableStill ==
  ASSUME TableInv, UNCHANGED <<threadVars, heapVars, mapVars>>
  PROVE  TableInv'
BY DEF TableInv, StackWhole, EntryOK, threadVars, heapVars, mapVars

(* AddTransport enters a live transport under its own handle.              *)
LEMMA TableAdd ==
  ASSUME TypeOK, TableInv, NEW w \in Workers, AddAccepted(w)
  PROVE  TableInv'
<1>0. ThreadsOK /\ MapOK /\ HeapOK
  BY DEF TypeOK
<1>1. PICK t \in Transports : t = obj[w] /\ life[t] = "live"
  BY DEF AddAccepted, At, TableInv, StackWhole, InHandler
<1>2. /\ lock = None /\ lock' = None /\ UNCHANGED <<obj, life, sock>>
      /\ \E l \in {"complete", "rearm"} : pc' = [pc EXCEPT ![w] = l]
      /\ table' = IF table[sock[t]] = None THEN [table EXCEPT ![sock[t]] = t] ELSE table
  BY <1>1 DEF AddAccepted, AddTransport, Goto, heapVars
<1>3. StackWhole'
  <2> SUFFICES ASSUME NEW v \in Workers
               PROVE  /\ pc'[v] \in InHandler \cup {"erase"} => obj'[v] \in Transports
                      /\ pc'[v] = "wait" => obj'[v] = None
                      /\ pc'[v] = "erase" => lock' = v /\ life'[obj'[v]] = "deleted"
    BY DEF StackWhole, InHandler, Handling
  <2>1. CASE v = w
    BY <1>0, <1>1, <1>2, <2>1 DEF ThreadsOK
  <2>2. CASE v # w
    <3>1. pc'[v] = pc[v]
      BY <1>0, <1>2, <2>2 DEF ThreadsOK
    <3> QED
      BY <1>2, <3>1 DEF TableInv, StackWhole
  <2> QED
    BY <2>1, <2>2
<1>4. ASSUME NEW s \in Sockets PROVE EntryOK(s)'
  <2>1. EntryOK(s) /\ sock[t] \in Sockets
    BY <1>0 DEF TableInv, HeapOK
  <2>2. table'[s] = table[s] \/ (s = sock[t] /\ table'[s] = t)
    BY <1>0, <1>2, <2>1 DEF MapOK
  <2> QED
    BY <1>1, <1>2, <2>1, <2>2 DEF EntryOK
<1> QED
  BY <1>2, <1>3, <1>4 DEF TableInv

(* RemoveTransport deletes a transport of the map in its own critical      *)
(* section, or finds nothing and returns.                                  *)
LEMMA TableRemove ==
  ASSUME TypeOK, TableInv, NEW w \in Workers, RemoveTransport(w)
  PROVE  TableInv'
<1>0. ThreadsOK /\ MapOK /\ HeapOK
  BY DEF TypeOK
<1>1. PICK t \in Transports : t = obj[w] /\ life[t] = "live"
  BY DEF RemoveTransport, Hold, At, TableInv, StackWhole, InHandler, Handling
<1>2. CASE Return(w) /\ UNCHANGED <<lock, life>>
  <2>1. /\ UNCHANGED <<table, lock, life, sock>> /\ pc[w] = "remove"
        /\ pc' = [pc EXCEPT ![w] = "wait"] /\ obj' = [obj EXCEPT ![w] = None]
    BY <1>2 DEF RemoveTransport, Hold, At, Return
  <2> QED
    BY <2>1, TableAside DEF Labels, InHandler, Handling
<1>3. CASE ~(Return(w) /\ UNCHANGED <<lock, life>>)
  <2>1. /\ lock = None /\ lock' = w /\ life' = [life EXCEPT ![t] = "deleted"]
        /\ pc' = [pc EXCEPT ![w] = "erase"]
        /\ UNCHANGED <<obj, sock, table>>
    BY <1>1, <1>3 DEF RemoveTransport, Hold, Goto
  <2>2. StackWhole'
    <3> SUFFICES ASSUME NEW v \in Workers
                 PROVE  /\ pc'[v] \in InHandler \cup {"erase"} => obj'[v] \in Transports
                        /\ pc'[v] = "wait" => obj'[v] = None
                        /\ pc'[v] = "erase" => lock' = v /\ life'[obj'[v]] = "deleted"
      BY DEF StackWhole, InHandler, Handling
    <3>1. CASE v = w
      BY <1>0, <1>1, <2>1, <3>1 DEF ThreadsOK, HeapOK
    <3>2. CASE v # w
      <4>1. pc'[v] = pc[v] /\ pc[v] # "erase"
        BY <1>0, <2>1, <3>2 DEF ThreadsOK, TableInv, StackWhole
      <4> QED
        BY <2>1, <4>1 DEF TableInv, StackWhole
    <3> QED
      BY <3>1, <3>2
  <2>3. ASSUME NEW s \in Sockets PROVE EntryOK(s)'
    <3>1. EntryOK(s) /\ table[s] \in Transports \cup {None}
      BY <1>0 DEF TableInv, MapOK
    <3>2. life'[t] = "deleted" /\ \A u \in Transports : u # t => life'[u] = life[u]
      BY <1>0, <2>1 DEF HeapOK
    <3> QED
      BY <1>1, <2>1, <3>1, <3>2 DEF EntryOK
  <2>4. pc'[w] = "erase"
    BY <1>0, <2>1 DEF ThreadsOK
  <2> QED
    BY <2>1, <2>2, <2>3, <2>4 DEF TableInv
<1> QED
  BY <1>2, <1>3

(* The owner of the critical section erases the one bad entry.             *)
LEMMA TableErase ==
  ASSUME TypeOK, TableInv, NEW w \in Workers, EraseTransport(w)
  PROVE  TableInv'
<1>0. ThreadsOK /\ MapOK /\ HeapOK
  BY DEF TypeOK
<1>1. /\ pc[w] = "erase" /\ lock = w /\ lock' = None /\ UNCHANGED <<life, sock>>
      /\ pc' = [pc EXCEPT ![w] = "wait"] /\ obj' = [obj EXCEPT ![w] = None]
  BY DEF EraseTransport, Leave, Return, TableInv, StackWhole, heapVars
<1>2. StackWhole'
  <2> SUFFICES ASSUME NEW v \in Workers
               PROVE  /\ pc'[v] \in InHandler \cup {"erase"} => obj'[v] \in Transports
                      /\ pc'[v] = "wait" => obj'[v] = None
                      /\ pc'[v] = "erase" => lock' = v /\ life'[obj'[v]] = "deleted"
    BY DEF StackWhole, InHandler, Handling
  <2>1. CASE v = w
    BY <1>0, <1>1, <2>1 DEF ThreadsOK, InHandler, Handling
  <2>2. CASE v # w
    <3>1. pc'[v] = pc[v] /\ obj'[v] = obj[v] /\ pc[v] # "erase"
      BY <1>0, <1>1, <2>2 DEF ThreadsOK, TableInv, StackWhole
    <3> QED
      BY <3>1 DEF TableInv, StackWhole
  <2> QED
    BY <2>1, <2>2
<1>3. ASSUME NEW s \in Sockets PROVE EntryOK(s)'
  <2>1. EntryOK(s)
    BY DEF TableInv
  <2>2. table'[s] # None => table'[s] = table[s] /\ table[s] # obj[w]
    BY DEF EraseTransport, Erased
  <2> QED
    BY <1>1, <2>1, <2>2 DEF EntryOK
<1> QED
  BY <1>1, <1>2, <1>3 DEF TableInv

(* Every step keeps the map sound.                                         *)
LEMMA TableStep ==
  ASSUME TypeOK, TableInv, Next PROVE TableInv'
<1>0. ThreadsOK /\ MapOK /\ HeapOK /\ AcceptOK
  BY DEF TypeOK
<1>1. ASSUME NEW w \in Workers,
             NEW l \in {"add", "complete", "callback", "rearm", "remove", "store"},
             Goto(w, l), pc[w] \in InHandler, UNCHANGED <<table, lock, life, sock>>
      PROVE  TableInv'
  <2>1. PICK o \in Transports : o = obj[w] /\ obj' = [obj EXCEPT ![w] = o]
    BY <1>0, <1>1 DEF Goto, TableInv, StackWhole, ThreadsOK
  <2> QED
    BY <1>1, <2>1, TableAside DEF Goto, Labels, InHandler, Handling
<1>2. ASSUME NEW w \in Threads, Return(w) \/ Die(w) \/ GoWild(w),
             w \in Workers => pc[w] # "erase", UNCHANGED <<table, lock>>,
             \A t \in Transports :
               life[t] # "unallocated" => life'[t] = life[t] /\ sock'[t] = sock[t]
      PROVE  TableInv'
  BY <1>2, TableAside DEF Return, Die, GoWild, Labels, InHandler, Handling
<1>3. ASSUME NEW w \in Workers, RecvPacket(w) PROVE TableInv'
  <2>1. UNCHANGED <<table, lock, life, sock>> /\ pc[w] = "wait"
    BY <1>3 DEF RecvPacket, Recv, heapVars, mapVars
  <2>2. PICK o \in Transports : o = Head(port).io
    BY <1>3, PortHead DEF RecvPacket, Recv, TypeOK
  <2>3. CASE UNCHANGED threadVars
    BY <2>1, <2>3, TableStill, <1>3 DEF heapVars, mapVars, RecvPacket, Recv
  <2>4. CASE ~ UNCHANGED threadVars
    <3>1. PICK l \in {"accept", "complete"} : pc' = [pc EXCEPT ![w] = l]
      BY <1>3, <2>4 DEF RecvPacket, Recv
    <3>2. obj' = [obj EXCEPT ![w] = o]
      BY <1>3, <2>2, <2>4 DEF RecvPacket, Recv
    <3> QED
      BY <2>1, <3>1, <3>2, TableAside DEF Labels
  <2> QED
    BY <2>3, <2>4
<1>4. ASSUME NEW w \in Workers, AcceptBegin(w) PROVE TableInv'
  <2>1. UNCHANGED <<table, lock, life, sock>> /\ pc[w] = "accept"
    BY <1>4 DEF AcceptBegin, heapVars, mapVars
  <2>2. CASE GoWild(w)
    BY <1>2, <2>1, <2>2
  <2>3. CASE ~GoWild(w)
    <3>1. /\ accepted \in Transports
          /\ pc' = [pc EXCEPT ![w] = "next"] /\ obj' = [obj EXCEPT ![w] = accepted]
      BY <1>0, <1>4, <2>3 DEF AcceptBegin, AfterContext, AcceptOK
    <3> QED
      BY <2>1, <3>1, TableAside DEF Labels
  <2> QED
    BY <2>2, <2>3
<1>5. ASSUME NEW w \in Threads, AcceptNext(w) PROVE TableInv'
  <2>1. /\ UNCHANGED <<table, lock>> /\ pc[w] = "next"
        /\ \A t \in Transports :
             life[t] # "unallocated" => life'[t] = life[t] /\ sock'[t] = sock[t]
    BY <1>0, <1>5 DEF AcceptNext, mapVars, HeapOK
  <2>2. CASE Die(w)
    BY <1>2, <2>1, <2>2
  <2>3. CASE Goto(w, "store")
    <3>1. PICK o \in Transports \cup {None} :
            /\ o = obj[w] /\ obj' = [obj EXCEPT ![w] = o]
            /\ w \in Workers => o \in Transports
      BY <1>0, <2>1, <2>3 DEF Goto, TableInv, StackWhole, ThreadsOK, InHandler
    <3> QED
      BY <2>1, <2>3, <3>1, TableAside DEF Goto, Labels
  <2> QED
    BY <1>5, <2>2, <2>3 DEF AcceptNext
<1>6. ASSUME NEW w \in Workers, StoreAccepted(w) PROVE TableInv'
  BY <1>1, <1>6 DEF StoreAccepted, AfterStore, heapVars, mapVars,
     InHandler
<1>7. ASSUME StoreAccepted(Main) PROVE TableInv'
  <2>1. PICK o \in Transports \cup {None} : o = obj[Main] /\ obj' = [obj EXCEPT ![Main] = o]
    BY <1>0, <1>7 DEF StoreAccepted, Goto, ThreadsOK
  <2> QED
    BY <1>7, <2>1, TableAside DEF StoreAccepted, AfterStore, Goto, Labels, heapVars,
       mapVars, InHandler, Handling
<1>8. ASSUME NEW w \in Workers, OnRecived(w) PROVE TableInv'
  <2>1. UNCHANGED <<table, lock, life, sock>> /\ pc[w] = "callback"
    BY <1>8 DEF OnRecived, RequestArrived, AfterAnswer, At, mapVars
  <2>2. Goto(w, "rearm") \/ Die(w)
    BY <1>8 DEF OnRecived, RequestArrived, AfterAnswer
  <2> QED
    BY <1>1, <1>2, <2>1, <2>2 DEF InHandler, Handling
<1>9. ASSUME NEW w \in Workers, Complition(w) PROVE TableInv'
  BY <1>1, <1>9 DEF Complition, Count, At, mapVars, InHandler, Handling
<1>10. ASSUME NEW w \in Workers, StartReceiving(w) \/ UseAfterFree(w) PROVE TableInv'
  BY <1>2, <1>10 DEF StartReceiving, UseAfterFree, At, heapVars, mapVars, Handling
<1>11. CASE TimerStep \/ NetworkStep
  BY <1>11, TableStill DEF TimerStep, NetworkStep, CopyTransports, PrintTransport,
     KernelAccept, ClientRequest, KernelRecv, PeerClose, PeerReset
<1> QED
  BY <1>3, <1>4, <1>5, <1>6, <1>7, <1>8, <1>9, <1>10, <1>11, TableAdd, TableRemove,
     TableErase DEF Next, WorkerStep, MainStep

-----------------------------------------------------------------------------
(* What a step leaves alone of a transport: its own state...               *)
Quiet(t) ==
  /\ recvs'[t] = recvs[t] /\ inbound'[t] = inbound[t] /\ curr'[t] = curr[t]
  /\ peer'[t] = peer[t] /\ requested'[t] = requested[t] /\ life'[t] = life[t]
  /\ t \in accepting' <=> t \in accepting

(* ...and its packets and handlers, though the packets may move up.        *)
Same(t) ==
  /\ Quiet(t)
  /\ PacketsOf(t)' = {} <=> PacketsOf(t) = {}
  /\ \A i \in PacketsOf(t)' : \E j \in PacketsOf(t) : port'[i] = port[j]
  /\ HoldersOf(t)' = HoldersOf(t)
  /\ \A w \in HoldersOf(t) : pc'[w] = pc[w] /\ nbytes'[w] = nbytes[w]

(* A thread that does not handle the transport leaves it alone...          *)
LEMMA ThreadElsewhere ==
  ASSUME NEW t \in Transports, NEW w \in Threads, Quiet(t), port' = port,
         \A v \in Workers \ {w} :
           pc'[v] = pc[v] /\ obj'[v] = obj[v] /\ nbytes'[v] = nbytes[v],
         w \in Workers => obj[w] # t /\ obj'[w] # t
  PROVE  Same(t)
<1>1. PacketsOf(t)' = PacketsOf(t)
  BY DEF PacketsOf
<1>2. HoldersOf(t)' = HoldersOf(t)
  BY DEF HoldersOf
<1> QED
  BY <1>1, <1>2 DEF Same, PacketsOf, HoldersOf

(* ...so does the kernel that posts a packet of another one...             *)
LEMMA PostElsewhere ==
  ASSUME TypeOK, NEW t \in Transports, Quiet(t), UNCHANGED threadVars,
         NEW p \in Packet, p.io # t, port' = Append(port, p)
  PROVE  Same(t)
<1>1. NetOK
  BY DEF TypeOK
<1>2. PacketsOf(t)' \subseteq PacketsOf(t) /\ \A i \in PacketsOf(t)' : port'[i] = port[i]
  BY <1>1, AfterPost DEF PacketsOf
<1>3. PacketsOf(t) \subseteq PacketsOf(t)'
  <2>1. \A i \in DOMAIN port : i \in DOMAIN port' /\ port'[i] = port[i]
    BY <1>1, PortPosted DEF NetOK
  <2> QED
    BY <2>1 DEF PacketsOf
<1>4. HoldersOf(t)' = HoldersOf(t)
  BY DEF HoldersOf, threadVars
<1> QED
  BY <1>2, <1>3, <1>4 DEF Same, threadVars

(* ...and a worker that takes one.                                         *)
LEMMA TakeElsewhere ==
  ASSUME TypeOK, StackWhole, NEW t \in Transports, NEW w \in Workers, RecvPacket(w),
         Head(port).io # t
  PROVE  Same(t)
<1>0. NetOK /\ ThreadsOK
  BY DEF TypeOK
<1>1. port # <<>> /\ port' = Tail(port) /\ pc[w] = "wait" /\ Quiet(t)
  BY DEF RecvPacket, Recv, Quiet, heapVars, netVars
<1>2. /\ 1 \in DOMAIN port /\ port[1] = Head(port)
      /\ \A i \in DOMAIN port' :
            i \in Nat /\ i + 1 \in DOMAIN port /\ i + 1 # 1 /\ port'[i] = port[i + 1]
  BY <1>0, <1>1, AfterTake
<1>3. \A i \in PacketsOf(t)' : i + 1 \in PacketsOf(t) /\ port'[i] = port[i + 1]
  BY <1>2 DEF PacketsOf
<1>4. ASSUME NEW j \in PacketsOf(t) PROVE j - 1 \in PacketsOf(t)'
  <2>1. port \in Seq(Packet) /\ j \in DOMAIN port /\ port[j].io = t /\ j # 1
    BY <1>0, <1>2, <1>4 DEF PacketsOf, NetOK
  <2>2. j - 1 \in DOMAIN port' /\ port'[j - 1] = port[j]
    BY <1>1, <2>1, PortTaken
  <2> QED
    BY <2>1, <2>2 DEF PacketsOf
<1>5. obj[w] = None /\ obj'[w] # t
  BY <1>0, <1>1 DEF StackWhole, RecvPacket, Recv, threadVars, ThreadsOK
<1>6. \A v \in Workers \ {w} :
        pc'[v] = pc[v] /\ obj'[v] = obj[v] /\ nbytes'[v] = nbytes[v]
  BY <1>0 DEF RecvPacket, Recv, threadVars, ThreadsOK
<1>7. HoldersOf(t)' = HoldersOf(t) /\ w \notin HoldersOf(t)
  BY <1>5, <1>6 DEF HoldersOf
<1> QED
  BY <1>1, <1>3, <1>4, <1>6, <1>7 DEF Same, HoldersOf

(* The steps that may change what is known of a transport: the kernel's    *)
(* and the client's on its connection, those of its handler, the one that  *)
(* takes its packet and the one that creates it.                           *)
OfNetwork(t) ==
  \/ KernelAccept(t) \/ ClientRequest(t)
  \/ /\ KernelRecv(t) \/ PeerClose(t) \/ PeerReset(t)
     /\ UNCHANGED <<acceptVars, requested, cut, overrun>>

OfHandler(w) ==
  \/ AcceptBegin(w) \/ AcceptNext(w) \/ StoreAccepted(w) \/ AddAccepted(w)
  \/ OnRecived(w)
  \/ /\ \/ Complition(w) \/ StartReceiving(w) \/ RemoveTransport(w)
        \/ EraseTransport(w)
     /\ UNCHANGED <<acceptVars, requested, cut, overrun>>

Creates(t) == life[t] = "unallocated" /\ \E w \in Threads : AcceptNext(w)

(* Every other step leaves it alone.                                       *)
LEMMA Elsewhere ==
  ASSUME TypeOK, TableInv, OwnInv, ~overrun, ~overrun', Next, NEW t \in Transports
  PROVE  \/ Same(t)
         \/ OfNetwork(t)
         \/ \E w \in Workers : RecvPacket(w) /\ Head(port).io = t
         \/ \E w \in Workers : obj[w] = t /\ OfHandler(w)
         \/ Creates(t)
<1>0. ThreadsOK /\ HeapOK /\ NetOK /\ AcceptOK
  BY DEF TypeOK
<1>1. StackWhole /\ LifeInv /\ StackInv
  BY DEF TableInv, OwnInv
<1>2. ASSUME NEW w \in Threads, Quiet(t), port' = port, w \in Workers => obj[w] # t,
             \/ \E l \in Labels : Goto(w, l)
             \/ Return(w) \/ Die(w)
      PROVE  Same(t)
  <2>1. \A v \in Workers \ {w} :
          pc'[v] = pc[v] /\ obj'[v] = obj[v] /\ nbytes'[v] = nbytes[v]
    BY <1>0, <1>2 DEF Goto, Return, Die, ThreadsOK
  <2>2. w \in Workers => obj'[w] # t
    BY <1>0, <1>2 DEF Goto, Return, Die, ThreadsOK
  <2> QED
    BY <1>2, <2>1, <2>2, ThreadElsewhere
<1>3. {"store", "add", "done", "complete", "callback", "rearm", "remove", "erase"}
         \subseteq Labels
  BY DEF Labels
<1>4. ASSUME NEW w \in Workers, RecvPacket(w) PROVE Same(t) \/ Head(port).io = t
  BY <1>1, <1>4, TakeElsewhere
<1>5. ASSUME NEW w \in Workers, AcceptBegin(w), obj[w] # t PROVE Same(t)
  <2>1. accepted = obj[w] /\ accepted \in Transports /\ life[accepted] = "live"
    <3>1. accepted = obj[w] /\ accepted \in Transports
      BY <1>1, <1>5 DEF AcceptBegin, StackInv, InHandler
    <3>2. w \in HoldersOf(accepted) /\ pc[w] = "accept"
      BY <1>5, <3>1 DEF HoldersOf, AcceptBegin
    <3> QED
      BY <1>0, <1>1, <3>1, <3>2 DEF LifeInv, HeapOK
  <2>2. \A v \in Workers \ {w} :
          pc'[v] = pc[v] /\ obj'[v] = obj[v] /\ nbytes'[v] = nbytes[v]
    BY <1>0, <1>5, <2>1 DEF AcceptBegin, ThreadsOK
  <2>3. obj'[w] # t
    BY <1>0, <1>5, <2>1 DEF AcceptBegin, ThreadsOK
  <2>4. Quiet(t) /\ port' = port
    BY <1>5 DEF AcceptBegin, Quiet, heapVars, netVars
  <2> QED
    BY <1>5, <2>2, <2>3, <2>4, ThreadElsewhere
<1>6. ASSUME NEW w \in Threads, AcceptNext(w), w \in Workers => obj[w] # t
      PROVE  Same(t) \/ Creates(t)
  <2>1. CASE life[t] = "unallocated"
    BY <1>6, <2>1 DEF Creates
  <2>2. CASE life[t] # "unallocated"
    <3>1. Quiet(t) /\ port' = port
      BY <1>0, <1>6, <2>2 DEF AcceptNext, Quiet, netVars, HeapOK
    <3> QED
      BY <1>2, <1>3, <1>6, <3>1 DEF AcceptNext
  <2> QED
    BY <2>1, <2>2
<1>7. ASSUME NEW w \in Threads, StoreAccepted(w), w \in Workers => obj[w] # t PROVE Same(t)
  <2>1. Quiet(t) /\ port' = port
    BY <1>7 DEF StoreAccepted, Quiet, netVars, heapVars
  <2> QED
    BY <1>2, <1>3, <1>7, <2>1 DEF StoreAccepted, AfterStore
<1>8. ASSUME NEW w \in Workers, AddAccepted(w), obj[w] # t PROVE Same(t)
  <2>1. Quiet(t) /\ port' = port
    BY <1>8 DEF AddAccepted, Quiet, netVars, heapVars, acceptVars
  <2> QED
    BY <1>2, <1>3, <1>8, <2>1 DEF AddAccepted
<1>9. ASSUME NEW w \in Workers, OnRecived(w), obj[w] # t PROVE Same(t)
  <2>1. Quiet(t) /\ port' = port
    BY <1>0, <1>9 DEF OnRecived, RequestArrived, Quiet, netVars, acceptVars, HeapOK,
       AcceptOK
  <2> QED
    BY <1>2, <1>3, <1>9, <2>1 DEF OnRecived, RequestArrived, AfterAnswer
<1>10. ASSUME NEW w \in Workers, Complition(w), obj[w] # t,
              UNCHANGED <<acceptVars, requested, cut, overrun>>
       PROVE  Same(t)
  <2>1. Quiet(t) /\ port' = port
    BY <1>0, <1>10 DEF Complition, Count, Quiet, acceptVars, HeapOK
  <2> QED
    BY <1>2, <1>3, <1>10, <2>1 DEF Complition
<1>11. ASSUME NEW w \in Workers, StartReceiving(w), obj[w] # t,
              UNCHANGED <<acceptVars, requested, cut, overrun>>
       PROVE  Same(t)
  <2>1. Quiet(t) /\ port' = port
    BY <1>0, <1>11 DEF StartReceiving, Quiet, acceptVars, heapVars, NetOK
  <2> QED
    BY <1>2, <1>3, <1>11, <2>1 DEF StartReceiving
<1>12. ASSUME NEW w \in Workers, RemoveTransport(w) \/ EraseTransport(w), obj[w] # t,
              UNCHANGED <<acceptVars, requested, cut, overrun>>
       PROVE  Same(t)
  <2>1. Quiet(t) /\ port' = port
    BY <1>0, <1>12 DEF RemoveTransport, EraseTransport, Quiet, acceptVars, heapVars,
       netVars, HeapOK
  <2> QED
    BY <1>2, <1>3, <1>12, <2>1 DEF RemoveTransport, EraseTransport, Leave
<1>13. ASSUME NEW w \in Workers, UseAfterFree(w) PROVE FALSE
  <2>1. /\ pc[w] \in InHandler /\ pc[w] # "erase" /\ obj[w] \in Transports
        /\ life[obj[w]] = "deleted"
    BY <1>1, <1>13 DEF UseAfterFree, StackInv, InHandler, Handling
  <2>2. w \in HoldersOf(obj[w])
    BY DEF HoldersOf
  <2> QED
    BY <1>1, <2>1, <2>2 DEF LifeInv
<1>14. ASSUME TimerStep PROVE Same(t)
  BY <1>14 DEF TimerStep, CopyTransports, PrintTransport, Same, Quiet, PacketsOf,
     HoldersOf, threadVars, heapVars, netVars, acceptVars
<1>15. ASSUME NEW u \in Transports, u # t, KernelAccept(u) PROVE Same(t)
  <2>1. PICK p \in Packet : p.io = u /\ port' = Append(port, p)
    BY <1>15, KernelAcceptPosts, CompletionPacket
  <2>2. Quiet(t) /\ UNCHANGED threadVars
    BY <1>0, <1>15 DEF KernelAccept, Quiet, heapVars, NetOK, AcceptOK
  <2> QED
    BY <1>15, <2>1, <2>2, PostElsewhere
<1>16. ASSUME NEW u \in Transports, u # t, KernelRecv(u),
              UNCHANGED <<acceptVars, requested, cut, overrun>>
       PROVE  Same(t)
  <2>1. PICK p \in Packet : p.io = u /\ port' = Append(port, p)
    BY <1>16, KernelRecvPosts, CompletionPacket
  <2>2. Quiet(t) /\ UNCHANGED threadVars
    BY <1>0, <1>16 DEF KernelRecv, Quiet, heapVars, acceptVars, NetOK
  <2> QED
    BY <1>16, <2>1, <2>2, PostElsewhere
<1>17. ASSUME NEW u \in Transports, u # t,
              \/ ClientRequest(u)
              \/ /\ PeerClose(u) \/ PeerReset(u)
                 /\ UNCHANGED <<acceptVars, requested, cut, overrun>>
       PROVE  Same(t)
  BY <1>0, <1>17 DEF ClientRequest, PeerClose, PeerReset, Same, Quiet, PacketsOf,
     HoldersOf, threadVars, heapVars, acceptVars, NetOK, AcceptOK
<1>18. ASSUME NEW w \in Workers, WorkerStep(w)
       PROVE  \/ Same(t) \/ Creates(t)
              \/ RecvPacket(w) /\ Head(port).io = t
              \/ obj[w] = t /\ OfHandler(w)
  BY <1>4, <1>5, <1>6, <1>7, <1>8, <1>9, <1>10, <1>11, <1>12, <1>13, <1>18
     DEF WorkerStep, OfHandler
<1>19. CASE MainStep
  BY <1>6, <1>7, <1>19 DEF MainStep
<1>20. CASE NetworkStep
  BY <1>15, <1>16, <1>17, <1>20 DEF NetworkStep, OfNetwork
<1> QED
  BY <1>14, <1>18, <1>19, <1>20 DEF Next

-----------------------------------------------------------------------------
(* A transport without a connection has seen no traffic.                   *)
Unnoticed(t) ==
  /\ recvs[t] = 0 /\ PacketsOf(t) = {} /\ HoldersOf(t) = {}
  /\ curr[t] = 0 /\ inbound[t] = 0 /\ ~requested[t]

(* BytesAccounted without the sums, of which HandledByOne leaves one term: *)
(* what a request has brought so far is Due.                               *)
Due(t) == IF requested[t] THEN RequestSize ELSE 0

Balanced(t) ==
  /\ \A i \in PacketsOf(t) : inbound[t] + curr[t] + port[i].bytes = Due(t)
  /\ \A w \in Uncounted(t) : inbound[t] + curr[t] + nbytes[w] = Due(t)
  /\ PacketsOf(t) = {} /\ Uncounted(t) = {} => inbound[t] + curr[t] = Due(t)

Traffic(t) ==
  /\ peer[t] = "none" => Unnoticed(t)
  /\ life[t] = "unallocated" \/ t \in accepting => peer[t] = "none"
  /\ \A i \in PacketsOf(t) :
       port[i].key \in {Listener, t} /\ (~port[i].ok => peer[t] = "reset")
  /\ Owned(t) /\ peer[t] \in {"open", "closed"} => Balanced(t)

(* A transport that a step leaves alone keeps its traffic.                 *)
LEMMA SameTraffic ==
  ASSUME NEW t \in Transports, Same(t), Traffic(t) PROVE Traffic(t)'
<1>1. Uncounted(t)' = Uncounted(t) /\ \A w \in Uncounted(t) : nbytes'[w] = nbytes[w]
  BY DEF Uncounted, Same
<1>2. Due(t)' = Due(t)
  BY DEF Due, Same, Quiet
<1>3. Owned(t)' = Owned(t)
  BY DEF Owned, Same, Quiet
<1>4. Balanced(t) => Balanced(t)'
  BY <1>1, <1>2 DEF Balanced, Same, Quiet
<1> QED
  BY <1>3, <1>4 DEF Traffic, Unnoticed, Same, Quiet

(* A packet posted for a transport carries what its request still lacks.   *)
LEMMA TrafficPost ==
  ASSUME TypeOK, OwnInv', ~overrun', NEW t \in Transports,
         NEW p \in Packet, p.io = t, p.key \in {Listener, t}, port' = Append(port, p),
         PacketsOf(t) = {}, peer'[t] # "none", life'[t] # "unallocated",
         t \notin accepting',
         ~p.ok => peer'[t] = "reset",
         peer'[t] \in {"open", "closed"} => inbound'[t] + curr'[t] + p.bytes = Due(t)'
  PROVE  Traffic(t)'
<1>0. NetOK /\ HandledByOne(t)'
  BY DEF TypeOK, OwnInv
<1>1. \A i \in PacketsOf(t)' : port'[i] = p
  BY <1>0, AfterPost DEF PacketsOf
<1>2. PacketsOf(t)' # {}
  <2>1. Len(port) + 1 \in DOMAIN port' /\ port'[Len(port) + 1] = p
    BY <1>0, PortPosted DEF NetOK
  <2> QED
    BY <2>1 DEF PacketsOf
<1>3. Uncounted(t)' = {}
  BY <1>0, <1>2 DEF HandledByOne, Uncounted
<1>4. peer'[t] \in {"open", "closed"} => Balanced(t)'
  BY <1>1, <1>2, <1>3 DEF Balanced
<1> QED
  BY <1>1, <1>4 DEF Traffic

(* The accept's packet carries the first bytes of the connection...        *)
LEMMA TrafficAccept ==
  ASSUME TypeOK, OwnInv, OwnInv', ~overrun, ~overrun', NEW t \in Transports,
         Traffic(t), KernelAccept(t)
  PROVE  Traffic(t)'
<1>0. NetOK /\ AcceptOK /\ LifeInv /\ HeapOK
  BY DEF TypeOK, OwnInv
<1>1. t \in accepting /\ t \notin accepting' /\ peer[t] = "none" /\ UNCHANGED <<life, curr>>
  BY DEF KernelAccept, Traffic, heapVars
<1>2. inbound[t] = 0 /\ curr[t] = 0 /\ ~requested[t] /\ PacketsOf(t) = {}
  BY <1>1 DEF Traffic, Unnoticed
<1>3. life'[t] # "unallocated"
  BY <1>0, <1>1 DEF LifeInv, Unheld
<1>4. ASSUME NEW n \in 1 .. RequestSize, NEW ok \in BOOLEAN, ok,
             port' = Append(port, Completion(Listener, t, ok, n)),
             peer' = [peer EXCEPT ![t] = "open"],
             inbound' = [inbound EXCEPT ![t] = RequestSize - n],
             requested' = [requested EXCEPT ![t] = TRUE]
      PROVE  Traffic(t)'
  <2>1. n \in Nat /\ (RequestSize - n) + 0 + n = RequestSize
    OBVIOUS
  <2>2. PICK p \in Packet : /\ p = Completion(Listener, t, ok, n)
                            /\ p.key = Listener /\ p.io = t /\ (p.ok <=> ok) /\ p.bytes = n
    BY <2>1, CompletionFields
  <2>3. peer'[t] = "open" /\ inbound'[t] = RequestSize - n /\ Due(t)' = RequestSize
    BY <1>0, <1>4 DEF NetOK, AcceptOK, Due
  <2>4. inbound'[t] + curr'[t] + p.bytes = Due(t)'
    BY <1>1, <1>2, <2>1, <2>2, <2>3
  <2> QED
    BY <1>1, <1>2, <1>3, <1>4, <2>2, <2>3, <2>4, TrafficPost
<1>5. ASSUME NEW ok \in BOOLEAN, NEW q \in {"closed", "reset"}, ok \/ q = "reset",
             port' = Append(port, Completion(Listener, t, ok, 0)),
             peer' = [peer EXCEPT ![t] = q], UNCHANGED <<inbound, requested>>
      PROVE  Traffic(t)'
  <2>1. PICK p \in Packet : /\ p = Completion(Listener, t, ok, 0)
                            /\ p.key = Listener /\ p.io = t /\ (p.ok <=> ok) /\ p.bytes = 0
    BY CompletionFields
  <2>2. peer'[t] = q /\ inbound'[t] + curr'[t] + p.bytes = Due(t)'
    BY <1>0, <1>1, <1>2, <1>5, <2>1 DEF NetOK, Due
  <2> QED
    BY <1>1, <1>2, <1>3, <1>5, <2>1, <2>2, TrafficPost
<1> QED
  BY <1>4, <1>5 DEF KernelAccept

(* ...and a receive's packet some of those that have arrived.              *)
LEMMA TrafficReceive ==
  ASSUME TypeOK, OwnInv, OwnInv', ~overrun, ~overrun', NEW t \in Transports,
         Traffic(t), KernelRecv(t), UNCHANGED acceptVars, UNCHANGED requested
  PROVE  Traffic(t)'
<1>0. NetOK /\ LifeInv /\ HandledByOne(t) /\ HeapOK
  BY DEF TypeOK, OwnInv
<1>1. /\ recvs[t] > 0 /\ PacketsOf(t) = {} /\ Uncounted(t) = {} /\ t \notin accepting
      /\ life[t] # "unallocated" /\ life[t] # "deleted" /\ peer[t] # "none"
  BY <1>0 DEF KernelRecv, HandledByOne, Uncounted, LifeInv, Unheld, Traffic, Unnoticed
<1>2. UNCHANGED <<life, curr, peer, accepting>>
  BY DEF KernelRecv, heapVars, acceptVars
<1>3. peer[t] \in {"open", "closed"} => inbound[t] + curr[t] = Due(t)
  BY <1>1 DEF Traffic, Balanced, Owned
<1>4. ASSUME NEW n \in 1 .. inbound[t], NEW ok \in BOOLEAN, ok,
             port' = Append(port, Completion(t, t, ok, n)),
             inbound' = [inbound EXCEPT ![t] = @ - n]
      PROVE  Traffic(t)'
  <2>1. n \in Nat /\ inbound[t] \in Nat /\ curr[t] \in Nat
    BY <1>0 DEF NetOK, HeapOK
  <2>2. PICK p \in Packet : /\ p = Completion(t, t, ok, n)
                            /\ p.key = t /\ p.io = t /\ (p.ok <=> ok) /\ p.bytes = n
    BY <2>1, CompletionFields
  <2>3. inbound'[t] = inbound[t] - n /\ Due(t)' = Due(t)
    BY <1>0, <1>4 DEF NetOK, Due
  <2>4. inbound'[t] + curr'[t] + p.bytes = inbound[t] + curr[t]
    <3>1. (inbound[t] - n) + curr[t] + n = inbound[t] + curr[t]
      BY <2>1
    <3> QED
      BY <1>2, <2>2, <2>3, <3>1
  <2> QED
    BY <1>1, <1>2, <1>3, <1>4, <2>2, <2>3, <2>4, TrafficPost
<1>5. ASSUME NEW ok \in BOOLEAN, ok \/ peer[t] = "reset",
             port' = Append(port, Completion(t, t, ok, 0)), UNCHANGED inbound
      PROVE  Traffic(t)'
  <2>1. PICK p \in Packet : /\ p = Completion(t, t, ok, 0)
                            /\ p.key = t /\ p.io = t /\ (p.ok <=> ok) /\ p.bytes = 0
    BY CompletionFields
  <2>2. inbound[t] \in Nat /\ curr[t] \in Nat /\ Due(t)' = Due(t)
    BY <1>0 DEF NetOK, HeapOK, Due
  <2>3. inbound'[t] + curr'[t] + p.bytes = inbound[t] + curr[t]
    BY <1>2, <1>5, <2>1, <2>2
  <2> QED
    BY <1>1, <1>2, <1>3, <1>5, <2>1, <2>2, <2>3, TrafficPost
<1> QED
  BY <1>1, <1>4, <1>5 DEF KernelRecv

(* A client asks again only after the answer, and closes or is cut off at  *)
(* any time.                                                               *)
LEMMA TrafficClient ==
  ASSUME TypeOK, NEW t \in Transports, Traffic(t),
         \/ ClientRequest(t)
         \/ (PeerClose(t) \/ PeerReset(t)) /\ UNCHANGED <<acceptVars, requested>>
  PROVE  Traffic(t)'
<1>0. NetOK /\ AcceptOK /\ HeapOK /\ ThreadsOK
  BY DEF TypeOK
<1>1. /\ UNCHANGED <<port, pc, obj, nbytes, recvs, life, curr, accepting>>
      /\ peer[t] # "none"
  BY DEF ClientRequest, PeerClose, PeerReset, threadVars, heapVars, acceptVars
<1>2. Owned(t)' = Owned(t) /\ Uncounted(t)' = Uncounted(t) /\ PacketsOf(t)' = PacketsOf(t)
  BY <1>1 DEF Owned, Uncounted, HoldersOf, PacketsOf
<1>3. CASE ClientRequest(t)
  <2>1. /\ peer' = peer /\ peer[t] = "open"
        /\ inbound'[t] = inbound[t] + RequestSize /\ Due(t) = 0 /\ Due(t)' = RequestSize
    BY <1>0, <1>3 DEF ClientRequest, NetOK, AcceptOK, Due
  <2>2. /\ \A i \in PacketsOf(t) : port[i].bytes \in Nat
        /\ \A w \in Uncounted(t) : nbytes[w] \in Nat
        /\ inbound[t] \in Nat /\ curr[t] \in Nat
    <3>1. ASSUME NEW i \in PacketsOf(t) PROVE port[i].bytes \in Nat
      <4>1. port[i] \in Packet
        BY <1>0 DEF PacketsOf, NetOK
      <4> QED
        BY <4>1 DEF Packet
    <3> QED
      BY <1>0, <3>1 DEF Uncounted, HoldersOf, ThreadsOK, NetOK, HeapOK
  <2>3. \A n \in Nat : inbound'[t] + curr[t] + n = (inbound[t] + curr[t] + n) + RequestSize
    BY <2>1, <2>2
  <2>4. inbound'[t] + curr[t] = (inbound[t] + curr[t]) + RequestSize
    BY <2>1, <2>2
  <2>5. ASSUME Balanced(t) PROVE Balanced(t)'
    <3>1. ASSUME NEW i \in PacketsOf(t)'
          PROVE  inbound'[t] + curr'[t] + port'[i].bytes = Due(t)'
      <4>1. PICK n \in Nat : n = port[i].bytes /\ n = port'[i].bytes
        BY <1>1, <1>2, <2>2
      <4>2. inbound[t] + curr[t] + n = 0
        BY <1>2, <2>1, <2>5, <4>1 DEF Balanced
      <4> QED
        BY <1>1, <2>1, <2>3, <4>1, <4>2
    <3>2. ASSUME NEW w \in Uncounted(t)'
          PROVE  inbound'[t] + curr'[t] + nbytes'[w] = Due(t)'
      <4>1. PICK n \in Nat : n = nbytes[w] /\ n = nbytes'[w]
        BY <1>1, <1>2, <2>2
      <4>2. inbound[t] + curr[t] + n = 0
        BY <1>2, <2>1, <2>5, <4>1 DEF Balanced
      <4> QED
        BY <1>1, <2>1, <2>3, <4>1, <4>2
    <3>3. PacketsOf(t)' = {} /\ Uncounted(t)' = {} => inbound'[t] + curr'[t] = Due(t)'
      BY <1>1, <1>2, <2>1, <2>2, <2>4, <2>5 DEF Balanced
    <3> QED
      BY <3>1, <3>2, <3>3 DEF Balanced
  <2> QED
    BY <1>1, <1>2, <2>1, <2>5 DEF Traffic
<1>4. CASE PeerClose(t) /\ UNCHANGED <<acceptVars, requested>>
  <2>1. peer[t] = "open" /\ peer'[t] = "closed" /\ UNCHANGED <<inbound, requested>>
    BY <1>0, <1>4 DEF PeerClose, NetOK
  <2>2. Balanced(t) => Balanced(t)'
    BY <1>1, <1>2, <2>1 DEF Balanced, Due
  <2> QED
    BY <1>1, <1>2, <2>1, <2>2 DEF Traffic
<1>5. CASE PeerReset(t) /\ UNCHANGED <<acceptVars, requested>>
  <2>1. peer'[t] = "reset"
    BY <1>0, <1>5 DEF PeerReset, NetOK
  <2> QED
    BY <1>1, <1>2, <2>1 DEF Traffic
<1> QED
  BY <1>3, <1>4, <1>5

(* The worker that takes a packet carries on what it brought.              *)
LEMMA TrafficTake ==
  ASSUME TypeOK, OwnInv, OwnInv', ~overrun, ~overrun', NEW t \in Transports,
         Traffic(t), NEW w \in Workers, RecvPacket(w), Head(port).io = t
  PROVE  Traffic(t)'
<1>0. NetOK /\ ThreadsOK /\ LifeInv /\ HandledByOne(t) /\ HandledByOne(t)'
  BY DEF TypeOK, OwnInv
<1>1. /\ port # <<>> /\ port' = Tail(port) /\ pc[w] = "wait"
      /\ UNCHANGED <<life, curr, recvs, peer, inbound, accepting, requested>>
  BY DEF RecvPacket, Recv, heapVars, netVars
<1>2. 1 \in DOMAIN port /\ port[1] = Head(port)
  BY <1>0, <1>1, AfterTake
<1>3. 1 \in PacketsOf(t)
  BY <1>2 DEF PacketsOf
<1>4. /\ recvs[t] = 0 /\ t \notin accepting /\ HoldersOf(t) = {}
      /\ life[t] # "unallocated" /\ peer[t] # "none"
      /\ peer[t] \in {"open", "closed"} => inbound[t] + curr[t] + Head(port).bytes = Due(t)
  <2>1. recvs[t] \in Nat
    BY <1>0 DEF NetOK
  <2>2. recvs[t] = 0 /\ t \notin accepting /\ HoldersOf(t) = {}
    BY <1>0, <1>3, <2>1 DEF HandledByOne
  <2>3. life[t] # "unallocated" /\ peer[t] # "none"
    BY <1>0, <1>3 DEF LifeInv, Unheld, Traffic, Unnoticed
  <2>4. peer[t] \in {"open", "closed"} => inbound[t] + curr[t] + Head(port).bytes = Due(t)
    BY <1>2, <1>3 DEF Traffic, Owned, Balanced
  <2> QED
    BY <2>2, <2>3, <2>4
<1>5. PacketsOf(t)' = {}
  <2> SUFFICES ASSUME NEW i \in PacketsOf(t)' PROVE FALSE
    OBVIOUS
  <2>1. i \in Nat /\ i + 1 # 1 /\ i + 1 \in PacketsOf(t)
    BY <1>0, <1>1, AfterTake DEF PacketsOf
  <2>2. i + 1 = 1
    BY <1>0, <1>3, <2>1 DEF HandledByOne, AtMostOne
  <2> QED
    BY <2>1, <2>2
<1>6. Due(t)' = Due(t)
  BY <1>1 DEF Due
<1>7. CASE Head(port).ok
  <2>1. /\ obj' = [obj EXCEPT ![w] = Head(port).io]
        /\ nbytes' = [nbytes EXCEPT ![w] = Head(port).bytes]
        /\ pc' = [pc EXCEPT ![w] = "accept"] \/ pc' = [pc EXCEPT ![w] = "complete"]
    BY <1>7 DEF RecvPacket, Recv
  <2>2. obj'[w] = t /\ nbytes'[w] = Head(port).bytes /\ pc'[w] \in {"accept", "complete"}
    BY <1>0, <2>1 DEF ThreadsOK
  <2>3. w \in HoldersOf(t)' /\ w \in Uncounted(t)'
    BY <2>2 DEF HoldersOf, Uncounted
  <2>4. \A v \in Uncounted(t)' : v = w
    BY <1>0, <2>3 DEF HandledByOne, AtMostOne, Uncounted
  <2>5. peer'[t] \in {"open", "closed"} => Balanced(t)'
    BY <1>1, <1>4, <1>5, <1>6, <2>2, <2>3, <2>4 DEF Balanced
  <2> QED
    BY <1>1, <1>4, <1>5, <2>5 DEF Traffic
<1>8. CASE ~Head(port).ok
  <2>1. UNCHANGED threadVars
    BY <1>8 DEF RecvPacket, Recv
  <2>2. HoldersOf(t)' = {}
    BY <1>4, <2>1 DEF HoldersOf, threadVars
  <2>3. ~Owned(t)'
    BY <1>1, <1>4, <1>5, <2>2 DEF Owned
  <2> QED
    BY <1>1, <1>4, <1>5, <2>3 DEF Traffic
<1> QED
  BY <1>7, <1>8

(* What a worker still has to count of the transport it handles.           *)
Carried(w) ==
  IF pc[w] \in {"accept", "next", "store", "add", "complete"} THEN nbytes[w] ELSE 0

(* A handler of the transport is the only one to act on it...              *)
LEMMA HandlerAlone ==
  ASSUME TypeOK, OwnInv, ~overrun, NEW t \in Transports, Traffic(t),
         NEW w \in Workers, obj[w] = t
  PROVE  /\ recvs[t] = 0 /\ t \notin accepting /\ PacketsOf(t) = {} /\ HoldersOf(t) = {w}
         /\ life[t] # "unallocated" /\ peer[t] # "none"
         /\ peer[t] \in {"open", "closed"} => inbound[t] + curr[t] + Carried(w) = Due(t)
<1>0. NetOK /\ ThreadsOK /\ HeapOK /\ LifeInv /\ HandledByOne(t)
  BY DEF TypeOK, OwnInv
<1>1. w \in HoldersOf(t) /\ recvs[t] \in Nat /\ inbound[t] \in Nat /\ curr[t] \in Nat
  BY <1>0 DEF HoldersOf, NetOK, HeapOK
<1>2. recvs[t] = 0 /\ t \notin accepting /\ PacketsOf(t) = {} /\ HoldersOf(t) = {w}
  BY <1>0, <1>1 DEF HandledByOne, AtMostOne
<1>3. life[t] # "unallocated" /\ peer[t] # "none" /\ Owned(t)
  BY <1>0, <1>1 DEF LifeInv, Traffic, Unnoticed, Owned
<1>4. ASSUME peer[t] \in {"open", "closed"} PROVE inbound[t] + curr[t] + Carried(w) = Due(t)
  <2>1. Balanced(t)
    BY <1>3, <1>4 DEF Traffic
  <2>2. CASE w \in Uncounted(t)
    BY <2>1, <2>2 DEF Balanced, Carried, Uncounted
  <2>3. CASE w \notin Uncounted(t)
    <3>1. Uncounted(t) = {} /\ Carried(w) = 0
      BY <1>1, <1>2, <2>3 DEF Uncounted, Carried
    <3> QED
      BY <1>1, <1>2, <2>1, <3>1 DEF Balanced
  <2> QED
    BY <2>2, <2>3
<1> QED
  BY <1>2, <1>3, <1>4

(* ...and keeps its books in order until it lets go of it.                 *)
LEMMA TrafficHandled ==
  ASSUME TypeOK', OwnInv', ~overrun', NEW t \in Transports, NEW w \in Workers,
         PacketsOf(t)' = {}, peer'[t] # "none", life'[t] # "unallocated",
         t \notin accepting',
         HoldersOf(t)' = {w} \/ HoldersOf(t)' = {},
         peer'[t] \in {"open", "closed"} =>
           \/ HoldersOf(t)' = {} /\ recvs'[t] = 0
           \/ HoldersOf(t)' = {} /\ inbound'[t] + curr'[t] = Due(t)'
           \/ HoldersOf(t)' = {w} /\ inbound'[t] + curr'[t] + Carried(w)' = Due(t)'
  PROVE  Traffic(t)'
<1>0. (NetOK /\ HeapOK)'
  BY DEF TypeOK
<1>1. inbound'[t] \in Nat /\ curr'[t] \in Nat
  BY <1>0 DEF NetOK, HeapOK
<1>2. ASSUME Owned(t)', peer'[t] \in {"open", "closed"} PROVE Balanced(t)'
  <2>1. CASE HoldersOf(t)' = {}
    <3>1. Uncounted(t)' = {} /\ inbound'[t] + curr'[t] = Due(t)'
      BY <1>2, <2>1 DEF Owned, Uncounted
    <3> QED
      BY <3>1 DEF Balanced
  <2>2. CASE HoldersOf(t)' = {w}
    <3>1. inbound'[t] + curr'[t] + Carried(w)' = Due(t)'
      BY <1>2, <2>2
    <3>2. Uncounted(t)' \subseteq {w}
      BY <2>2 DEF Uncounted
    <3>3. CASE w \in Uncounted(t)'
      <4>1. Carried(w)' = nbytes'[w]
        BY <3>3 DEF Carried, Uncounted
      <4> QED
        BY <3>1, <3>2, <3>3, <4>1 DEF Balanced
    <3>4. CASE w \notin Uncounted(t)'
      <4>1. Uncounted(t)' = {} /\ Carried(w)' = 0
        BY <2>2, <3>2, <3>4 DEF Carried, Uncounted
      <4> QED
        BY <1>1, <3>1, <4>1 DEF Balanced
    <3> QED
      BY <3>3, <3>4
  <2> QED
    BY <2>1, <2>2
<1> QED
  BY <1>2 DEF Traffic

(* What the handlers' steps do to their threads: a worker goes on with its *)
(* transport, or it returns or dies and has lost it.                       *)
LEMMA HandlerHolds ==
  ASSUME TypeOK, NEW t \in Transports, NEW w \in Workers, HoldersOf(t) = {w},
         (\E l \in Labels : Goto(w, l)) \/ Return(w) \/ Die(w)
  PROVE  /\ (\E l \in Labels : Goto(w, l)) => HoldersOf(t)' = {w}
         /\ Return(w) \/ Die(w) => HoldersOf(t)' = {}
<1>0. ThreadsOK
  BY DEF TypeOK
<1>1. ASSUME NEW l \in Labels, Goto(w, l) PROVE HoldersOf(t)' = {w}
  BY <1>1 DEF Goto, HoldersOf
<1>2. ASSUME Return(w) \/ Die(w) PROVE HoldersOf(t)' = {}
  BY <1>0, <1>2 DEF Return, Die, HoldersOf, ThreadsOK
<1> QED
  BY <1>1, <1>2

(* A handler keeps the traffic of its transport.                           *)
LEMMA TrafficHandler ==
  ASSUME TypeOK, TypeOK', OwnInv, OwnInv', ~overrun, ~overrun', NEW t \in Transports,
         Traffic(t), NEW w \in Workers, obj[w] = t, OfHandler(w)
  PROVE  Traffic(t)'
<1>0. ThreadsOK /\ HeapOK /\ NetOK /\ AcceptOK
  BY DEF TypeOK
<1>1. /\ recvs[t] = 0 /\ t \notin accepting /\ PacketsOf(t) = {} /\ HoldersOf(t) = {w}
      /\ life[t] # "unallocated" /\ peer[t] # "none"
      /\ peer[t] \in {"open", "closed"} => inbound[t] + curr[t] + Carried(w) = Due(t)
  BY HandlerAlone
<1>1a. inbound[t] \in Nat /\ curr[t] \in Nat /\ nbytes[w] \in Nat
  BY <1>0 DEF NetOK, HeapOK, ThreadsOK
<1>2. {"next", "store", "add", "done", "complete", "callback", "rearm", "remove", "erase"}
         \subseteq Labels
  BY DEF Labels
<1>3. ASSUME port' = port, peer' = peer, accepting' = accepting, inbound' = inbound,
             requested' = requested, recvs' = recvs, curr' = curr,
             life'[t] # "unallocated",
             \/ \E l \in Labels : Goto(w, l) /\ (Carried(w)' = Carried(w))
             \/ Return(w) \/ Die(w)
      PROVE  Traffic(t)'
  <2>1. PacketsOf(t)' = {} /\ Due(t)' = Due(t)
    BY <1>1, <1>3 DEF PacketsOf, Due
  <2>2. HoldersOf(t)' = {w} \/ HoldersOf(t)' = {}
    BY <1>1, <1>3, HandlerHolds
  <2>3. HoldersOf(t)' = {w} => Carried(w)' = Carried(w)
    BY <1>1, <1>3, HandlerHolds
  <2> QED
    BY <1>1, <1>3, <2>1, <2>2, <2>3, TrafficHandled
<1>4. ASSUME AcceptBegin(w) PROVE Traffic(t)'
  <2>1. accepted = t /\ life[t] = "live" /\ pc[w] = "accept"
    <3>1. accepted = t /\ pc[w] = "accept"
      BY <1>4 DEF AcceptBegin, OwnInv, StackInv
    <3> QED
      BY <1>0, <1>1, <3>1 DEF OwnInv, LifeInv, HeapOK
  <2>2. obj' = obj /\ pc' = [pc EXCEPT ![w] = "next"] /\ nbytes' = nbytes
    BY <1>0, <1>4, <2>1 DEF AcceptBegin, AfterContext, ThreadsOK
  <2>3. Goto(w, "next") /\ Carried(w)' = Carried(w)
    BY <1>0, <2>1, <2>2 DEF Goto, Carried, ThreadsOK
  <2>4. /\ port' = port /\ peer' = peer /\ accepting' = accepting /\ inbound' = inbound
        /\ requested' = requested /\ recvs' = recvs /\ curr' = curr /\ life' = life
    BY <1>4 DEF AcceptBegin, netVars, heapVars
  <2> QED
    BY <1>1, <1>2, <1>3, <2>3, <2>4
<1>5. ASSUME AcceptNext(w) PROVE Traffic(t)'
  <2>1. /\ port' = port /\ peer' = peer /\ inbound' = inbound /\ requested' = requested
        /\ recvs' = recvs /\ curr' = curr /\ pc[w] = "next"
    BY <1>5 DEF AcceptNext, netVars
  <2>2. life'[t] # "unallocated" /\ t \notin accepting'
    BY <1>0, <1>1, <1>5 DEF AcceptNext, HeapOK
  <2>3. Goto(w, "store") \/ Die(w)
    BY <1>5 DEF AcceptNext
  <2>4. Goto(w, "store") => Carried(w)' = Carried(w)
    BY <1>0, <2>1 DEF Goto, Carried, ThreadsOK
  <2>5. PacketsOf(t)' = {} /\ Due(t)' = Due(t)
    BY <1>1, <2>1 DEF PacketsOf, Due
  <2>6. \/ HoldersOf(t)' = {w} /\ Carried(w)' = Carried(w)
        \/ HoldersOf(t)' = {}
    BY <1>1, <1>2, <2>3, <2>4, HandlerHolds
  <2> QED
    BY <1>1, <2>1, <2>2, <2>5, <2>6, TrafficHandled
<1>6. ASSUME StoreAccepted(w) PROVE Traffic(t)'
  <2>1. Goto(w, "add") /\ pc[w] = "store"
    BY <1>6 DEF StoreAccepted, AfterStore
  <2>2. Carried(w)' = Carried(w)
    BY <1>0, <2>1 DEF Goto, Carried, ThreadsOK
  <2>3. /\ port' = port /\ peer' = peer /\ accepting' = accepting /\ inbound' = inbound
        /\ requested' = requested /\ recvs' = recvs /\ curr' = curr /\ life' = life
    BY <1>6 DEF StoreAccepted, netVars, heapVars
  <2> QED
    BY <1>1, <1>2, <1>3, <2>1, <2>2, <2>3
<1>7. ASSUME AddAccepted(w) PROVE Traffic(t)'
  <2>1. pc[w] = "add" /\ Goto(w, IF nbytes[w] > 0 THEN "complete" ELSE "rearm")
    BY <1>7 DEF AddAccepted, At
  <2>2. Carried(w)' = Carried(w)
    BY <1>0, <1>1a, <2>1 DEF Goto, Carried, ThreadsOK
  <2>3. \E l \in Labels : Goto(w, l)
    BY <1>2, <2>1
  <2>4. /\ port' = port /\ peer' = peer /\ accepting' = accepting /\ inbound' = inbound
        /\ requested' = requested /\ recvs' = recvs /\ curr' = curr /\ life' = life
    BY <1>7 DEF AddAccepted, netVars, heapVars, acceptVars
  <2> QED
    BY <1>1, <1>3, <2>2, <2>3, <2>4
<1>8. ASSUME OnRecived(w) PROVE Traffic(t)'
  <2>1. /\ port' = port /\ peer' = peer /\ accepting' = accepting /\ inbound' = inbound
        /\ recvs' = recvs /\ life' = life /\ pc[w] = "callback" /\ Carried(w) = 0
    BY <1>8 DEF OnRecived, At, netVars, acceptVars, Carried
  <2>2. CASE UNCHANGED <<curr, requested>> /\ Goto(w, "rearm")
    <3>1. Carried(w)' = Carried(w)
      BY <1>0, <2>1, <2>2 DEF Goto, Carried, ThreadsOK
    <3> QED
      BY <1>1, <1>2, <1>3, <2>1, <2>2, <3>1
  <2>3. CASE ~(UNCHANGED <<curr, requested>> /\ Goto(w, "rearm"))
    <3>1. /\ curr[t] >= RequestSize /\ curr' = [curr EXCEPT ![t] = @ - RequestSize]
          /\ \/ requested' = [requested EXCEPT ![t] = FALSE] /\ Goto(w, "rearm")
             \/ peer[t] = "reset" /\ Die(w)
      BY <1>8, <2>3 DEF OnRecived, RequestArrived, AfterAnswer
    <3>2. PacketsOf(t)' = {}
      BY <1>1, <2>1 DEF PacketsOf
    <3>3. HoldersOf(t)' = {w} \/ HoldersOf(t)' = {}
      BY <1>1, <1>2, <3>1, HandlerHolds
    <3>4. ASSUME peer[t] \in {"open", "closed"}
          PROVE  HoldersOf(t)' = {w} /\ inbound'[t] + curr'[t] + Carried(w)' = Due(t)'
      <4>1. inbound[t] + curr[t] = Due(t)
        BY <1>1, <1>1a, <2>1, <3>4
      <4>2. Due(t) = RequestSize /\ curr[t] = RequestSize /\ inbound[t] = 0
        BY <1>1a, <3>1, <4>1 DEF Due
      <4>3. /\ requested' = [requested EXCEPT ![t] = FALSE] /\ Goto(w, "rearm")
            /\ curr'[t] = 0 /\ inbound'[t] = 0
        BY <1>0, <2>1, <3>1, <3>4, <4>2 DEF HeapOK
      <4>4. Due(t)' = 0 /\ Carried(w)' = 0
        BY <1>0, <4>3 DEF Due, Carried, Goto, ThreadsOK, AcceptOK
      <4> QED
        BY <1>1, <1>2, <4>3, <4>4, HandlerHolds
    <3> QED
      BY <1>1, <2>1, <3>2, <3>3, <3>4, TrafficHandled
  <2> QED
    BY <2>2, <2>3
<1>9. ASSUME Complition(w), UNCHANGED <<acceptVars, requested, cut, overrun>> PROVE Traffic(t)'
  <2>1. /\ port' = port /\ peer' = peer /\ accepting' = accepting /\ inbound' = inbound
        /\ requested' = requested /\ recvs' = recvs /\ life' = life /\ pc[w] = "complete"
    BY <1>9 DEF Complition, Count, At, acceptVars
  <2>2. /\ Carried(w) = nbytes[w] /\ (Goto(w, "callback") \/ Goto(w, "remove"))
        /\ curr' = [curr EXCEPT ![t] = @ + nbytes[w]] \/ (nbytes[w] = 0 /\ curr' = curr)
    BY <1>9, <2>1 DEF Complition, Count, Carried
  <2>3. Carried(w)' = 0
    BY <1>0, <2>2 DEF Carried, Goto, ThreadsOK
  <2>4. curr'[t] = curr[t] + nbytes[w]
    BY <1>0, <1>1a, <2>2 DEF HeapOK
  <2>5. inbound[t] + (curr[t] + nbytes[w]) + 0 = inbound[t] + curr[t] + nbytes[w]
    BY <1>1a
  <2>6. PacketsOf(t)' = {} /\ Due(t)' = Due(t) /\ HoldersOf(t)' = {w}
    BY <1>1, <1>2, <2>1, <2>2, HandlerHolds DEF PacketsOf, Due
  <2> QED
    BY <1>1, <2>1, <2>2, <2>3, <2>4, <2>5, <2>6, TrafficHandled
<1>10. ASSUME StartReceiving(w), UNCHANGED <<acceptVars, requested, cut, overrun>>
       PROVE  Traffic(t)'
  <2>1. /\ port' = port /\ peer' = peer /\ accepting' = accepting /\ inbound' = inbound
        /\ requested' = requested /\ curr' = curr /\ life' = life /\ Carried(w) = 0
        /\ Return(w) \/ Die(w)
    BY <1>10 DEF StartReceiving, At, heapVars, acceptVars, Carried
  <2>2. PacketsOf(t)' = {} /\ Due(t)' = Due(t) /\ HoldersOf(t)' = {}
    BY <1>1, <2>1, HandlerHolds DEF PacketsOf, Due
  <2>3. peer[t] \in {"open", "closed"} => inbound[t] + curr[t] = Due(t)
    BY <1>1, <1>1a, <2>1
  <2> QED
    BY <1>1, <2>1, <2>2, <2>3, TrafficHandled
<1>11. ASSUME RemoveTransport(w) \/ EraseTransport(w), UNCHANGED <<acceptVars, requested, cut, overrun>>
       PROVE  Traffic(t)'
  <2>1. /\ port' = port /\ peer' = peer /\ accepting' = accepting /\ inbound' = inbound
        /\ requested' = requested /\ curr' = curr /\ recvs' = recvs
        /\ life'[t] # "unallocated"
    BY <1>0, <1>1, <1>11 DEF RemoveTransport, EraseTransport, heapVars, netVars, acceptVars,
       HeapOK
  <2>2. Return(w) \/ (pc[w] = "remove" /\ Goto(w, "erase"))
    BY <1>11 DEF RemoveTransport, EraseTransport, Leave, At
  <2>3. pc[w] = "remove" /\ Goto(w, "erase") => Carried(w)' = Carried(w)
    BY <1>0 DEF Goto, Carried, ThreadsOK
  <2> QED
    BY <1>2, <1>3, <2>1, <2>2, <2>3
<1> QED
  BY <1>4, <1>5, <1>6, <1>7, <1>8, <1>9, <1>10, <1>11 DEF OfHandler

(* A new transport starts without a connection and with clean books.       *)
LEMMA TrafficCreated ==
  ASSUME TypeOK, OwnInv, OwnInv', ~overrun, ~overrun', NEW t \in Transports,
         Traffic(t), Creates(t)
  PROVE  Traffic(t)'
<1>1. PICK w \in Threads : AcceptNext(w)
  BY DEF Creates
<1>2. peer[t] = "none" /\ Unnoticed(t)
  BY DEF Creates, Traffic
<1>3. UNCHANGED <<port, recvs, curr, inbound, peer, requested>> /\ pc[w] = "next"
  BY <1>1 DEF AcceptNext, netVars
<1>4. HoldersOf(t)' = {}
  <2>1. ThreadsOK
    BY DEF TypeOK
  <2>2. obj' = obj \/ obj' = [obj EXCEPT ![w] = None]
    BY <1>1 DEF AcceptNext, Die, Goto
  <2> QED
    BY <1>2, <2>1, <2>2 DEF Unnoticed, HoldersOf, ThreadsOK
<1>5. Unnoticed(t)'
  BY <1>2, <1>3, <1>4 DEF Unnoticed, PacketsOf
<1> QED
  BY <1>2, <1>3, <1>5 DEF Traffic, Unnoticed

(* An overrun is never taken back.                                         *)
LEMMA OverrunStays ==
  ASSUME Next, ~overrun' PROVE ~overrun
BY DEF Next, WorkerStep, MainStep, TimerStep, NetworkStep, RecvPacket, AcceptBegin,
       AfterContext, AcceptNext, StoreAccepted, AfterStore, AddAccepted, OnRecived,
       RequestArrived, AfterAnswer, KernelAccept, ClientRequest

TrafficInv == ~overrun => \A t \in Transports : Traffic(t)

(* Every step keeps the traffic of every transport.                        *)
LEMMA TrafficStep ==
  ASSUME TypeOK, TypeOK', TableInv, OwnInv, OwnInv', TrafficInv, Next
  PROVE  TrafficInv'
<1> SUFFICES ASSUME ~overrun', NEW t \in Transports PROVE Traffic(t)'
  BY DEF TrafficInv
<1>1. ~overrun /\ Traffic(t)
  BY OverrunStays DEF TrafficInv
<1>2. CASE Same(t)
  BY <1>1, <1>2, SameTraffic
<1>3. CASE OfNetwork(t)
  BY <1>1, <1>3, TrafficAccept, TrafficReceive, TrafficClient DEF OfNetwork
<1>4. ASSUME NEW w \in Workers, RecvPacket(w), Head(port).io = t PROVE Traffic(t)'
  BY <1>1, <1>4, TrafficTake
<1>5. ASSUME NEW w \in Workers, obj[w] = t, OfHandler(w) PROVE Traffic(t)'
  BY <1>1, <1>5, TrafficHandler
<1>6. CASE Creates(t)
  BY <1>1, <1>6, TrafficCreated
<1> QED
  BY <1>1, <1>2, <1>3, <1>4, <1>5, <1>6, Elsewhere

(* Of a transport's packets and handlers there is at most one, so a sum    *)
(* over them has at most one term.                                         *)
LEMMA BalancedBytes ==
  ASSUME TypeOK, NEW t \in Transports, HandledByOne(t), Balanced(t)
  PROVE  BytesOf(t) = Due(t)
<1>0. NetOK /\ HeapOK /\ ThreadsOK
  BY DEF TypeOK
<1>1. inbound[t] \in Nat /\ curr[t] \in Nat
  BY <1>0 DEF NetOK, HeapOK
<1>2. CASE PacketsOf(t) # {}
  <2>1. PICK i \in PacketsOf(t) : PacketsOf(t) = {i}
    BY <1>2 DEF HandledByOne, AtMostOne
  <2>2. port[i] \in Packet /\ PortBytes[i] = port[i].bytes
    BY <1>0 DEF PacketsOf, NetOK, PortBytes
  <2>3. PortBytes[i] \in Nat
    BY <2>2 DEF Packet
  <2>4. Total(PortBytes, PacketsOf(t)) = PortBytes[i]
    BY <2>1, <2>3, TotalOfOne
  <2>5. Uncounted(t) = {}
    BY <1>2 DEF HandledByOne, Uncounted
  <2>6. Total(nbytes, Uncounted(t)) = 0
    BY <2>5, TotalOfNone
  <2>7. inbound[t] + curr[t] + PortBytes[i] = Due(t)
    BY <2>1, <2>2 DEF Balanced
  <2> QED
    BY <1>1, <2>3, <2>4, <2>6, <2>7 DEF BytesOf
<1>3. CASE PacketsOf(t) = {} /\ Uncounted(t) # {}
  <2>1. PICK w \in Uncounted(t) : Uncounted(t) = {w}
    BY <1>3 DEF HandledByOne, AtMostOne, Uncounted
  <2>2. nbytes[w] \in Nat
    BY <1>0 DEF ThreadsOK, Uncounted, HoldersOf
  <2>3. Total(nbytes, Uncounted(t)) = nbytes[w] /\ Total(PortBytes, PacketsOf(t)) = 0
    BY <1>3, <2>1, <2>2, TotalOfOne, TotalOfNone
  <2>4. inbound[t] + curr[t] + nbytes[w] = Due(t)
    BY <2>1 DEF Balanced
  <2> QED
    BY <1>1, <2>2, <2>3, <2>4 DEF BytesOf
<1>4. CASE PacketsOf(t) = {} /\ Uncounted(t) = {}
  <2>1. Total(nbytes, Uncounted(t)) = 0 /\ Total(PortBytes, PacketsOf(t)) = 0
    BY <1>4, TotalOfNone
  <2>2. inbound[t] + curr[t] = Due(t)
    BY <1>4 DEF Balanced
  <2> QED
    BY <1>1, <2>1, <2>2 DEF BytesOf
<1> QED
  BY <1>2, <1>3, <1>4

-----------------------------------------------------------------------------
(* Only AcceptNext makes a transport live, with a free handle.             *)
LEMMA ApartStep ==
  ASSUME TypeOK, SocketsApart, Next PROVE SocketsApart'
<1>0. HeapOK
  BY DEF TypeOK
<1>1. ASSUME NEW w \in Threads, AcceptNext(w) PROVE SocketsApart'
  <2>1. CASE UNCHANGED <<life, sock>>
    BY <2>1 DEF SocketsApart
  <2>2. CASE ~ UNCHANGED <<life, sock>>
    <3>1. PICK a \in Transports, s \in FreeSockets :
            life' = [life EXCEPT ![a] = "live"] /\ sock' = [sock EXCEPT ![a] = s]
      BY <1>1, <2>2 DEF AcceptNext
    <3>2. /\ sock'[a] = s /\ \A t \in Transports : life[t] = "live" => sock[t] # s
          /\ \A t \in Transports : t # a => life'[t] = life[t] /\ sock'[t] = sock[t]
      BY <1>0, <3>1 DEF HeapOK, FreeSockets, OpenSockets
    <3> QED
      BY <3>2 DEF SocketsApart
  <2> QED
    BY <2>1, <2>2
<1>2. ASSUME NEW w \in Workers, RemoveTransport(w) PROVE SocketsApart'
  <2>1. sock' = sock /\ \A t \in Transports : life'[t] = "live" => life[t] = "live"
    BY <1>0, <1>2 DEF RemoveTransport, HeapOK
  <2> QED
    BY <2>1 DEF SocketsApart
<1>3. ASSUME UNCHANGED <<life, sock>> PROVE SocketsApart'
  BY <1>3 DEF SocketsApart
<1>4. ASSUME NEW w \in Workers, WorkerStep(w) PROVE SocketsApart'
  <2>1. AcceptNext(w) \/ RemoveTransport(w) \/ UNCHANGED <<life, sock>>
    BY <1>4 DEF WorkerStep, RecvPacket, Recv, AcceptBegin, StoreAccepted, AddAccepted,
       OnRecived, Complition, StartReceiving, EraseTransport, UseAfterFree, heapVars
  <2> QED
    BY <1>1, <1>2, <1>3, <2>1
<1>5. CASE MainStep
  <2>1. AcceptNext(Main) \/ UNCHANGED <<life, sock>>
    BY <1>5 DEF MainStep, StoreAccepted, heapVars
  <2> QED
    BY <1>1, <1>3, <2>1
<1>6. CASE TimerStep \/ NetworkStep
  BY <1>3, <1>6 DEF TimerStep, NetworkStep, CopyTransports, PrintTransport,
     KernelAccept, ClientRequest, KernelRecv, PeerClose, PeerReset, heapVars
<1> QED
  BY <1>4, <1>5, <1>6 DEF Next

(* The antecedent of ReceivingIsRegistered.                                *)
Receiving(t) ==
  \/ recvs[t] > 0
  \/ \E i \in PacketsOf(t) : port[i].key = t
  \/ \E w \in HoldersOf(t) : pc[w] \in Handling

(* An entry of the map goes only when its transport is erased.             *)
LEMMA EntryStays ==
  ASSUME TypeOK, Next, NEW t \in Transports, t \in Registered,
         \A w \in Workers : ~(EraseTransport(w) /\ obj[w] = t)
  PROVE  t \in Registered'
<1>0. MapOK /\ HeapOK
  BY DEF TypeOK
<1>1. PICK s \in Sockets : table[s] = t
  BY DEF Registered
<1>2. ASSUME NEW w \in Workers, WorkerStep(w) PROVE table'[s] = t
  <2>1. CASE AddAccepted(w)
    BY <1>0, <1>1, <2>1 DEF AddAccepted, AddTransport, MapOK
  <2>2. CASE EraseTransport(w)
    BY <1>1, <2>2 DEF EraseTransport, Erased
  <2>3. CASE ~AddAccepted(w) /\ ~EraseTransport(w)
    <3>1. UNCHANGED table
      BY <1>2, <2>3 DEF WorkerStep, RecvPacket, Recv, AcceptBegin, AcceptNext, StoreAccepted,
         OnRecived, Complition, StartReceiving, RemoveTransport, UseAfterFree, mapVars
    <3> QED
      BY <1>1, <3>1
  <2> QED
    BY <2>1, <2>2, <2>3
<1>3. ASSUME MainStep \/ TimerStep \/ NetworkStep PROVE table'[s] = t
  BY <1>1, <1>3 DEF MainStep, AcceptNext, StoreAccepted, TimerStep, NetworkStep,
     CopyTransports, PrintTransport, KernelAccept, ClientRequest, KernelRecv, PeerClose,
     PeerReset, mapVars
<1>4. table'[s] = t
  BY <1>2, <1>3 DEF Next
<1> QED
  BY <1>4 DEF Registered

(* The accept handler enters its transport: no other is entered under its  *)
(* handle.                                                                 *)
LEMMA AddEnters ==
  ASSUME TypeOK, TableInv, SocketsApart, NEW t \in Transports, NEW w \in Workers,
         AddAccepted(w), obj[w] = t
  PROVE  t \in Registered'
<1>0. MapOK /\ HeapOK
  BY DEF TypeOK
<1>1. life[t] = "live" /\ lock = None /\ sock[t] \in Sockets
  BY <1>0 DEF AddAccepted, AddTransport, At, HeapOK
<1>2. CASE table[sock[t]] = None
  BY <1>0, <1>1, <1>2 DEF AddAccepted, AddTransport, MapOK, Registered
<1>3. CASE table[sock[t]] # None
  <2>1. table[sock[t]] \in Transports /\ EntryOK(sock[t])
    BY <1>0, <1>1, <1>3 DEF MapOK, TableInv
  <2>2. table[sock[t]] = t
    BY <1>1, <1>3, <2>1 DEF EntryOK, SocketsApart
  <2>3. table' = table
    BY <1>3 DEF AddAccepted, AddTransport
  <2> QED
    BY <1>1, <2>2, <2>3 DEF Registered
<1> QED
  BY <1>2, <1>3

(* A transport begins to receive when its accept handler enters it.        *)
LEMMA ReceivingBegins ==
  ASSUME TypeOK, TableInv, SocketsApart, OwnInv, OwnInv', TrafficInv, TrafficInv', Next,
         ~overrun, ~overrun', NEW t \in Transports, Receiving(t)'
  PROVE  Receiving(t) \/ t \in Registered'
<1>0. NetOK /\ ThreadsOK
  BY DEF TypeOK
<1>1. Traffic(t) /\ Traffic(t)' /\ HandledByOne(t) /\ HandledByOne(t)'
  BY DEF OwnInv, TrafficInv
<1>2. CASE Same(t)
  <2>1. recvs'[t] > 0 => recvs[t] > 0
    BY <1>2 DEF Same, Quiet
  <2>2. (\E i \in PacketsOf(t)' : port'[i].key = t) => \E i \in PacketsOf(t) : port[i].key = t
    BY <1>2 DEF Same
  <2>3. (\E w \in HoldersOf(t)' : pc'[w] \in Handling) => \E w \in HoldersOf(t) : pc[w] \in Handling
    BY <1>2 DEF Same
  <2> QED
    BY <2>1, <2>2, <2>3 DEF Receiving
<1>3. CASE OfNetwork(t)
  <2>1. CASE KernelAccept(t)
    <3>1. PICK ok \in BOOLEAN, n \in Nat : port' = Append(port, Completion(Listener, t, ok, n))
      BY <2>1, KernelAcceptPosts
    <3>2. PICK p \in Packet : p.key = Listener /\ port' = Append(port, p)
      BY <3>1, CompletionFields
    <3>3. \A i \in PacketsOf(t)' : port'[i].key = t => i \in PacketsOf(t) /\ port'[i] = port[i]
      BY <1>0, <3>2, PortPosted DEF PacketsOf, NetOK
    <3>4. recvs' = recvs /\ pc' = pc /\ HoldersOf(t)' = HoldersOf(t)
      BY <2>1 DEF KernelAccept, threadVars, HoldersOf
    <3> QED
      BY <3>3, <3>4 DEF Receiving
  <2>2. CASE KernelRecv(t)
    BY <2>2 DEF KernelRecv, Receiving
  <2>3. CASE ClientRequest(t) \/ PeerClose(t) \/ PeerReset(t)
    BY <2>3 DEF ClientRequest, PeerClose, PeerReset, Receiving, PacketsOf, HoldersOf,
       threadVars
  <2> QED
    BY <1>3, <2>1, <2>2, <2>3 DEF OfNetwork
<1>4. ASSUME NEW w \in Workers, RecvPacket(w), Head(port).io = t PROVE Receiving(t)
  <2>1. port # <<>> /\ port' = Tail(port) /\ recvs' = recvs
    BY <1>4 DEF RecvPacket, Recv, netVars
  <2>2. 1 \in PacketsOf(t) /\ port[1] = Head(port)
    BY <1>0, <1>4, <2>1, AfterTake DEF PacketsOf
  <2>3. recvs[t] = 0 /\ HoldersOf(t) = {}
    BY <1>0, <1>1, <2>2 DEF HandledByOne, NetOK
  <2>4. CASE Head(port).key = t
    BY <2>2, <2>4 DEF Receiving
  <2>5. CASE Head(port).key # t
    <3>1. Head(port).key = Listener
      BY <1>1, <2>2, <2>5 DEF Traffic
    <3>2. ~ \E i \in PacketsOf(t)' : TRUE
      <4>1. ASSUME NEW i \in PacketsOf(t)' PROVE FALSE
        <5>1. i \in Nat /\ i + 1 # 1 /\ i + 1 \in PacketsOf(t)
          BY <1>0, <2>1, AfterTake DEF PacketsOf
        <5>2. i + 1 = 1
          BY <1>1, <2>2, <5>1 DEF HandledByOne, AtMostOne
        <5> QED
          BY <5>1, <5>2
      <4> QED
        BY <4>1
    <3>3. \A v \in HoldersOf(t)' : v = w /\ pc'[v] = "accept"
      BY <1>0, <1>4, <2>3, <3>1 DEF RecvPacket, Recv, HoldersOf, threadVars, ThreadsOK
    <3> QED
      BY <2>1, <2>3, <3>2, <3>3 DEF Receiving, Handling
  <2> QED
    BY <2>4, <2>5
<1>5. ASSUME NEW w \in Workers, obj[w] = t, OfHandler(w)
      PROVE  Receiving(t) \/ t \in Registered'
  <2>1. recvs[t] = 0 /\ PacketsOf(t) = {} /\ HoldersOf(t) = {w}
    BY <1>1, <1>5, HandlerAlone
  <2>2. CASE AddAccepted(w)
    BY <1>5, <2>2, AddEnters
  <2>3. CASE pc[w] \in Handling
    BY <2>1, <2>3 DEF Receiving
  <2>4. CASE pc[w] \notin Handling /\ ~AddAccepted(w)
    <3>1. AcceptBegin(w) \/ AcceptNext(w) \/ StoreAccepted(w) \/ EraseTransport(w)
      BY <1>5, <2>4 DEF OfHandler, OnRecived, Complition, StartReceiving, RemoveTransport, At,
         Handling
    <3>2. port' = port /\ recvs' = recvs
      BY <3>1 DEF AcceptBegin, AcceptNext, StoreAccepted, EraseTransport, netVars
    <3>3. PacketsOf(t)' = {}
      BY <2>1, <3>2 DEF PacketsOf
    <3>4. pc'[w] \notin Handling /\ \A v \in Workers : v # w => obj'[v] = obj[v]
      BY <1>0, <3>1 DEF AcceptBegin, AfterContext, GoWild, AcceptNext, StoreAccepted, AfterStore,
         EraseTransport, Leave, Return, Die, Goto, Handling, ThreadsOK
    <3>5. \A v \in HoldersOf(t)' : v = w
      BY <2>1, <3>4 DEF HoldersOf
    <3> QED
      BY <2>1, <3>2, <3>3, <3>4, <3>5 DEF Receiving
  <2> QED
    BY <2>2, <2>3, <2>4
<1>6. CASE Creates(t)
  <2>1. PICK w \in Threads : AcceptNext(w)
    BY <1>6 DEF Creates
  <2>2. UNCHANGED <<port, recvs, peer>> /\ peer[t] = "none"
    BY <1>1, <1>6, <2>1 DEF AcceptNext, netVars, Creates, Traffic
  <2> QED
    BY <1>1, <2>2 DEF Traffic, Unnoticed, Receiving
<1> QED
  BY <1>2, <1>3, <1>4, <1>5, <1>6, Elsewhere

(* Erased, a transport receives no more.                                   *)
LEMMA ErasedRests ==
  ASSUME TypeOK, OwnInv, TrafficInv, ~overrun, NEW t \in Transports, NEW w \in Workers,
         EraseTransport(w), obj[w] = t
  PROVE  ~Receiving(t)'
<1>0. ThreadsOK
  BY DEF TypeOK
<1>1. recvs[t] = 0 /\ PacketsOf(t) = {} /\ HoldersOf(t) = {w}
  BY HandlerAlone DEF TrafficInv
<1>2. HoldersOf(t)' = {}
  BY <1>1, HandlerHolds DEF EraseTransport, Leave
<1>3. PacketsOf(t)' = {} /\ recvs' = recvs
  BY <1>1 DEF EraseTransport, PacketsOf, netVars
<1> QED
  BY <1>1, <1>2, <1>3 DEF Receiving

(* What receives has been entered in the map and is not erased.            *)
LEMMA RegisteredStep ==
  ASSUME TypeOK, TableInv, SocketsApart, OwnInv, OwnInv', TrafficInv, TrafficInv',
         ReceivingIsRegistered, Next
  PROVE  ReceivingIsRegistered'
<1>1. \A t \in Transports : ~overrun /\ Receiving(t) => t \in Registered
  BY DEF Receiving, ReceivingIsRegistered
<1> SUFFICES ASSUME ~overrun', NEW t \in Transports, Receiving(t)' PROVE t \in Registered'
  BY DEF Receiving, ReceivingIsRegistered
<1>2. ~overrun
  BY OverrunStays
<1>3. \A w \in Workers : ~(EraseTransport(w) /\ obj[w] = t)
  BY <1>2, ErasedRests
<1>4. CASE Receiving(t)
  BY <1>1, <1>2, <1>3, <1>4, EntryStays
<1>5. CASE ~Receiving(t)
  BY <1>2, <1>5, ReceivingBegins
<1> QED
  BY <1>4, <1>5

-----------------------------------------------------------------------------
(* A connection that AcceptNext has dropped is never taken up again.       *)
LEMMA AbandonedStays ==
  ASSUME Next PROVE abandoned \subseteq abandoned'
<1>1. ASSUME NEW w \in Workers, WorkerStep(w) PROVE abandoned \subseteq abandoned'
  BY <1>1 DEF WorkerStep, RecvPacket, AcceptBegin, AcceptNext, Abandons, StoreAccepted,
     AddAccepted, OnRecived, acceptVars
<1>2. MainStep => abandoned \subseteq abandoned'
  BY DEF MainStep, AcceptNext, Abandons, StoreAccepted
<1>3. TimerStep => abandoned \subseteq abandoned'
  BY DEF TimerStep, acceptVars
<1>4. NetworkStep => abandoned \subseteq abandoned'
  BY DEF NetworkStep, KernelAccept, ClientRequest, acceptVars
<1> QED
  BY <1>1, <1>2, <1>3, <1>4 DEF Next

(* An accept, its packet and its handler follow each other, and the        *)
(* handler issues the next accept or gives up listening.                   *)
LEMMA ListeningStep ==
  ASSUME TypeOK, OwnInv, ListensUntilFailure, Next PROVE ListensUntilFailure'
<1>0. NetOK /\ ThreadsOK /\ AcceptOK
  BY DEF TypeOK
<1> SUFFICES ASSUME ~overrun', Listener \notin abandoned' PROVE Accepting'
  BY DEF ListensUntilFailure
<1>1. ~overrun /\ Accepting
  BY OverrunStays, AbandonedStays DEF ListensUntilFailure
<1>2. ASSUME UNCHANGED accepting,
             \A i \in ListenerPackets : \E j \in DOMAIN port' : port'[j].key = Listener,
             \A v \in Accepters : pc'[v] = pc[v]
      PROVE  Accepting'
  BY <1>1, <1>2 DEF Accepting, ListenerPackets, Accepters
<1>3. ASSUME NEW w \in Workers, RecvPacket(w) PROVE Accepting'
  <2>1. port # <<>> /\ port' = Tail(port) /\ accepting' = accepting /\ pc[w] = "wait"
    BY <1>3 DEF RecvPacket, Recv
  <2>2. CASE Head(port).key = Listener
    <3>1. pc'[w] = "accept"
      BY <1>0, <1>3, <2>2 DEF RecvPacket, Recv, ThreadsOK
    <3> QED
      BY <3>1 DEF Accepting, Accepters
  <2>3. CASE Head(port).key # Listener
    <3>1. ASSUME NEW i \in ListenerPackets
          PROVE  \E j \in DOMAIN port' : port'[j].key = Listener
      <4>1. i \in DOMAIN port /\ i # 1
        BY <1>0, <2>1, <2>3, AfterTake DEF ListenerPackets
      <4>2. i \in 1 .. Len(port) /\ Len(port) \in Nat
        BY <1>0, <4>1 DEF NetOK
      <4>3. i - 1 \in DOMAIN Tail(port) /\ Tail(port)[i - 1] = port[i]
        BY <1>0, <2>1, <4>1, <4>2 DEF NetOK
      <4> QED
        BY <2>1, <4>3 DEF ListenerPackets
    <3>2. \A v \in Accepters : pc'[v] = pc[v]
      BY <1>0, <1>3, <2>1 DEF RecvPacket, Recv, threadVars, Accepters, ThreadsOK
    <3> QED
      BY <1>2, <2>1, <3>1, <3>2
  <2> QED
    BY <2>2, <2>3
<1>4. ASSUME NEW w \in Workers, AcceptBegin(w) PROVE Accepting'
  <2>1. pc[w] = "accept" /\ obj[w] \in Transports /\ accepted = obj[w]
    BY <1>1, <1>4 DEF OwnInv, StackInv, AcceptBegin, InHandler
  <2>2. life[accepted] = "live"
    <3>1. w \in HoldersOf(accepted)
      BY <2>1 DEF HoldersOf
    <3> QED
      BY <1>1, <2>1, <3>1 DEF OwnInv, LifeInv, TypeOK, HeapOK
  <2>3. pc'[w] = "next"
    BY <1>0, <1>4, <2>1, <2>2, ConstantsAssumption DEF AcceptBegin, AfterContext, ThreadsOK
  <2> QED
    BY <2>3 DEF Accepting, Accepters, Threads
<1>5. ASSUME NEW w \in Threads, AcceptNext(w) PROVE Accepting'
  <2>1. ~Abandons(w)
    BY DEF Abandons
  <2> QED
    BY <1>5, <2>1 DEF AcceptNext, Accepting
<1>6. ASSUME NEW w \in Threads, pc[w] \notin {"accept", "next"},
             \A v \in Threads \ {w} : pc'[v] = pc[v], UNCHANGED <<port, accepting>>
      PROVE  Accepting'
  BY <1>2, <1>6 DEF ListenerPackets, Accepters
<1>7. ASSUME NEW w \in Threads, StoreAccepted(w) PROVE Accepting'
  BY <1>0, <1>6, <1>7 DEF StoreAccepted, Goto, ThreadsOK
<1>8. ASSUME NEW w \in Workers, AddAccepted(w) \/ OnRecived(w) PROVE Accepting'
  BY <1>0, <1>6, <1>8 DEF AddAccepted, OnRecived, AfterAnswer, At, Goto, Die, ThreadsOK,
     acceptVars
<1>9. ASSUME NEW w \in Workers, UNCHANGED acceptVars,
             \/ Complition(w) \/ StartReceiving(w) \/ RemoveTransport(w)
             \/ EraseTransport(w) \/ UseAfterFree(w)
      PROVE  Accepting'
  <2>1. pc[w] \notin {"accept", "next"} /\ UNCHANGED <<port, accepting>>
    BY <1>9 DEF Complition, StartReceiving, RemoveTransport, EraseTransport, UseAfterFree, At,
       Handling, acceptVars
  <2>2. \A v \in Threads \ {w} : pc'[v] = pc[v]
    BY <1>0, <1>9 DEF Complition, StartReceiving, RemoveTransport, EraseTransport,
       UseAfterFree, Leave, Goto, Die, Return, GoWild, ThreadsOK
  <2> QED
    BY <1>6, <2>1, <2>2
<1>10. CASE TimerStep
  BY <1>2, <1>10 DEF TimerStep, CopyTransports, PrintTransport, threadVars, acceptVars,
     ListenerPackets
<1>11. ASSUME NEW t \in Transports, KernelAccept(t) PROVE Accepting'
  <2>1. PICK p \in Packet : p.key = Listener /\ port' = Append(port, p)
    BY <1>11, KernelAcceptPosts, CompletionPacket
  <2>2. \E j \in DOMAIN port' : port'[j].key = Listener
    BY <1>0, <2>1 DEF NetOK
  <2> QED
    BY <2>2 DEF Accepting, ListenerPackets
<1>12. ASSUME NEW t \in Transports, KernelRecv(t), UNCHANGED acceptVars PROVE Accepting'
  <2>1. PICK p \in Packet : port' = Append(port, p)
    BY <1>12, KernelRecvPosts, CompletionPacket
  <2>2. \A i \in DOMAIN port : i \in DOMAIN port' /\ port'[i] = port[i]
    BY <1>0, <2>1 DEF NetOK
  <2>3. \A i \in ListenerPackets : \E j \in DOMAIN port' : port'[j].key = Listener
    BY <2>2 DEF ListenerPackets
  <2> QED
    BY <1>2, <1>12, <2>3 DEF KernelRecv, threadVars, acceptVars
<1>13. ASSUME NEW t \in Transports, UNCHANGED acceptVars,
              ClientRequest(t) \/ PeerClose(t) \/ PeerReset(t)
       PROVE  Accepting'
  BY <1>2, <1>13 DEF ClientRequest, PeerClose, PeerReset, threadVars, acceptVars,
     ListenerPackets
<1> QED
  BY <1>3, <1>4, <1>5, <1>7, <1>8, <1>9, <1>10, <1>11, <1>12, <1>13
     DEF Next, WorkerStep, MainStep, NetworkStep, Threads, ClientRequest

(* Without an overrun the server listens until an accept fails             *)
(* (base.cpp:92-95, Transport.cpp:159, 275-294).                           *)
THEOREM AlwaysListens == Spec => []ListensUntilFailure
<1>1. Init => ListensUntilFailure
  BY DEF Init, ListensUntilFailure, Accepting, Accepters, Threads
<1>2. ListensUntilFailure /\ UNCHANGED vars => ListensUntilFailure'
  BY DEF ListensUntilFailure, Accepting, ListenerPackets, Accepters, vars, baseVars,
     threadVars, acceptVars
<1>3. TypeOK /\ OwnInv /\ ListensUntilFailure /\ [Next]_vars => ListensUntilFailure'
  BY <1>2, ListeningStep
<1> QED
  BY <1>1, <1>3, TypeCorrect, OwnershipInvariant, PTL DEF Spec

(* What the steps of a connection's handler leave of the connection.       *)
LEMMA HandlerKeeps ==
  ASSUME TypeOK, TableInv, OwnInv, TrafficInv, SingleAcceptEx, ReceivingIsRegistered,
         ~overrun, ~overrun', NEW t \in Transports, NEW w \in Workers,
         obj[w] = t, OfHandler(w), life'[t] = "live", peer'[t] \in {"open", "closed"}
  PROVE  Owned(t)' \/ t \in abandoned'
<1>0. ThreadsOK /\ HeapOK /\ NetOK
  BY DEF TypeOK
<1>1. recvs[t] = 0 /\ PacketsOf(t) = {} /\ HoldersOf(t) = {w} /\ w \in HoldersOf(t)
  BY HandlerAlone DEF TrafficInv
<1>2. {"next", "store", "add", "done", "complete", "callback", "rearm", "remove", "erase"}
         \subseteq Labels
  BY DEF Labels
<1>3. ASSUME NEW l \in Labels, Goto(w, l) PROVE Owned(t)'
  <2>1. HoldersOf(t)' = {w}
    BY <1>1, <1>3, HandlerHolds
  <2> QED
    BY <2>1 DEF Owned
<1>4. peer' = peer /\ peer[t] # "reset"
  BY DEF OfHandler, AcceptBegin, AcceptNext, StoreAccepted, AddAccepted, OnRecived, Complition,
     StartReceiving, RemoveTransport, EraseTransport, netVars
<1>5. ASSUME AcceptBegin(w) PROVE Owned(t)'
  <2>1. accepted = t /\ accepted # None
    BY <1>5 DEF AcceptBegin, OwnInv, StackInv
  <2>2. life[accepted] = "live"
    BY <1>0, <1>1, <1>5, <2>1 DEF AcceptBegin, OwnInv, LifeInv, HeapOK
  <2>3. obj'[w] = t
    BY <1>0, <1>5, <2>1, <2>2 DEF AcceptBegin, ThreadsOK
  <2> QED
    BY <2>3 DEF Owned, HoldersOf
<1>6. ASSUME AcceptNext(w) PROVE Owned(t)' \/ t \in abandoned'
  <2>1. Goto(w, "store") \/ Abandons(w)
    BY <1>6 DEF AcceptNext
  <2>2. Abandons(w) => t \in abandoned'
    BY ConstantsAssumption DEF Abandons
  <2> QED
    BY <1>2, <1>3, <2>1, <2>2
<1>7. ASSUME StoreAccepted(w) \/ AddAccepted(w) \/ Complition(w) PROVE Owned(t)'
  BY <1>2, <1>3, <1>7 DEF StoreAccepted, AfterStore, AddAccepted, Complition
<1>8. ASSUME OnRecived(w) PROVE Owned(t)'
  BY <1>2, <1>3, <1>4, <1>8 DEF OnRecived, AfterAnswer
<1>9. ASSUME StartReceiving(w) PROVE Owned(t)'
  <2>1. recvs'[t] = 1
    BY <1>0, <1>1, <1>4, <1>9 DEF StartReceiving, NetOK
  <2> QED
    BY <2>1 DEF Owned
<1>10. ASSUME RemoveTransport(w) PROVE Owned(t)'
  <2>1. Receiving(t)
    BY <1>1, <1>10 DEF RemoveTransport, At, Receiving, Handling
  <2>2. t \in Registered
    BY <2>1 DEF ReceivingIsRegistered, Receiving
  <2> QED
    BY <1>2, <1>3, <1>10, <2>2 DEF RemoveTransport
<1>11. ASSUME EraseTransport(w) PROVE FALSE
  <2>1. life[t] = "deleted" /\ life' = life
    BY <1>11 DEF EraseTransport, heapVars, TableInv, StackWhole
  <2> QED
    BY <2>1
<1> QED
  BY <1>5, <1>6, <1>7, <1>8, <1>9, <1>10, <1>11 DEF OfHandler

(* A connection the network keeps is served until it is deleted, unless    *)
(* its own AcceptNext threw.                                               *)
LEMMA KeptStep ==
  ASSUME TypeOK, TableInv, OwnInv, TrafficInv, SingleAcceptEx, ReceivingIsRegistered,
         NoneForgotten, Next
  PROVE  NoneForgotten'
<1> SUFFICES ASSUME ~overrun', NEW t \in Transports, life'[t] = "live",
                    peer'[t] \in {"open", "closed"}, t \notin abandoned'
             PROVE  Owned(t)'
  BY DEF NoneForgotten
<1>0. NetOK /\ ThreadsOK
  BY DEF TypeOK
<1>1. ~overrun /\ t \notin abandoned /\ Traffic(t) /\ HandledByOne(t)
  BY OverrunStays, AbandonedStays DEF TrafficInv, OwnInv
<1>2. CASE Same(t)
  BY <1>1, <1>2 DEF Same, Quiet, Owned, NoneForgotten
<1>3. CASE OfNetwork(t)
  <2>1. ASSUME NEW p \in Packet, p.io = t, port' = Append(port, p) PROVE Owned(t)'
    BY <1>0, <2>1, PortPosted DEF Owned, PacketsOf, NetOK
  <2>2. CASE KernelAccept(t)
    <3>1. PICK p \in Packet : p.io = t /\ port' = Append(port, p)
      BY <2>2, KernelAcceptPosts, CompletionPacket
    <3> QED
      BY <2>1, <3>1
  <2>3. CASE KernelRecv(t)
    <3>1. PICK p \in Packet : p.io = t /\ port' = Append(port, p)
      BY <2>3, KernelRecvPosts, CompletionPacket
    <3> QED
      BY <2>1, <3>1
  <2>4. CASE ClientRequest(t) \/ (PeerClose(t) /\ UNCHANGED acceptVars)
    <3>1. /\ peer[t] \in {"open", "closed"} /\ UNCHANGED <<port, obj, recvs, life, accepting>>
      BY <2>4 DEF ClientRequest, PeerClose, threadVars, heapVars, acceptVars
    <3> QED
      BY <1>1, <3>1 DEF NoneForgotten, Owned, PacketsOf, HoldersOf
  <2>5. CASE PeerReset(t)
    BY <1>0, <2>5 DEF PeerReset, NetOK
  <2> QED
    BY <1>3, <2>2, <2>3, <2>4, <2>5 DEF OfNetwork
<1>4. ASSUME NEW w \in Workers, RecvPacket(w), Head(port).io = t PROVE Owned(t)'
  <2>1. port # <<>> /\ port' = Tail(port) /\ peer' = peer
    BY <1>4 DEF RecvPacket, Recv, netVars
  <2>2. 1 \in PacketsOf(t) /\ port[1] = Head(port)
    BY <1>0, <1>4, <2>1, AfterTake DEF PacketsOf
  <2>3. Head(port).ok
    BY <1>1, <2>1, <2>2 DEF Traffic
  <2>4. obj'[w] = t
    BY <1>0, <1>4, <2>3 DEF RecvPacket, Recv, ThreadsOK
  <2> QED
    BY <2>4 DEF Owned, HoldersOf
<1>5. ASSUME NEW w \in Workers, obj[w] = t, OfHandler(w) PROVE Owned(t)'
  BY <1>1, <1>5, HandlerKeeps
<1>6. CASE Creates(t)
  <2>1. peer' = peer /\ peer[t] = "none"
    BY <1>1, <1>6 DEF Creates, AcceptNext, netVars, Traffic
  <2> QED
    BY <2>1
<1> QED
  BY <1>1, <1>2, <1>3, <1>4, <1>5, <1>6, Elsewhere

-----------------------------------------------------------------------------
(* All of it together.                                                     *)
ServiceInv ==
  /\ TypeOK
  /\ SingleAcceptEx
  /\ TableInv
  /\ SocketsApart
  /\ OwnInv
  /\ TrafficInv
  /\ ReceivingIsRegistered
  /\ NoneForgotten

(* The server starts with an empty map and no connection.                  *)
LEMMA ServiceInit ==
  ASSUME Init PROVE ServiceInv
<1>1. TypeOK /\ OwnInv
  BY InitTypes, InitOwned
<1>2. SingleAcceptEx
  BY DEF Init, SingleAcceptEx, AtMostOne, ListenerPackets, Accepters
<1>3. TableInv /\ SocketsApart
  BY DEF Init, TableInv, StackWhole, EntryOK, InHandler, Handling, SocketsApart
<1>4. TrafficInv
  BY DEF Init, TrafficInv, Traffic, Unnoticed, PacketsOf, HoldersOf, Owned
<1>5. ReceivingIsRegistered
  BY DEF Init, ReceivingIsRegistered, PacketsOf, HoldersOf
<1>6. NoneForgotten
  BY DEF Init, NoneForgotten
<1> QED
  BY <1>1, <1>2, <1>3, <1>4, <1>5, <1>6 DEF ServiceInv

(* A stuttering step changes nothing of it.                                *)
LEMMA ServiceStill ==
  ASSUME ServiceInv, UNCHANGED vars PROVE ServiceInv'
<1> USE DEF ServiceInv, vars, baseVars, threadVars, heapVars, mapVars, timerVars, netVars,
        acceptVars
<1>1. TypeOK'
  BY DEF TypeOK, ThreadsOK, HeapOK, MapOK, NetOK, AcceptOK
<1>2. OwnInv' /\ TableInv' /\ SocketsApart'
  BY Still, TableStill DEF SocketsApart
<1>3. SingleAcceptEx'
  BY DEF SingleAcceptEx, AtMostOne, ListenerPackets, Accepters
<1>4. TrafficInv'
  <2> SUFFICES ASSUME ~overrun', NEW t \in Transports PROVE Traffic(t)'
    BY DEF TrafficInv
  <2>1. Same(t) /\ ~overrun
    BY DEF Same, Quiet, PacketsOf, HoldersOf
  <2> QED
    BY <2>1, SameTraffic DEF TrafficInv
<1>5. ReceivingIsRegistered'
  BY DEF ReceivingIsRegistered, PacketsOf, HoldersOf, Registered
<1>6. NoneForgotten'
  BY DEF NoneForgotten, Owned, PacketsOf, HoldersOf
<1> QED
  BY <1>1, <1>2, <1>3, <1>4, <1>5, <1>6

(* Every step keeps it.                                                    *)
LEMMA ServiceStep ==
  ASSUME ServiceInv, Next PROVE ServiceInv'
<1>1. TypeOK' /\ SingleAcceptEx' /\ TableInv' /\ SocketsApart' /\ OwnInv'
  BY NextTypes, SingleAcceptStep, TableStep, ApartStep, OwnStep DEF ServiceInv
<1>2. TrafficInv'
  BY <1>1, TrafficStep DEF ServiceInv
<1>3. ReceivingIsRegistered' /\ NoneForgotten'
  BY <1>1, <1>2, RegisteredStep, KeptStep DEF ServiceInv
<1> QED
  BY <1>1, <1>2, <1>3 DEF ServiceInv

(* The inductive invariant of the server: the map, the ownership and the   *)
(* bytes of its connections (base.cpp:34-154, Transport.cpp:152-191,       *)
(* 271-298, 353-380).                                                      *)
THEOREM ServiceInvariant == Spec => []ServiceInv
<1>1. ServiceInv /\ [Next]_vars => ServiceInv'
  BY ServiceStep, ServiceStill
<1> QED
  BY <1>1, ServiceInit, PTL DEF Spec

(* The same holds of whatever takes the server's steps until a slot is     *)
(* read too early, as the SSL listener does.                               *)
LEMMA ServiceUntilOverrun ==
  Init /\ [][Next \/ overrun']_vars => [](~overrun => ServiceInv)
<1>1. Init => (~overrun => ServiceInv)
  BY ServiceInit
<1>2. (~overrun => ServiceInv) /\ [Next \/ overrun']_vars => (~overrun' => ServiceInv')
  <2> SUFFICES ASSUME ~overrun => ServiceInv, ~overrun', Next \/ UNCHANGED vars
               PROVE  ServiceInv'
    OBVIOUS
  <2>1. ~overrun
    BY OverrunStays DEF vars
  <2> QED
    BY <2>1, ServiceStep, ServiceStill
<1> QED
  BY <1>1, <1>2, PTL

(* Of a transport's packets and handlers there is at most one, so the sums *)
(* of BytesAccounted have one term.                                        *)
LEMMA ServiceSound ==
  ASSUME ServiceInv
  PROVE  TableSound /\ BytesAccounted /\ ReceivingIsRegistered /\ NoneForgotten
<1>1. TableSound
  BY DEF ServiceInv, TableInv, EntryOK, TableSound
<1>2. BytesAccounted
  <2> SUFFICES ASSUME ~overrun, NEW t \in Transports, Owned(t), peer[t] \in {"open", "closed"}
               PROVE  BytesOf(t) = Due(t)
    BY DEF BytesAccounted, Due
  <2> QED
    BY BalancedBytes DEF ServiceInv, TrafficInv, Traffic, OwnInv
<1> QED
  BY <1>1, <1>2 DEF ServiceInv

(* Whenever the critical section is free, every entry of the map is a live *)
(* transport under its own handle, in every run (base.cpp:117-154).        *)
THEOREM TableAlwaysSound == Spec => []TableSound
BY ServiceSound, ServiceInvariant, PTL

(* No byte of a request is lost or counted twice, whatever the network's   *)
(* portions and the order in which the workers take them                   *)
(* (Transport.cpp:353-380, server.cpp:60-88).                              *)
THEOREM AllBytesAccounted == Spec => []BytesAccounted
BY ServiceSound, ServiceInvariant, PTL

(* A connection that receives is in the map, so that its end finds it      *)
(* (base.cpp:124, 146).                                                    *)
THEOREM ReceivingAlwaysRegistered == Spec => []ReceivingIsRegistered
BY ServiceSound, ServiceInvariant, PTL

(* No connection that the network keeps is forgotten but one whose own     *)
(* AcceptNext threw (Transport.cpp:159, 275-294).                          *)
THEOREM NeverForgotten == Spec => []NoneForgotten
BY ServiceSound, ServiceInvariant, PTL

=============================================================================
