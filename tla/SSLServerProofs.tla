--------------------------- MODULE SSLServerProofs ---------------------------
(***************************************************************************)
(* What TLAPS proves of SSLServer for every value of the constants: its    *)
(* types, and that until an accept slot is read too early it implements    *)
(* TCPServer, whence its handlers exclude each other and use no deleted    *)
(* transport, no connection is forgotten and no byte of one lost, and that *)
(* every connection has one handshake.                                     *)
(*                                                                         *)
(* CtxInv follows a transport from AcceptEx to the end of its connection:  *)
(* it has no context until its accept handler calls Accept (Unserved) and  *)
(* exactly one from then on (InService).  Slot says why nobody stores      *)
(* m_AcceptedTransport while a handler is between its two readings.        *)
(***************************************************************************)
EXTENDS SSLServer, TCPServerProofs

Serving == {"next", "store", "add"} \cup Handling

(* Accept has not been called on the transport.                            *)
Unserved(t) ==
  \/ life[t] = "unallocated"
  \/ t \in accepting
  \/ \E i \in PacketsOf(t) : port[i].key = Listener
  \/ \E w \in HoldersOf(t) : pc[w] = "accept" /\ secured[w] = None

Contexts ==
  \A t \in Transports :
    /\ contexts[t] \in {0, 1}
    /\ Unserved(t) => contexts[t] = 0
    /\ InService(t) => contexts[t] = 1

Secured ==
  \A w \in Workers :
    secured[w] # None =>
      pc[w] = "accept" /\ secured[w] = obj[w] /\ contexts[obj[w]] = 1

CtxInv == ~overrun => Contexts /\ Secured

-----------------------------------------------------------------------------
(* A thread that dies or goes wild keeps the types of the stacks.          *)
LEMMA LostTypes ==
  ASSUME ThreadsOK, NEW w \in Workers, Die(w) \/ GoWild(w) PROVE ThreadsOK'
BY DEF Die, GoWild, ThreadsOK, Labels, Threads

(* Every step of the SSL listener keeps the types.                         *)
LEMMA SSLTypes ==
  ASSUME SSLTypeOK, SSLNext PROVE SSLTypeOK'
<1>0. /\ TypeOK /\ ThreadsOK /\ HeapOK /\ MapOK /\ NetOK /\ AcceptOK
      /\ contexts \in [Transports -> Nat]
      /\ secured \in [Workers -> Transports \cup {None}]
  BY DEF SSLTypeOK, TypeOK
<1>1. ASSUME NEW w \in Workers, Accept(w) PROVE SSLTypeOK'
  <2>1. /\ ThreadsOK'
        /\ contexts' \in [Transports -> Nat]
        /\ secured' \in [Workers -> Transports \cup {None}]
    <3>1. CASE accepted # None /\ life[accepted] = "live"
      <4>1. accepted \in Transports
        BY <1>0, <3>1 DEF AcceptOK
      <4>2. ThreadsOK'
        BY <1>0, <1>1, <3>1 DEF Accept, threadVars, ThreadsOK
      <4> QED
        BY <1>0, <1>1, <3>1, <4>1, <4>2 DEF Accept, CreateServerSSLContext
    <3>2. CASE ~(accepted # None /\ life[accepted] = "live")
      BY <1>0, <1>1, <3>2, LostTypes DEF Accept, sslVars
    <3> QED
      BY <3>1, <3>2
  <2>2. HeapOK' /\ MapOK' /\ NetOK'
    BY <1>0, <1>1 DEF Accept, heapVars, mapVars, timerVars, netVars, HeapOK, MapOK,
         NetOK
  <2>3. AcceptOK'
    BY <1>0, <1>1 DEF Accept, acceptVars, AcceptOK
  <2> QED
    BY <2>1, <2>2, <2>3 DEF SSLTypeOK, TypeOK
<1>2. ASSUME NEW w \in Workers, SSLProcessingRecvFails(w) PROVE SSLTypeOK'
  <2>1. ThreadsOK'
    BY <1>0, <1>2, LostTypes DEF SSLProcessingRecvFails
  <2>2. HeapOK' /\ MapOK' /\ NetOK' /\ AcceptOK'
    BY <1>0, <1>2 DEF SSLProcessingRecvFails, heapVars, mapVars, timerVars, netVars,
         acceptVars, HeapOK, MapOK, NetOK, AcceptOK
  <2> QED
    BY <1>0, <1>2, <2>1, <2>2 DEF SSLProcessingRecvFails, sslVars, SSLTypeOK, TypeOK
<1>3. ASSUME NEW w \in Workers, SSLAcceptBegin(w) PROVE SSLTypeOK'
  BY <1>0, <1>3, NextTypes DEF SSLAcceptBegin, Next, WorkerStep, SSLTypeOK
<1>4. ASSUME Next, UNCHANGED sslVars PROVE SSLTypeOK'
  BY <1>0, <1>4, NextTypes DEF sslVars, SSLTypeOK
<1> QED
  BY <1>1, <1>2, <1>3, <1>4 DEF SSLNext, SSLWorkerStep, Inherited, Next

(* The types of the SSL listener (SSLServer and what it inherits).         *)
THEOREM SSLTypeCorrect == SSLSpec => []SSLTypeOK
<1>1. SSLInit => SSLTypeOK
  <2> SUFFICES ASSUME SSLInit PROVE SSLTypeOK
    OBVIOUS
  <2>1. TypeOK
    BY InitTypes DEF SSLInit
  <2> QED
    BY <2>1 DEF SSLInit, SSLTypeOK
<1>2. SSLTypeOK /\ [SSLNext]_allVars => SSLTypeOK'
  <2> SUFFICES ASSUME SSLTypeOK, UNCHANGED allVars PROVE SSLTypeOK'
    BY SSLTypes
  <2> QED
    BY DEF allVars, vars, baseVars, threadVars, heapVars, mapVars, timerVars, netVars,
       acceptVars, sslVars, SSLTypeOK, TypeOK, ThreadsOK, HeapOK, MapOK, NetOK, AcceptOK
<1> QED
  BY <1>1, <1>2, PTL DEF SSLSpec

-----------------------------------------------------------------------------
(* No transport goes back to an earlier stage.                             *)
Onward ==
  \A t \in Transports :
    /\ Unserved(t)' => Unserved(t)
    /\ InService(t)' => InService(t)

(* A step that moves one thread on, and not to another accept.             *)
LEMMA MovesOn ==
  ASSUME TypeOK, NEW w \in Threads, NEW l \in Labels \ {"accept"},
         pc' = [pc EXCEPT ![w] = l],
         UNCHANGED <<port, secured>>,
         \A t \in Transports : life'[t] = "unallocated" => life[t] = "unallocated",
         \A t \in accepting' : t \in accepting \/ life[t] = "unallocated",
         \A t \in Transports :
           recvs'[t] > 0 =>
             recvs[t] > 0 \/ (w \in HoldersOf(t) /\ pc[w] \in Serving),
         \/ obj' = obj /\ (w \in Workers /\ l \in Serving => pc[w] \in Serving)
         \/ obj' = [obj EXCEPT ![w] = None]
  PROVE  Onward
<1>0. /\ pc \in [Threads -> Labels] /\ obj \in [Threads -> Transports \cup {None}]
      /\ None \notin Transports /\ Workers \subseteq Threads
  BY ConstantsAssumption DEF TypeOK, ThreadsOK, Threads
<1> SUFFICES ASSUME NEW t \in Transports
             PROVE  (Unserved(t)' => Unserved(t)) /\ (InService(t)' => InService(t))
  BY DEF Onward
<1>1. PacketsOf(t)' = PacketsOf(t)
  BY DEF PacketsOf
<1>2. ASSUME NEW v \in HoldersOf(t)'
      PROVE  v \in HoldersOf(t) /\ (v # w => pc'[v] = pc[v]) /\ (v = w => obj' = obj)
  BY <1>0 DEF HoldersOf
<1>3. ASSUME NEW v \in HoldersOf(t)', pc'[v] = "accept"
      PROVE  v \in HoldersOf(t) /\ pc[v] = "accept"
  BY <1>0, <1>2, <1>3
<1>4. ASSUME NEW v \in HoldersOf(t)', pc'[v] \in Serving
      PROVE  v \in HoldersOf(t) /\ pc[v] \in Serving
  BY <1>0, <1>2, <1>4 DEF HoldersOf
<1>5. Unserved(t)' => Unserved(t)
  BY <1>1, <1>3 DEF Unserved
<1>6. InService(t)' => InService(t)
  BY <1>1, <1>4 DEF InService, Serving
<1> QED
  BY <1>5, <1>6

(* A thread that leaves its handler moves no transport back.               *)
LEMMA LeavesOn ==
  ASSUME TypeOK, NEW w \in Threads, NEW l \in Labels \ {"accept"},
         pc' = [pc EXCEPT ![w] = l], obj' = [obj EXCEPT ![w] = None],
         UNCHANGED <<port, secured, life, accepting, recvs>>
  PROVE  Onward
BY MovesOn

(* A step of no thread that posts nothing.                                 *)
LEMMA StandsStill ==
  ASSUME UNCHANGED <<pc, obj, port, life, accepting, recvs, secured>>
  PROVE  Onward
BY DEF Onward, Unserved, InService, PacketsOf, HoldersOf

(* A completion is posted: of an accept to the listener, of a receive to   *)
(* its transport.                                                          *)
LEMMA PostsOn ==
  ASSUME TypeOK, NEW t \in Transports, NEW p \in Packet, p.io = t,
         port' = Append(port, p),
         \/ p.key = Listener /\ t \in accepting /\ UNCHANGED recvs
         \/ /\ p.key # Listener /\ recvs[t] > 0
            /\ \A u \in Transports : recvs'[u] > 0 => recvs[u] > 0,
         accepting' \subseteq accepting,
         UNCHANGED <<pc, obj, life, secured>>
  PROVE  Onward
<1>0. NetOK
  BY DEF TypeOK
<1> SUFFICES ASSUME NEW u \in Transports
             PROVE  (Unserved(u)' => Unserved(u)) /\ (InService(u)' => InService(u))
  BY DEF Onward
<1>1. HoldersOf(u)' = HoldersOf(u)
  BY DEF HoldersOf
<1>2. ASSUME NEW i \in PacketsOf(u)'
      PROVE  \/ i \in PacketsOf(u) /\ port'[i] = port[i]
             \/ u = t /\ port'[i] = p
  BY <1>0, AfterPost DEF PacketsOf
<1>3. Unserved(u)' => Unserved(u)
  BY <1>1, <1>2 DEF Unserved
<1>4. InService(u)' => InService(u)
  BY <1>1, <1>2 DEF InService
<1> QED
  BY <1>3, <1>4

(* A worker takes a packet: the transport stays at the stage it was at.    *)
LEMMA RecvOn ==
  ASSUME TypeOK, Secured, NEW w \in Workers, RecvPacket(w), UNCHANGED secured
  PROVE  Onward
<1>0. /\ NetOK /\ pc \in [Threads -> Labels]
      /\ obj \in [Threads -> Transports \cup {None}] /\ w \in Threads
      /\ secured[w] = None
  BY DEF TypeOK, ThreadsOK, Threads, Secured, RecvPacket, Recv
<1>1. /\ port # <<>> /\ port' = Tail(port) /\ UNCHANGED <<life, recvs, accepting>>
  BY DEF RecvPacket, Recv, heapVars, netVars
<1>2. /\ 1 \in DOMAIN port /\ port[1] = Head(port)
      /\ \A i \in DOMAIN port' :
            i \in Nat /\ i + 1 \in DOMAIN port /\ port'[i] = port[i + 1]
  BY <1>0, <1>1, AfterTake
<1>3. \/ UNCHANGED <<pc, obj>>
      \/ /\ obj' = [obj EXCEPT ![w] = Head(port).io]
         /\ \/ Head(port).key = Listener /\ pc' = [pc EXCEPT ![w] = "accept"]
            \/ Head(port).key # Listener /\ pc' = [pc EXCEPT ![w] = "complete"]
  BY DEF RecvPacket, Recv, threadVars
<1> SUFFICES ASSUME NEW u \in Transports
             PROVE  (Unserved(u)' => Unserved(u)) /\ (InService(u)' => InService(u))
  BY DEF Onward
<1>4. ASSUME NEW i \in PacketsOf(u)'
      PROVE  i + 1 \in PacketsOf(u) /\ port'[i] = port[i + 1]
  BY <1>2 DEF PacketsOf
<1>5. ASSUME NEW v \in HoldersOf(u)', v # w
      PROVE  v \in HoldersOf(u) /\ pc'[v] = pc[v]
  BY <1>0, <1>3, <1>5 DEF HoldersOf, Threads
<1>6. ASSUME w \in HoldersOf(u)', pc' # pc
      PROVE  /\ 1 \in PacketsOf(u)
             /\ pc'[w] = "accept" => port[1].key = Listener
             /\ pc'[w] \in Serving => port[1].key # Listener
  BY <1>0, <1>2, <1>3, <1>6 DEF HoldersOf, PacketsOf, Serving, Handling
<1>7. ASSUME w \in HoldersOf(u)', pc' = pc PROVE pc'[w] \notin Serving \cup {"accept"}
  BY <1>7 DEF RecvPacket, Recv, Serving, Handling
<1>8. Unserved(u)' => Unserved(u)
  BY <1>1, <1>4, <1>5, <1>6, <1>7 DEF Unserved
<1>9. InService(u)' => InService(u)
  BY <1>1, <1>4, <1>5, <1>6, <1>7 DEF InService, Serving
<1> QED
  BY <1>8, <1>9

(* Whatever TCPServer does but take m_AcceptedTransport.                   *)
LEMMA NextOn ==
  ASSUME TypeOK, Secured, UNCHANGED secured,
         \/ \E w \in Workers : WorkerStep(w) /\ pc[w] # "accept"
         \/ MainStep \/ TimerStep \/ NetworkStep
  PROVE  Onward
<1>0. /\ pc \in [Threads -> Labels] /\ recvs \in [Transports -> Nat]
      /\ life \in [Transports -> {"unallocated", "live", "deleted"}]
      /\ Workers \subseteq Threads /\ Main \in Threads
      /\ Labels \ {"accept"} = {"wait", "next", "store", "add", "done", "complete",
           "callback", "rearm", "remove", "erase", "dead", "wild"}
  BY DEF TypeOK, ThreadsOK, HeapOK, NetOK, Threads, Labels
<1>1. ASSUME NEW w \in Threads, AcceptNext(w) PROVE Onward
  BY <1>0, <1>1, MovesOn DEF AcceptNext, Goto, Die, netVars, Serving
<1>2. ASSUME NEW w \in Threads, StoreAccepted(w) PROVE Onward
  BY <1>0, <1>2, MovesOn DEF StoreAccepted, AfterStore, Goto, heapVars, netVars, Serving
<1>3. ASSUME NEW w \in Workers, AddAccepted(w) PROVE Onward
  BY <1>0, <1>3, MovesOn DEF AddAccepted, At, Goto, heapVars, netVars, acceptVars,
       Serving
<1>4. ASSUME NEW w \in Workers, OnRecived(w) PROVE Onward
  BY <1>0, <1>4, MovesOn DEF OnRecived, AfterAnswer, At, Goto, Die, netVars,
       acceptVars, Serving, Handling
<1>5. ASSUME NEW w \in Workers, Complition(w), UNCHANGED acceptVars PROVE Onward
  BY <1>0, <1>5, MovesOn DEF Complition, Count, At, Goto, netVars, acceptVars,
       Serving, Handling
<1>6. ASSUME NEW w \in Workers, StartReceiving(w), UNCHANGED acceptVars PROVE Onward
  <2>1. \A t \in Transports : recvs'[t] > 0 => recvs[t] > 0 \/ obj[w] = t
    BY <1>0, <1>6 DEF StartReceiving
  <2>2. \A t \in Transports : obj[w] = t => w \in HoldersOf(t) /\ pc[w] \in Serving
    BY <1>6 DEF StartReceiving, At, HoldersOf, Serving, Handling
  <2> QED
    <3>1. PICK l \in Labels \ {"accept"} :
            pc' = [pc EXCEPT ![w] = l] /\ obj' = [obj EXCEPT ![w] = None]
      BY <1>0, <1>6 DEF StartReceiving, Return, Die
    <3> QED
      BY <1>0, <1>6, <2>1, <2>2, <3>1, MovesOn DEF StartReceiving, heapVars, acceptVars
<1>7. ASSUME NEW w \in Workers, RemoveTransport(w), UNCHANGED acceptVars PROVE Onward
  <2>1. \A t \in Transports : life'[t] = "unallocated" => life[t] = "unallocated"
    BY <1>0, <1>7 DEF RemoveTransport
  <2>2. UNCHANGED <<port, secured, accepting, recvs>>
    BY <1>7 DEF RemoveTransport, netVars, acceptVars
  <2>3. \/ pc' = [pc EXCEPT ![w] = "erase"] /\ obj' = obj
        \/ pc' = [pc EXCEPT ![w] = "wait"] /\ obj' = [obj EXCEPT ![w] = None]
    BY <1>7 DEF RemoveTransport, Return, Goto
  <2> QED
    BY <1>0, <2>1, <2>2, <2>3, MovesOn DEF Serving, Handling
<1>8. ASSUME NEW w \in Workers, EraseTransport(w), UNCHANGED acceptVars PROVE Onward
  BY <1>0, <1>8, LeavesOn DEF EraseTransport, Leave, Return, heapVars, netVars,
       acceptVars
<1>9. ASSUME NEW w \in Workers, UseAfterFree(w), UNCHANGED acceptVars PROVE Onward
  BY <1>0, <1>9, LeavesOn DEF UseAfterFree, GoWild, heapVars, netVars, acceptVars
<1>10. ASSUME NEW w \in Workers, WorkerStep(w), pc[w] # "accept" PROVE Onward
  BY <1>0, <1>1, <1>2, <1>3, <1>4, <1>5, <1>6, <1>7, <1>8, <1>9, <1>10, RecvOn
     DEF WorkerStep, AcceptBegin
<1>11. ASSUME TimerStep PROVE Onward
  BY <1>11, StandsStill DEF TimerStep, CopyTransports, PrintTransport, threadVars,
       heapVars, netVars, acceptVars
<1>12. ASSUME NEW t \in Transports, KernelAccept(t) PROVE Onward
  <2>1. PICK ok \in BOOLEAN, n \in Nat :
               port' = Append(port, Completion(Listener, t, ok, n))
    BY <1>12, KernelAcceptPosts
  <2> QED
    <3>1. t \in accepting /\ accepting' \subseteq accepting
      BY <1>12 DEF KernelAccept
    <3>2. UNCHANGED <<pc, obj, life, recvs>>
      BY <1>12 DEF KernelAccept, threadVars, heapVars
    <3>3. PICK p \in Packet : port' = Append(port, p) /\ p.io = t /\ p.key = Listener
      BY <2>1, CompletionPacket DEF Completion
    <3> QED
      BY <3>1, <3>2, <3>3, PostsOn
<1>13. ASSUME NEW t \in Transports, KernelRecv(t), UNCHANGED acceptVars PROVE Onward
  <2>1. PICK ok \in BOOLEAN, n \in Nat : port' = Append(port, Completion(t, t, ok, n))
    BY <1>13, KernelRecvPosts
  <2>2. recvs[t] > 0 /\ \A u \in Transports : recvs'[u] > 0 => recvs[u] > 0
    BY <1>0, <1>13 DEF KernelRecv
  <2> QED
    BY <1>13, <2>1, <2>2, CompletionPacket, PostsOn, ConstantsAssumption
       DEF KernelRecv, threadVars, heapVars, acceptVars
<1>14. ASSUME NEW t \in Transports, UNCHANGED acceptVars,
              PeerClose(t) \/ PeerReset(t) \/ ClientRequest(t)
       PROVE  Onward
  BY <1>14, StandsStill DEF PeerClose, PeerReset, ClientRequest, threadVars, heapVars,
       acceptVars
<1> QED
  BY <1>0, <1>1, <1>2, <1>10, <1>11, <1>12, <1>13, <1>14 DEF MainStep, NetworkStep,
     ClientRequest

(* A step of TCPServer moves the threads at an accept only by AcceptBegin. *)
LEMMA AcceptersStay ==
  ASSUME TypeOK,
         \/ \E w \in Workers : WorkerStep(w) /\ pc[w] # "accept"
         \/ MainStep \/ TimerStep \/ NetworkStep
  PROVE  \A v \in Workers : pc[v] = "accept" => pc'[v] = "accept" /\ obj'[v] = obj[v]
<1>0. /\ pc \in [Threads -> Labels] /\ obj \in [Threads -> Transports \cup {None}]
      /\ Workers \subseteq Threads /\ Main \in Threads /\ Main \notin Workers
  BY ConstantsAssumption DEF TypeOK, ThreadsOK, Threads
<1>1. ASSUME NEW w \in Workers, WorkerStep(w)
      PROVE  \A v \in Threads \ {w} : pc'[v] = pc[v] /\ obj'[v] = obj[v]
  BY <1>0, <1>1 DEF WorkerStep, RecvPacket, Recv, AcceptBegin, AcceptNext, StoreAccepted,
       AddAccepted, OnRecived, AfterAnswer, Complition, StartReceiving, RemoveTransport,
       EraseTransport, Leave, UseAfterFree, Return, Die, GoWild, Goto, threadVars
<1>2. ASSUME MainStep PROVE \A v \in Workers : pc'[v] = pc[v] /\ obj'[v] = obj[v]
  BY <1>0, <1>2 DEF MainStep, AcceptNext, StoreAccepted, Die, Goto
<1>3. ASSUME TimerStep \/ NetworkStep PROVE UNCHANGED <<pc, obj>>
  BY <1>3 DEF TimerStep, CopyTransports, PrintTransport, NetworkStep, KernelAccept,
       ClientRequest, KernelRecv, PeerClose, PeerReset, threadVars
<1> QED
  BY <1>0, <1>1, <1>2, <1>3

-----------------------------------------------------------------------------
(* A step by which every transport keeps its context, and nobody at an     *)
(* accept moves, keeps the invariant.                                      *)
LEMMA OnwardKeeps ==
  ASSUME Contexts, Secured, Onward, UNCHANGED sslVars,
         \A v \in Workers : pc[v] = "accept" => pc'[v] = "accept" /\ obj'[v] = obj[v]
  PROVE  Contexts' /\ Secured'
<1>1. Contexts'
  BY DEF Contexts, Onward, sslVars
<1>2. Secured'
  BY DEF Secured, sslVars
<1> QED
  BY <1>1, <1>2

(* The handler of an accept has the transport to itself.                   *)
LEMMA AcceptorAlone ==
  ASSUME TypeOK, OwnInv, ~overrun, NEW w \in Workers, pc[w] = "accept"
  PROVE  /\ obj[w] \in Transports /\ ov[w] = obj[w] /\ w \in HoldersOf(obj[w])
         /\ life[obj[w]] = "live" /\ obj[w] \notin accepting
         /\ recvs[obj[w]] = 0 /\ PacketsOf(obj[w]) = {}
         /\ \A v \in HoldersOf(obj[w]) : v = w
<1>0. HeapOK /\ NetOK
  BY DEF TypeOK
<1>1. (\A t \in Transports : HandledByOne(t)) /\ LifeInv /\ StackInv
  BY DEF OwnInv
<1>2. obj[w] \in Transports /\ ov[w] = obj[w]
  BY <1>1 DEF StackInv, InHandler
<1>3. w \in HoldersOf(obj[w]) /\ HandledByOne(obj[w])
  BY <1>1, <1>2 DEF HoldersOf
<1>4. life[obj[w]] = "live"
  BY <1>0, <1>1, <1>2, <1>3 DEF LifeInv, HeapOK
<1>5. recvs[obj[w]] \in Nat
  BY <1>0, <1>2 DEF NetOK
<1>6. obj[w] \notin accepting /\ recvs[obj[w]] = 0 /\ PacketsOf(obj[w]) = {}
  BY <1>3, <1>5 DEF HandledByOne
<1>7. \A v \in HoldersOf(obj[w]) : v = w
  BY <1>3 DEF HandledByOne, AtMostOne
<1> QED
  BY <1>2, <1>3, <1>4, <1>6, <1>7

(* The first reading gives the transport that was accepted its context.    *)
LEMMA AcceptKeeps ==
  ASSUME SSLTypeOK, OwnInv, Contexts, Secured, ~overrun, ~overrun',
         NEW w \in Workers, Accept(w)
  PROVE  /\ UNCHANGED vars
         /\ Contexts' /\ Secured'
<1>0. /\ TypeOK /\ contexts \in [Transports -> Nat]
      /\ secured \in [Workers -> Transports \cup {None}]
  BY DEF SSLTypeOK
<1>1. PICK t \in Transports :
        /\ t = obj[w] /\ w \in HoldersOf(t) /\ life[t] = "live" /\ t \notin accepting
        /\ recvs[t] = 0 /\ PacketsOf(t) = {} /\ \A v \in HoldersOf(t) : v = w
  BY <1>0, AcceptorAlone DEF Accept
<1>2. accepted = t
  BY <1>0, <1>1, AcceptorAlone DEF Accept
<1>3. /\ UNCHANGED vars
      /\ contexts' = [contexts EXCEPT ![t] = @ + 1]
      /\ secured' = [secured EXCEPT ![w] = t]
  <2>1. overrun' = overrun
    BY <1>0 DEF Accept, TypeOK, AcceptOK
  <2>2. accepted # None /\ life[accepted] = "live"
    BY <1>1, <1>2, ConstantsAssumption
  <2>3. /\ UNCHANGED <<threadVars, port, heapVars, mapVars, timerVars, netVars, acceptVars,
                      requested, cut>>
        /\ contexts' = [contexts EXCEPT ![accepted] = @ + 1]
        /\ secured' = [secured EXCEPT ![w] = accepted]
    BY <2>2 DEF Accept, CreateServerSSLContext
  <2>4. UNCHANGED vars
    BY <2>1, <2>3 DEF vars, baseVars
  <2> QED
    BY <1>2, <2>3, <2>4
<1>4. UNCHANGED <<pc, obj, life, accepting, recvs, port>>
  BY <1>3 DEF vars, baseVars, threadVars, heapVars, netVars, acceptVars
<1>5. Unserved(t) /\ pc[w] = "accept"
  BY <1>1 DEF Accept, Unserved
<1>6. contexts'[t] = 1
  BY <1>0, <1>1, <1>3, <1>5 DEF Contexts
<1>7. ~Unserved(t)'
  BY <1>0, <1>1, <1>3, <1>4, ConstantsAssumption DEF Unserved, PacketsOf, HoldersOf
<1>8. ASSUME NEW u \in Transports, u # t
      PROVE  /\ Unserved(u)' => Unserved(u)
             /\ InService(u)' => InService(u)
             /\ contexts'[u] = contexts[u]
  <2>1. Unserved(u)' => Unserved(u)
    <3>1. PacketsOf(u)' = PacketsOf(u) /\ HoldersOf(u)' = HoldersOf(u)
      BY <1>4 DEF PacketsOf, HoldersOf
    <3>2. \A v \in HoldersOf(u) : secured'[v] = secured[v]
      BY <1>0, <1>1, <1>3, <1>8 DEF HoldersOf
    <3> QED
      BY <1>4, <3>1, <3>2 DEF Unserved
  <2>2. InService(u)' => InService(u)
    BY <1>4 DEF InService, PacketsOf, HoldersOf
  <2> QED
    <3>1. contexts'[u] = contexts[u]
      BY <1>0, <1>3, <1>8
    <3> QED
      BY <2>1, <2>2, <3>1
<1>9. Contexts'
  <2> SUFFICES ASSUME NEW u \in Transports
               PROVE  /\ contexts'[u] \in {0, 1}
                      /\ Unserved(u)' => contexts'[u] = 0
                      /\ InService(u)' => contexts'[u] = 1
    BY DEF Contexts
  <2>1. CASE u = t
    BY <1>6, <1>7, <2>1
  <2>2. CASE u # t
    BY <1>8, <2>2 DEF Contexts
  <2> QED
    BY <2>1, <2>2
<1>10. Secured'
  <2> SUFFICES ASSUME NEW v \in Workers, secured'[v] # None
               PROVE  pc'[v] = "accept" /\ secured'[v] = obj'[v] /\ contexts'[obj'[v]] = 1
    BY DEF Secured
  <2>1. CASE v = w
    BY <1>0, <1>1, <1>3, <1>4, <1>5, <1>6, <2>1
  <2>2. CASE v # w
    <3>1. /\ pc[v] = "accept" /\ secured[v] = obj[v] /\ contexts[obj[v]] = 1
          /\ secured'[v] = secured[v]
      BY <1>0, <1>3, <2>2 DEF Secured
    <3>2. obj[v] \in Transports /\ obj[v] # t
      BY <1>0, <1>1, <2>2, <3>1, AcceptorAlone
    <3> QED
      BY <1>0, <1>3, <1>4, <3>1, <3>2
  <2> QED
    BY <2>1, <2>2
<1> QED
  BY <1>3, <1>9, <1>10

(* The second reading finds the transport of the first.                    *)
LEMMA AcceptBeginKeeps ==
  ASSUME SSLTypeOK, OwnInv, Contexts, Secured, ~overrun, ~overrun',
         NEW w \in Workers, SSLAcceptBegin(w)
  PROVE  Contexts' /\ Secured'
<1>0. /\ TypeOK /\ contexts \in [Transports -> Nat]
      /\ secured \in [Workers -> Transports \cup {None}]
      /\ pc \in [Threads -> Labels] /\ obj \in [Threads -> Transports \cup {None}]
      /\ Workers \subseteq Threads
  BY DEF SSLTypeOK, TypeOK, ThreadsOK, Threads
<1>1. PICK t \in Transports :
        /\ t = obj[w] /\ w \in HoldersOf(t) /\ life[t] = "live" /\ t \notin accepting
        /\ recvs[t] = 0 /\ PacketsOf(t) = {} /\ \A v \in HoldersOf(t) : v = w
  BY <1>0, AcceptorAlone DEF SSLAcceptBegin, AcceptBegin
<1>2. accepted = t
  BY <1>0, <1>1, AcceptorAlone DEF SSLAcceptBegin, AcceptBegin
<1>3. contexts[t] = 1
  BY <1>1 DEF SSLAcceptBegin, Accepted, Secured
<1>4. /\ obj' = [obj EXCEPT ![w] = t] /\ pc' = [pc EXCEPT ![w] = "next"]
      /\ UNCHANGED <<port, life, recvs, accepting, contexts>>
      /\ secured' = [secured EXCEPT ![w] = None]
  BY <1>1, <1>2, ConstantsAssumption
     DEF SSLAcceptBegin, AcceptBegin, AfterContext, heapVars, netVars
<1>5. obj' = obj
  BY <1>0, <1>1, <1>4
<1>6. ASSUME NEW v \in Workers, v # w PROVE pc'[v] = pc[v] /\ secured'[v] = secured[v]
  BY <1>0, <1>4, <1>6
<1>7. ASSUME NEW u \in Transports
      PROVE  PacketsOf(u)' = PacketsOf(u) /\ HoldersOf(u)' = HoldersOf(u)
  BY <1>4, <1>5 DEF PacketsOf, HoldersOf
<1>8. pc'[w] = "next" /\ secured'[w] = None
  BY <1>0, <1>4
<1>9. Contexts'
  <2> SUFFICES ASSUME NEW u \in Transports
               PROVE  /\ contexts'[u] \in {0, 1}
                      /\ Unserved(u)' => contexts'[u] = 0
                      /\ InService(u)' => contexts'[u] = 1
    BY DEF Contexts
  <2>1. CASE u = t
    <3>1. ~Unserved(u)'
      BY <1>1, <1>4, <1>7, <1>8, <2>1 DEF Unserved
    <3> QED
      BY <1>3, <1>4, <2>1, <3>1
  <2>2. CASE u # t
    <3>1. w \notin HoldersOf(u)
      BY <1>1, <2>2 DEF HoldersOf
    <3>2. \A v \in HoldersOf(u) : pc'[v] = pc[v] /\ secured'[v] = secured[v]
      BY <1>6, <3>1 DEF HoldersOf
    <3>3. Unserved(u)' => Unserved(u)
      BY <1>4, <1>7, <3>2 DEF Unserved
    <3>4. InService(u)' => InService(u)
      BY <1>4, <1>7, <3>2 DEF InService
    <3> QED
      BY <1>4, <3>3, <3>4 DEF Contexts
  <2> QED
    BY <2>1, <2>2
<1>10. Secured'
  BY <1>4, <1>5, <1>6, <1>8 DEF Secured
<1> QED
  BY <1>9, <1>10

-----------------------------------------------------------------------------
(* Until a slot is read too early, SSLProcessingRecv finds the context of  *)
(* its transport, and every step is one of TCPServer or a stutter.         *)
LEMMA NoBareContext ==
  ASSUME TypeOK, OwnInv, Contexts, ~overrun, NEW w \in Workers
  PROVE  ~SSLProcessingRecvFails(w)
<1> SUFFICES ASSUME SSLProcessingRecvFails(w) PROVE FALSE
  OBVIOUS
<1>1. pc[w] = "complete"
  BY DEF SSLProcessingRecvFails, At
<1>2. obj[w] \in Transports
  BY <1>1 DEF OwnInv, StackInv, InHandler, Handling
<1>3. contexts[obj[w]] = 1
  BY <1>1, <1>2 DEF Contexts, InService, HoldersOf, Handling
<1> QED
  BY <1>3 DEF SSLProcessingRecvFails

(* A step from a state in which no slot has been read too early.           *)
LEMMA CalmStep ==
  ASSUME SSLTypeOK, OwnInv, CtxInv, SSLNext, ~overrun'
  PROVE  /\ ~overrun
         /\ Next \/ UNCHANGED vars
         /\ Contexts' /\ Secured'
<1>0. TypeOK /\ overrun \in BOOLEAN
  BY DEF SSLTypeOK, TypeOK, AcceptOK
<1>1. ~overrun
  BY <1>0 DEF SSLNext, SSLWorkerStep, Accept, SSLAcceptBegin, SSLProcessingRecvFails,
     Inherited, WorkerStep, RecvPacket, AcceptBegin, AcceptNext, StoreAccepted,
     AddAccepted, OnRecived, MainStep, TimerStep, NetworkStep, KernelAccept,
     ClientRequest
<1>2. Contexts /\ Secured
  BY <1>1 DEF CtxInv
<1>3. ASSUME NEW w \in Workers, Accept(w)
      PROVE  UNCHANGED vars /\ Contexts' /\ Secured'
  BY <1>1, <1>2, <1>3, AcceptKeeps
<1>4. ASSUME NEW w \in Workers, SSLAcceptBegin(w)
      PROVE  Next /\ Contexts' /\ Secured'
  BY <1>1, <1>2, <1>4, AcceptBeginKeeps DEF SSLAcceptBegin, Next, WorkerStep
<1>5. ASSUME UNCHANGED sslVars,
             \/ \E w \in Workers : WorkerStep(w) /\ pc[w] # "accept"
             \/ MainStep \/ TimerStep \/ NetworkStep
      PROVE  Next /\ Contexts' /\ Secured'
  <2>1. Next
    BY <1>5 DEF Next
  <2>2. Onward
    BY <1>0, <1>2, <1>5, NextOn DEF sslVars
  <2>3. \A v \in Workers : pc[v] = "accept" => pc'[v] = "accept" /\ obj'[v] = obj[v]
    BY <1>0, <1>5, AcceptersStay
  <2> QED
    BY <1>2, <1>5, <2>1, <2>2, <2>3, OnwardKeeps
<1> QED
  BY <1>0, <1>1, <1>2, <1>3, <1>4, <1>5, NoBareContext
     DEF SSLNext, SSLWorkerStep, Inherited

SSLInv == SSLTypeOK /\ OwnInv /\ CtxInv

(* The invariant holds initially.                                          *)
LEMMA SSLInvInit ==
  ASSUME SSLInit PROVE SSLInv
<1>1. TypeOK /\ OwnInv
  BY InitTypes, InitOwned DEF SSLInit
<1>2. SSLTypeOK
  BY <1>1 DEF SSLInit, SSLTypeOK
<1>3. \A t \in Transports : ~InService(t)
  <2> SUFFICES ASSUME NEW t \in Transports PROVE ~InService(t)
    OBVIOUS
  <2>1. recvs[t] = 0 /\ PacketsOf(t) = {}
    BY DEF SSLInit, Init, PacketsOf
  <2>2. HoldersOf(t) = {}
    BY ConstantsAssumption DEF SSLInit, Init, HoldersOf, Threads
  <2> QED
    BY <2>1, <2>2 DEF InService
<1>4. CtxInv
  <2>1. Contexts
    BY <1>3 DEF SSLInit, Contexts
  <2>2. Secured
    BY DEF SSLInit, Secured
  <2> QED
    BY <2>1, <2>2 DEF CtxInv
<1> QED
  BY <1>1, <1>2, <1>4 DEF SSLInv

(* A step that leaves TCPServer's variables alone keeps OwnInv.            *)
LEMMA SameVars ==
  ASSUME OwnInv, UNCHANGED vars PROVE OwnInv'
<1>1. UNCHANGED <<threadVars, port, recvs, life, accepting, ov, overrun>>
  BY DEF vars, baseVars, heapVars, netVars, acceptVars
<1> QED
  BY <1>1, Still

(* A step keeps the invariant, and is one of TCPServer or an overrun.      *)
LEMMA SSLInvStep ==
  ASSUME SSLInv, [SSLNext]_allVars PROVE SSLInv' /\ [Next \/ overrun']_vars
<1>0. SSLTypeOK /\ OwnInv /\ CtxInv /\ TypeOK
  BY DEF SSLInv, SSLTypeOK
<1>1. CASE UNCHANGED allVars
  <2>1. UNCHANGED vars /\ UNCHANGED sslVars
    BY <1>1 DEF allVars
  <2>2. UNCHANGED <<pc, obj, port, life, accepting, recvs, ov, overrun, secured, contexts>>
    BY <2>1 DEF vars, baseVars, threadVars, heapVars, netVars, acceptVars, sslVars
  <2>3. SSLTypeOK'
    BY <1>0, <2>1 DEF vars, baseVars, threadVars, heapVars, mapVars, timerVars, netVars,
       acceptVars, sslVars, SSLTypeOK, TypeOK, ThreadsOK, HeapOK, MapOK, NetOK, AcceptOK
  <2>4. OwnInv'
    BY <1>0, <2>1, SameVars
  <2>5. CtxInv'
    BY <1>0, <2>2 DEF CtxInv, Contexts, Secured, Unserved, InService, PacketsOf, HoldersOf
  <2> QED
    BY <2>1, <2>3, <2>4, <2>5 DEF SSLInv
<1>2. CASE SSLNext /\ overrun'
  BY <1>0, <1>2, SSLTypes DEF SSLInv, OwnInv, CtxInv
<1>3. CASE SSLNext /\ ~overrun'
  <2>1. SSLTypeOK'
    BY <1>0, <1>3, SSLTypes
  <2>2. (Next \/ UNCHANGED vars) /\ Contexts' /\ Secured'
    BY <1>0, <1>3, CalmStep
  <2>3. OwnInv'
    BY <1>0, <2>2, OwnStep, SameVars
  <2> QED
    BY <2>1, <2>2, <2>3 DEF SSLInv, CtxInv
<1> QED
  BY <1>1, <1>2, <1>3

-----------------------------------------------------------------------------
(* The ownership of transports (OwnInv of TCPServerProofs) and the stage   *)
(* of their contexts, for every SSL listener (Transport.cpp:916-927).      *)
THEOREM SSLInvariant == SSLSpec => []SSLInv
<1>1. SSLInv /\ [SSLNext]_allVars => SSLInv'
  BY SSLInvStep
<1> QED
  BY <1>1, SSLInvInit, PTL DEF SSLSpec

(* The SSL listener implements TCPServer until an accept handler reads     *)
(* m_AcceptedTransport too early (Transport.h:140-146).                    *)
THEOREM SSLImplements == SSLSpec => ImplementsTCPServer
<1>1. SSLInit => Init
  BY DEF SSLInit
<1>2. SSLInv /\ [SSLNext]_allVars => [Next \/ overrun']_vars
  BY SSLInvStep
<1> QED
  BY <1>1, <1>2, SSLInvariant, PTL DEF SSLSpec, ImplementsTCPServer

(* Each SSL transport is handled by one worker at a time, and by none      *)
(* while a receive writes its buffer (Transport.cpp:353-380).              *)
THEOREM SSLExclusive == SSLSpec => []Exclusive
<1>1. SSLInv => Exclusive
  BY DEF SSLInv, OwnInv, Exclusive
<1> QED
  BY <1>1, SSLInvariant, PTL

(* No handler runs on a deleted SSL transport or follows the pointers of a *)
(* context that was never created (base.cpp:149, Transport.cpp:572).       *)
THEOREM SSLNoUseAfterFree == SSLSpec => []NoUseAfterFree
<1>1. SSLInv => NoUseAfterFree
  BY DEF SSLInv, OwnInv, StackInv, NoUseAfterFree
<1> QED
  BY <1>1, SSLInvariant, PTL
-----------------------------------------------------------------------------
(* The two readings of m_AcceptedTransport.  Pipe holds the transports     *)
(* whose accept is outstanding, completed or at the start of its handler;  *)
(* a thread that has still to store its transport is the reason why no     *)
(* other can be among them.                                                *)
Storing == {v \in Threads : pc[v] = "store"}

Pipe ==
  accepting \cup {port[i].io : i \in ListenerPackets}
            \cup {ov[w] : w \in {w \in Threads : pc[w] = "accept"}}

Slot ==
  /\ SingleAcceptEx
  /\ accepted # None => life[accepted] # "unallocated"
  /\ AtMostOne(Storing)
  /\ \A v \in Storing :
       /\ made[v] \in Transports
       /\ made[v] # accepted
       /\ life[made[v]] # "unallocated"
       /\ Pipe \subseteq {made[v]}
       /\ \A w \in Threads : pc[w] # "next"

(* A step that brings nothing into the pipe and starts no store.           *)
LEMMA SlotCalm ==
  ASSUME Slot, SingleAcceptEx', Pipe' \subseteq Pipe, Storing' \subseteq Storing,
         UNCHANGED <<accepted, made>>,
         \A w \in Threads : pc'[w] = "next" => pc[w] = "next",
         \A t \in Transports : life'[t] = "unallocated" => life[t] = "unallocated",
         accepted \in Transports \cup {None}
  PROVE  Slot'
BY DEF Slot, AtMostOne

(* One thread moves on, none to or from an accept.                         *)
LEMMA SlotMoves ==
  ASSUME TypeOK, Slot, SingleAcceptEx', NEW w \in Threads,
         NEW l \in Labels \ {"accept", "next", "store"},
         pc' = [pc EXCEPT ![w] = l],
         UNCHANGED <<port, accepted, accepting, ov, made>>,
         \A t \in Transports : life'[t] = "unallocated" => life[t] = "unallocated"
  PROVE  Slot'
<1>0. pc \in [Threads -> Labels] /\ accepted \in Transports \cup {None}
  BY DEF TypeOK, ThreadsOK, AcceptOK
<1>1. \A v \in Threads : pc'[v] \in {"accept", "next", "store"} => pc'[v] = pc[v]
  BY <1>0
<1>2. Pipe' \subseteq Pipe
  BY <1>1 DEF Pipe, ListenerPackets
<1>3. Storing' \subseteq Storing
  BY <1>1 DEF Storing
<1> QED
  BY <1>0, <1>1, <1>2, <1>3, SlotCalm

(* Nobody moves, and nothing is posted.                                    *)
LEMMA SlotStill ==
  ASSUME TypeOK, Slot, UNCHANGED <<pc, port, life, accepted, accepting, ov, made>>
  PROVE  Slot'
BY DEF Slot, Pipe, Storing, SingleAcceptEx, ListenerPackets, Accepters, AtMostOne

(* A worker takes a packet: the slot stays with the pipe of accepts.       *)
LEMMA SlotRecv ==
  ASSUME TypeOK, Slot, SingleAcceptEx', NEW w \in Workers, RecvPacket(w)
  PROVE  Slot'
<1>0. /\ NetOK /\ pc \in [Threads -> Labels] /\ accepted \in Transports \cup {None}
      /\ ov \in [Threads -> Transports \cup {None}] /\ w \in Threads
  BY DEF TypeOK, ThreadsOK, AcceptOK, Threads
<1>1. /\ port # <<>> /\ port' = Tail(port) /\ UNCHANGED <<life, accepted, accepting, made>>
      /\ ov' = [ov EXCEPT ![w] = IF pc'[w] = "accept" THEN Head(port).io ELSE None]
  BY DEF RecvPacket, Recv, heapVars
<1>2. /\ 1 \in DOMAIN port /\ port[1] = Head(port)
      /\ \A i \in DOMAIN port' : i + 1 \in DOMAIN port /\ port'[i] = port[i + 1]
  BY <1>0, <1>1, AfterTake
<1>3. /\ \A v \in Threads \ {w} : pc'[v] = pc[v] /\ ov'[v] = ov[v]
      /\ pc'[w] \notin {"next", "store"}
      /\ pc'[w] = "accept" => Head(port).key = Listener /\ ov'[w] = Head(port).io
  BY <1>0, <1>1 DEF RecvPacket, Recv, threadVars
<1>4. Pipe' \subseteq Pipe
  <2> SUFFICES ASSUME NEW t \in Pipe' PROVE t \in Pipe
    OBVIOUS
  <2>1. CASE t \in accepting'
    BY <1>1, <2>1 DEF Pipe
  <2>2. ASSUME NEW i \in ListenerPackets', t = port'[i].io PROVE t \in Pipe
    BY <1>2, <2>2 DEF Pipe, ListenerPackets
  <2>3. ASSUME NEW v \in Threads, pc'[v] = "accept", t = ov'[v] PROVE t \in Pipe
    <3>1. CASE v = w
      BY <1>2, <1>3, <2>3, <3>1 DEF Pipe, ListenerPackets
    <3>2. CASE v # w
      BY <1>3, <2>3, <3>2 DEF Pipe
    <3> QED
      BY <3>1, <3>2
  <2> QED
    BY <2>1, <2>2, <2>3 DEF Pipe
<1>5. Storing' \subseteq Storing /\ \A v \in Threads : pc'[v] = "next" => pc[v] = "next"
  BY <1>3 DEF Storing
<1> QED
  BY <1>0, <1>1, <1>4, <1>5, SlotCalm

(* The kernel completes an operation.                                      *)
LEMMA SlotPost ==
  ASSUME TypeOK, Slot, SingleAcceptEx', NEW t \in Transports, NEW p \in Packet,
         p.io = t, p.key = Listener => t \in accepting,
         port' = Append(port, p), accepting' \subseteq accepting,
         UNCHANGED <<pc, life, accepted, ov, made>>
  PROVE  Slot'
<1>0. NetOK /\ accepted \in Transports \cup {None}
  BY DEF TypeOK, AcceptOK
<1>1. \A i \in DOMAIN port' :
        (i \in DOMAIN port /\ port'[i] = port[i]) \/ port'[i] = p
  BY <1>0, AfterPost
<1>2. Pipe' \subseteq Pipe
  BY <1>1 DEF Pipe, ListenerPackets
<1> QED
  BY <1>0, <1>2, SlotCalm DEF Storing

(* The handler leaves the pipe when it takes the transport it was called   *)
(* for, and then nobody has one to store.                                  *)
LEMMA SlotAcceptBegin ==
  ASSUME TypeOK, Slot, SingleAcceptEx', ~overrun', NEW w \in Workers, AcceptBegin(w)
  PROVE  Slot'
<1>0. /\ pc \in [Threads -> Labels] /\ accepted \in Transports \cup {None}
      /\ ov \in [Threads -> Transports \cup {None}] /\ w \in Threads
      /\ overrun \in BOOLEAN
  BY DEF TypeOK, ThreadsOK, AcceptOK, Threads
<1>1. accepted = ov[w] /\ pc[w] = "accept"
  BY <1>0 DEF AcceptBegin
<1>2. ov[w] \in Pipe
  BY <1>0, <1>1 DEF Pipe
<1>3. Storing = {}
  BY <1>1, <1>2 DEF Slot
<1>4. /\ \A v \in Threads \ {w} : pc'[v] = pc[v]
      /\ pc'[w] # "store"
      /\ UNCHANGED <<accepted, life>>
  BY <1>0 DEF AcceptBegin, GoWild, AfterContext, heapVars
<1>5. Storing' = {}
  BY <1>0, <1>3, <1>4 DEF Storing
<1> QED
  BY <1>4, <1>5 DEF Slot, AtMostOne

(* A new AcceptEx: the pipe was empty, and holds the new transport alone.  *)
LEMMA SlotAcceptNext ==
  ASSUME TypeOK, Slot, SingleAcceptEx', NEW w \in Threads, AcceptNext(w)
  PROVE  Slot'
<1>0. /\ pc \in [Threads -> Labels] /\ accepted \in Transports \cup {None}
      /\ made \in [Threads -> Transports \cup {None}]
      /\ life \in [Transports -> {"unallocated", "live", "deleted"}]
  BY DEF TypeOK, ThreadsOK, HeapOK, AcceptOK
<1>1. pc[w] = "next" /\ w \in Accepters /\ Storing = {}
  BY DEF AcceptNext, Accepters, Slot
<1>2. \A v \in Accepters : v = w
  BY <1>1 DEF Slot, SingleAcceptEx, AtMostOne
<1>3. UNCHANGED <<port, ov, accepted>>
  BY DEF AcceptNext
<1>4. CASE pc' = [pc EXCEPT ![w] = "dead"] /\ UNCHANGED <<accepting, made>>
  <2>1. \A t \in Transports : life'[t] = "unallocated" => life[t] = "unallocated"
    BY <1>0 DEF AcceptNext
  <2> QED
    BY <1>3, <1>4, <2>1, SlotMoves DEF Labels
<1>5. ASSUME NEW t \in Transports, life[t] = "unallocated",
             life' = [life EXCEPT ![t] = "live"],
             accepting' = accepting \cup {t}, made' = [made EXCEPT ![w] = t],
             pc' = [pc EXCEPT ![w] = "store"]
      PROVE  Slot'
  <2>1. Pipe' = {t}
    <3>1. accepting = {} /\ ListenerPackets = {}
      BY <1>1 DEF Slot, SingleAcceptEx
    <3>2. ListenerPackets' = {}
      BY <1>3, <3>1 DEF ListenerPackets
    <3>3. \A v \in Threads : pc'[v] # "accept"
      <4> SUFFICES ASSUME NEW v \in Threads, pc'[v] = "accept" PROVE FALSE
        OBVIOUS
      <4>1. v # w /\ pc[v] = "accept"
        BY <1>0, <1>5
      <4> QED
        BY <1>2, <4>1 DEF Accepters
    <3> QED
      BY <1>5, <3>1, <3>2, <3>3 DEF Pipe
  <2>2. Storing' = {w}
    BY <1>0, <1>1, <1>5 DEF Storing
  <2>3. \A v \in Threads : pc'[v] # "next"
    <3> SUFFICES ASSUME NEW v \in Threads, pc'[v] = "next" PROVE FALSE
      OBVIOUS
    <3>1. v # w /\ pc[v] = "next"
      BY <1>0, <1>5
    <3> QED
      BY <1>2, <3>1 DEF Accepters
  <2>4. made'[w] = t /\ t # accepted /\ life'[t] # "unallocated"
    BY <1>0, <1>5, ConstantsAssumption DEF Slot
  <2>5. accepted' # None => life'[accepted'] # "unallocated"
    BY <1>0, <1>3, <1>5 DEF Slot
  <2>6. AtMostOne(Storing)'
    BY <2>2 DEF AtMostOne
  <2>7. \A v \in Storing' : v = w
    BY <2>2
  <2> QED
    BY <1>3, <2>1, <2>3, <2>4, <2>5, <2>6, <2>7 DEF Slot
<1> QED
  BY <1>4, <1>5 DEF AcceptNext, Die, Goto

(* The slot is stored: it names the transport of the pipe.                 *)
LEMMA SlotStore ==
  ASSUME TypeOK, Slot, SingleAcceptEx', NEW w \in Threads, StoreAccepted(w)
  PROVE  Slot'
<1>0. pc \in [Threads -> Labels] /\ w \in Storing
  BY DEF TypeOK, ThreadsOK, StoreAccepted, Storing
<1>1. /\ accepted' = made[w] /\ UNCHANGED life
      /\ pc'[w] # "store" /\ \A v \in Threads \ {w} : pc'[v] = pc[v]
  BY <1>0 DEF StoreAccepted, Goto, AfterStore, heapVars
<1>2. Storing' = {}
  BY <1>0, <1>1 DEF Storing, Slot, AtMostOne
<1>3. life'[accepted'] # "unallocated"
  BY <1>0, <1>1 DEF Slot
<1> QED
  BY <1>2, <1>3 DEF Slot, AtMostOne

(* Every step of TCPServer that is no overrun keeps the slot.              *)
LEMMA SlotStep ==
  ASSUME TypeOK, Slot, Next, ~overrun' PROVE Slot'
<1>0. /\ pc \in [Threads -> Labels] /\ Workers \subseteq Threads /\ Main \in Threads
      /\ life \in [Transports -> {"unallocated", "live", "deleted"}]
      /\ {"wait", "add", "done", "complete", "callback", "rearm", "remove", "erase",
          "dead", "wild"} \subseteq Labels \ {"accept", "next", "store"}
  BY DEF TypeOK, ThreadsOK, HeapOK, Threads, Labels
<1>1. SingleAcceptEx'
  BY SingleAcceptStep DEF Slot
<1>2. ASSUME NEW w \in Workers, AddAccepted(w) \/ OnRecived(w) PROVE Slot'
  BY <1>0, <1>1, <1>2, SlotMoves
     DEF AddAccepted, OnRecived, AfterAnswer, Goto, Die, heapVars, acceptVars
<1>3. ASSUME NEW w \in Workers, UNCHANGED acceptVars,
             Complition(w) \/ StartReceiving(w) \/ EraseTransport(w) \/ UseAfterFree(w)
      PROVE  Slot'
  BY <1>0, <1>1, <1>3, SlotMoves
     DEF Complition, StartReceiving, EraseTransport, UseAfterFree, Leave, Return, Goto,
         Die, GoWild, heapVars, acceptVars
<1>4. ASSUME NEW w \in Workers, UNCHANGED acceptVars, RemoveTransport(w) PROVE Slot'
  <2>1. \A t \in Transports : life'[t] = "unallocated" => life[t] = "unallocated"
    BY <1>0, <1>4 DEF RemoveTransport
  <2> QED
    BY <1>0, <1>1, <1>4, <2>1, SlotMoves DEF RemoveTransport, Return, Goto, acceptVars
<1>5. ASSUME NEW t \in Transports, KernelAccept(t) PROVE Slot'
  <2>1. PICK ok \in BOOLEAN, n \in Nat :
               port' = Append(port, Completion(Listener, t, ok, n))
    BY <1>5, KernelAcceptPosts
  <2>2. t \in accepting /\ accepting' \subseteq accepting
        /\ UNCHANGED <<pc, life, accepted, ov, made>>
    BY <1>5 DEF KernelAccept, threadVars, heapVars
  <2>3. PICK p \in Packet : p.io = t /\ port' = Append(port, p)
    BY <2>1, CompletionPacket DEF Completion
  <2> QED
    BY <1>1, <2>2, <2>3, SlotPost
<1>6. ASSUME NEW t \in Transports, KernelRecv(t), UNCHANGED acceptVars PROVE Slot'
  <2>1. PICK ok \in BOOLEAN, n \in Nat : port' = Append(port, Completion(t, t, ok, n))
    BY <1>6, KernelRecvPosts
  <2>2. PICK p \in Packet :
          p.io = t /\ p.key # Listener /\ port' = Append(port, p)
    BY <2>1, CompletionPacket, ConstantsAssumption DEF Completion
  <2>3. UNCHANGED <<pc, life, accepted, accepting, ov, made>>
    BY <1>6 DEF KernelRecv, threadVars, heapVars, acceptVars
  <2> QED
    BY <1>1, <2>2, <2>3, SlotPost
<1>7. ASSUME NEW t \in Transports,
             \/ ClientRequest(t)
             \/ (PeerClose(t) \/ PeerReset(t)) /\ UNCHANGED acceptVars
      PROVE  Slot'
  BY <1>7, SlotStill DEF ClientRequest, PeerClose, PeerReset, threadVars, heapVars,
     acceptVars
<1>8. ASSUME TimerStep PROVE Slot'
  BY <1>8, SlotStill DEF TimerStep, CopyTransports, PrintTransport, threadVars, heapVars,
     acceptVars
<1> QED
  BY <1>0, <1>1, <1>2, <1>3, <1>4, <1>5, <1>6, <1>7, <1>8, SlotRecv, SlotAcceptBegin,
     SlotAcceptNext, SlotStore DEF Next, WorkerStep, MainStep, NetworkStep

(* Nobody stores the slot between the two readings.                        *)
Agreed == \A w \in Workers : secured[w] \in {None, accepted}

HandInv == ~overrun => Slot /\ Agreed

(* Both readings of the slot agree after every step.                       *)
LEMMA AgreedStep ==
  ASSUME SSLTypeOK, OwnInv, Secured, Slot, Agreed, SSLNext, ~overrun, ~overrun'
  PROVE  Agreed'
<1>0. /\ TypeOK /\ secured \in [Workers -> Transports \cup {None}]
      /\ ov \in [Threads -> Transports \cup {None}] /\ Workers \subseteq Threads
  BY DEF SSLTypeOK, TypeOK, AcceptOK, Threads
<1>1. ASSUME NEW w \in Workers, Accept(w) PROVE Agreed'
  <2>1. accepted' = accepted /\ secured' \in {secured, [secured EXCEPT ![w] = accepted]}
    BY <1>1 DEF Accept, acceptVars, sslVars
  <2> QED
    BY <1>0, <2>1 DEF Agreed
<1>2. ASSUME NEW w \in Workers, SSLAcceptBegin(w) PROVE Agreed'
  <2>1. accepted' = accepted /\ secured' = [secured EXCEPT ![w] = None]
    BY <1>2 DEF SSLAcceptBegin, AcceptBegin
  <2> QED
    BY <1>0, <2>1 DEF Agreed
<1>3. ASSUME NEW v \in Threads, StoreAccepted(v), UNCHANGED secured PROVE Agreed'
  <2>1. \A w \in Workers : secured[w] = None
    <3> SUFFICES ASSUME NEW w \in Workers, secured[w] # None PROVE FALSE
      OBVIOUS
    <3>1. pc[w] = "accept" /\ ov[w] = accepted
      BY <1>0, AcceptorAlone DEF Secured, Agreed
    <3>2. ov[w] \in Pipe
      BY <1>0, <3>1 DEF Pipe
    <3>3. v \in Storing
      BY <1>3 DEF StoreAccepted, Storing
    <3> QED
      BY <3>1, <3>2, <3>3 DEF Slot
  <2> QED
    BY <1>3, <2>1 DEF Agreed
<1>4. ASSUME UNCHANGED <<accepted, secured>> PROVE Agreed'
  BY <1>4 DEF Agreed
<1>5. ASSUME NEW w \in Workers, WorkerStep(w), pc[w] # "accept"
      PROVE  StoreAccepted(w) \/ UNCHANGED accepted
  BY <1>5 DEF WorkerStep, RecvPacket, AcceptBegin, AcceptNext, AddAccepted, OnRecived,
     acceptVars
<1>6. ASSUME MainStep \/ TimerStep \/ NetworkStep
      PROVE  StoreAccepted(Main) \/ UNCHANGED accepted
  BY <1>6 DEF MainStep, AcceptNext, TimerStep, NetworkStep, KernelAccept, ClientRequest,
     acceptVars
<1>7. UNCHANGED sslVars => UNCHANGED secured
  BY DEF sslVars
<1>8. Main \in Threads
  BY DEF Threads
<1>9. ASSUME NEW w \in Workers, SSLProcessingRecvFails(w) PROVE Agreed'
  BY <1>4, <1>9 DEF SSLProcessingRecvFails, acceptVars, sslVars
<1>10. ASSUME NEW w \in Workers, Inherited(w) PROVE Agreed'
  BY <1>0, <1>3, <1>4, <1>5, <1>7, <1>10 DEF Inherited
<1> QED
  BY <1>1, <1>2, <1>3, <1>4, <1>6, <1>7, <1>8, <1>9, <1>10 DEF SSLNext, SSLWorkerStep

(* A step of the SSL listener keeps the slot and the agreement.            *)
LEMMA HandStep ==
  ASSUME SSLInv, HandInv, [SSLNext]_allVars PROVE HandInv'
<1>0. SSLTypeOK /\ OwnInv /\ CtxInv /\ TypeOK
  BY DEF SSLInv, SSLTypeOK
<1>1. CASE UNCHANGED allVars
  <2>1. UNCHANGED <<pc, port, life, accepted, accepting, ov, made, overrun, secured>>
    BY <1>1 DEF allVars, vars, baseVars, threadVars, heapVars, acceptVars, sslVars
  <2> QED
    BY <1>0, <2>1, SlotStill DEF HandInv, Agreed
<1>2. CASE SSLNext /\ ~overrun'
  <2>1. ~overrun /\ (Next \/ UNCHANGED vars)
    BY <1>0, <1>2, CalmStep
  <2>2. Slot /\ Agreed /\ Secured
    BY <1>0, <2>1 DEF HandInv, CtxInv
  <2>3. Agreed'
    BY <1>0, <1>2, <2>1, <2>2, AgreedStep
  <2>4. ASSUME UNCHANGED vars PROVE Slot'
    BY <1>0, <2>2, <2>4, SlotStill DEF vars, baseVars, threadVars, heapVars, acceptVars
  <2> QED
    BY <1>0, <1>2, <2>1, <2>2, <2>3, <2>4, SlotStep DEF HandInv
<1> QED
  BY <1>1, <1>2 DEF HandInv

(* Nothing is stored and nothing secured initially.                        *)
LEMMA HandInit ==
  ASSUME SSLInit PROVE HandInv
<1>1. Storing = {} /\ accepted = None
  BY ConstantsAssumption DEF SSLInit, Init, Storing, Threads
<1>2. SingleAcceptEx
  BY ConstantsAssumption
     DEF SSLInit, Init, SingleAcceptEx, AtMostOne, ListenerPackets, Accepters, Threads
<1>3. Agreed
  BY DEF SSLInit, Agreed
<1> QED
  BY <1>1, <1>2, <1>3 DEF HandInv, Slot, AtMostOne

(* Every connection has its handshake exactly once, before its first byte  *)
(* is read, and Accept and the inherited Complition find the same          *)
(* transport, unless a slot is read too early (Transport.cpp:923-927).     *)
THEOREM HandshakeOnceAlways == SSLSpec => []HandshakeOnce
<1>1. SSLInv /\ HandInv => HandshakeOnce
  BY DEF SSLInv, CtxInv, Contexts, HandInv, Agreed, HandshakeOnce
<1>2. SSLInv /\ SSLInv' /\ HandInv /\ [SSLNext]_allVars => HandInv'
  BY HandStep
<1> QED
  BY <1>1, <1>2, HandInit, SSLInvariant, PTL DEF SSLSpec


-----------------------------------------------------------------------------
(* What a connection gets of TCPServer it gets of the SSL listener.        *)
LEMMA SSLService == SSLSpec => [](~overrun => ServiceInv)
<1>1. SSLSpec => Init /\ [][Next \/ overrun']_vars
  BY SSLImplements DEF ImplementsTCPServer
<1> QED
  BY <1>1, ServiceUntilOverrun

(* No byte of a flight or a record is lost or counted twice on its way to  *)
(* Bio[RECV] (Transport.cpp:353-380, 572-627).                             *)
THEOREM SSLBytesAccounted == SSLSpec => []BytesAccounted
<1>1. (~overrun => ServiceInv) => BytesAccounted
  BY ServiceSound DEF BytesAccounted
<1> QED
  BY <1>1, SSLService, PTL

(* An SSL connection that receives is in the map, so that its end finds it *)
(* (base.cpp:124, 146).                                                    *)
THEOREM SSLReceivingRegistered == SSLSpec => []ReceivingIsRegistered
<1>1. (~overrun => ServiceInv) => ReceivingIsRegistered
  BY ServiceSound DEF ReceivingIsRegistered
<1> QED
  BY <1>1, SSLService, PTL

(* No SSL connection that the network keeps is forgotten but one whose own *)
(* AcceptNext threw (Transport.cpp:159, 275-294, 923-927).                 *)
THEOREM SSLNeverForgotten == SSLSpec => []NoneForgotten
<1>1. (~overrun => ServiceInv) => NoneForgotten
  BY ServiceSound DEF NoneForgotten
<1> QED
  BY <1>1, SSLService, PTL

(* SSLServer's own steps leave the map alone and no thread in it.          *)
LEMMA SSLTableStep ==
  ASSUME SSLTypeOK, TableInv, SSLNext PROVE TableInv'
<1>0. TypeOK
  BY DEF SSLTypeOK
<1>1. ASSUME NEW w \in Workers, NEW l \in {"dead", "wild"},
             pc[w] # "erase", pc' = [pc EXCEPT ![w] = l], obj' = [obj EXCEPT ![w] = None],
             UNCHANGED <<heapVars, mapVars>>
      PROVE  TableInv'
  <2>1. l \in Labels \ {"erase"} /\ l \notin InHandler /\ l # "wait"
    BY <1>1 DEF Labels, InHandler, Handling
  <2> QED
    BY <1>0, <1>1, <2>1, TableAside DEF Threads, heapVars, mapVars
<1>2. ASSUME NEW w \in Workers, Accept(w) PROVE TableInv'
  <2>1. CASE UNCHANGED threadVars
    BY <1>2, <2>1, TableStill DEF Accept
  <2>2. CASE GoWild(w)
    BY <1>1, <1>2, <2>2 DEF Accept, GoWild
  <2> QED
    BY <1>2, <2>1, <2>2 DEF Accept
<1>3. ASSUME NEW w \in Workers, SSLProcessingRecvFails(w) PROVE TableInv'
  BY <1>1, <1>3 DEF SSLProcessingRecvFails, At, GoWild, Die
<1>4. ASSUME NEW w \in Workers, SSLAcceptBegin(w) \/ Inherited(w) PROVE TableInv'
  BY <1>0, <1>4, TableStep DEF SSLAcceptBegin, Inherited, Next, WorkerStep
<1>5. CASE MainStep \/ TimerStep \/ NetworkStep
  BY <1>0, <1>5, TableStep DEF Next
<1> QED
  BY <1>2, <1>3, <1>4, <1>5 DEF SSLNext, SSLWorkerStep

(* The map of an SSL listener is sound in every run, whichever slot was    *)
(* read too early (base.cpp:117-154).                                      *)
THEOREM SSLTableSound == SSLSpec => []TableSound
<1>1. SSLInit => TableInv
  BY ServiceInit DEF SSLInit, ServiceInv
<1>2. TableInv /\ UNCHANGED allVars => TableInv'
  BY TableStill DEF allVars, vars, baseVars
<1>3. SSLTypeOK /\ TableInv /\ [SSLNext]_allVars => TableInv'
  BY <1>2, SSLTableStep
<1>4. TableInv => TableSound
  BY DEF TableInv, EntryOK, TableSound
<1> QED
  BY <1>1, <1>3, <1>4, SSLTypeCorrect, PTL DEF SSLSpec
=============================================================================
