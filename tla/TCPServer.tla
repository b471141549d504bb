----------------------------- MODULE TCPServer ------------------------------
(***************************************************************************)
(* The server's listening socket on top of the engine of IOCPBase:         *)
(* TCPServer::StartAcceptor, Complition and AcceptNext, with the one slot  *)
(* m_AcceptedTransport that says which transport the outstanding AcceptEx  *)
(* will connect, and Server::OnRecived, which answers a request.           *)
(*                                                                         *)
(* AcceptNext issues AcceptEx first and stores m_AcceptedTransport after;  *)
(* the completion of that AcceptEx may be taken by another worker in       *)
(* between, which then reads the transport of the previous connection.     *)
(* The history variable overrun records that this has happened.            *)
(***************************************************************************)
EXTENDS IOCPBase

CONSTANTS
  RequestSize,     (* sizeof(uint32_t), the bytes of a request             *)
  MaxConnections,  (* bound: connections the clients open                  *)
  MaxCuts,         (* bound: connections on which an answer is cut         *)
  FailAccepts      (* TRUE when AcceptEx may fail                          *)

ASSUME ServerAssumption ==
  /\ RequestSize \in Nat \ {0}
  /\ MaxConnections \in Nat
  /\ MaxCuts \in Nat
  /\ FailAccepts \in BOOLEAN

VARIABLES
  accepted,   (* m_AcceptedTransport; None before its first store          *)
  accepting,  (* transports an outstanding AcceptEx will connect           *)
  ov,         (* the overlapped argument of a worker's accept handler      *)
  made,       (* the transport AcceptNext has created and not stored yet   *)
  abandoned,  (* history: the connections whose AcceptNext threw; and       *)
              (* Listener, once an accept has failed or could not be issued *)
  requested,  (* the client of a connection has sent a request that the     *)
              (* server has not consumed yet                                *)
  cut,        (* history: send took only a part of an answer on a           *)
              (* connection, whose client waits for the rest in vain        *)
  overrun     (* history: some accept handler read a slot of another accept *)

acceptVars == <<accepted, accepting, ov, made, abandoned>>
vars == <<baseVars, acceptVars, requested, cut, overrun>>

Labels == {"wait", "accept", "next", "store", "add", "done",
           "complete", "callback", "rearm", "remove", "erase", "dead", "wild"}

ThreadsOK ==
  /\ pc \in [Threads -> Labels]
  /\ obj \in [Threads -> Transports \cup {None}]
  /\ nbytes \in [Threads -> Nat]

HeapOK ==
  /\ life \in [Transports -> {"unallocated", "live", "deleted"}]
  /\ sock \in [Transports -> Sockets]
  /\ curr \in [Transports -> Nat]

MapOK ==
  /\ table \in [Sockets -> Transports \cup {None}]
  /\ lock \in Threads \cup {None}
  /\ snap \in SUBSET Transports
  /\ timer \in {"run", "wild"}

NetOK ==
  /\ port \in Seq(Packet)
  /\ recvs \in [Transports -> Nat]
  /\ peer \in [Transports -> {"none", "open", "closed", "reset"}]
  /\ inbound \in [Transports -> Nat]

AcceptOK ==
  /\ accepted \in Transports \cup {None}
  /\ accepting \in SUBSET Transports
  /\ ov \in [Threads -> Transports \cup {None}]
  /\ made \in [Threads -> Transports \cup {None}]
  /\ abandoned \in SUBSET (Transports \cup {Listener})
  /\ requested \in [Transports -> BOOLEAN]
  /\ cut \in [Transports -> BOOLEAN]
  /\ overrun \in BOOLEAN

TypeOK == ThreadsOK /\ HeapOK /\ MapOK /\ NetOK /\ AcceptOK

Init ==
  /\ port = <<>>
  /\ pc = [w \in Threads |-> IF w = Main THEN "next" ELSE "wait"]
  /\ obj = [w \in Threads |-> None]
  /\ nbytes = [w \in Threads |-> 0]
  /\ life = [t \in Transports |-> "unallocated"]
  /\ sock \in {[t \in Transports |-> s] : s \in Sockets}
  /\ curr = [t \in Transports |-> 0]
  /\ table = [s \in Sockets |-> None]
  /\ lock = None
  /\ snap = {}
  /\ timer = "run"
  /\ recvs = [t \in Transports |-> 0]
  /\ peer = [t \in Transports |-> "none"]
  /\ inbound = [t \in Transports |-> 0]
  /\ accepted = None
  /\ accepting = {}
  /\ ov = [w \in Threads |-> None]
  /\ made = [w \in Threads |-> None]
  /\ abandoned = {}
  /\ requested = [t \in Transports |-> FALSE]
  /\ cut = [t \in Transports |-> FALSE]
  /\ overrun = FALSE

-----------------------------------------------------------------------------
(* AcceptNext follows, whatever the connection brought.                    *)
AfterContextSkips(w) == IF nbytes[w] = 0 THEN "add" ELSE "next"  (* slip *)
AfterContext(w) == "next"

(* TCPServer::Complition starts: it takes m_AcceptedTransport for the      *)
(* connected transport and calls setsockopt on its socket.  (It reads the  *)
(* slot twice, lines 154 and 157; the first reading only gives setsockopt  *)
(* its socket, and both are one step here.)                                *)
AcceptBegin(w) ==
  /\ pc[w] = "accept"
  /\ overrun' = (overrun \/ accepted # ov[w])
  /\ IF accepted # None /\ life[accepted] = "live"
     THEN /\ obj' = [obj EXCEPT ![w] = accepted]
          /\ pc' = [pc EXCEPT ![w] = AfterContext(w)]
          /\ UNCHANGED nbytes
     ELSE GoWild(w)
  /\ ov' = [ov EXCEPT ![w] = None]
  /\ UNCHANGED <<port, heapVars, mapVars, timerVars, netVars,
                 accepted, accepting, made, abandoned, requested, cut>>

(* TCPServer::AcceptNext up to AcceptEx: a new socket, a new transport     *)
(* associated with the port, and the accept outstanding on it.  WSASocket  *)
(* has no handle left, or AcceptEx fails: an exception ends the thread,    *)
(* the connection it was accepting is never added or started, and nobody   *)
(* listens any more.                                                       *)
Abandons(w) == abandoned' = abandoned \cup ({obj[w]} \ {None}) \cup {Listener}

AcceptNext(w) ==
  /\ pc[w] = "next"
  /\ \/ /\ FreeSockets = {}
        /\ Die(w)
        /\ Abandons(w)
        /\ UNCHANGED <<life, sock, accepting, made>>
     \/ \E t \in Transports, s \in FreeSockets :
          /\ life[t] = "unallocated"
          /\ life' = [life EXCEPT ![t] = "live"]
          /\ sock' = [sock EXCEPT ![t] = s]
          /\ \/ /\ accepting' = accepting \cup {t}
                /\ made' = [made EXCEPT ![w] = t]
                /\ Goto(w, "store")
                /\ UNCHANGED abandoned
             \/ /\ FailAccepts
                /\ Die(w)
                /\ Abandons(w)
                /\ UNCHANGED <<accepting, made>>
  /\ UNCHANGED <<port, curr, mapVars, timerVars, netVars,
                 accepted, ov, requested, cut, overrun>>

(* AcceptNext returns to StartAcceptor or to Complition.                   *)
AfterStoreRepeats(w) == IF w = Main THEN "next" ELSE "add"  (* slip: a loop *)
AfterStore(w) == IF w = Main THEN "done" ELSE "add"

(* The last statement of AcceptNext.                                       *)
StoreAccepted(w) ==
  /\ pc[w] = "store"
  /\ accepted' = made[w]
  /\ made' = [made EXCEPT ![w] = None]
  /\ Goto(w, AfterStore(w))
  /\ UNCHANGED <<port, heapVars, mapVars, timerVars, netVars,
                 accepting, ov, abandoned, requested, cut, overrun>>

(* The connected transport enters the map; the bytes AcceptEx returned go  *)
(* through TCPTransport::Complition, none start its first receive.         *)
AddAccepted(w) ==
  /\ At(w, "add")
  /\ AddTransport(obj[w])
  /\ Goto(w, IF nbytes[w] > 0 THEN "complete" ELSE "rearm")
  /\ UNCHANGED <<port, heapVars, timerVars, netVars, acceptVars,
                 requested, cut, overrun>>

(* A whole request has arrived.                                            *)
RequestArrivedPart(t) == curr[t] > 0  (* slip *)
RequestArrived(t) == curr[t] >= RequestSize

(* OnRecived returns true, and StartReceiving follows.                     *)
AfterAnswerStops(w) == Return(w)  (* slip: false without RemoveTransport *)
AfterAnswer(w) == Goto(w, "rearm")

(* send takes only a part of an answer, or none of it (WSAEWOULDBLOCK).    *)
Cut(t) ==
  /\ Cardinality({u \in Transports : cut[u]}) < MaxCuts
  /\ cut' = [cut EXCEPT ![t] = TRUE]

(* Server::OnRecived: a whole request is consumed and answered; send may   *)
(* cut the answer, which is ignored and never made up for; on a reset      *)
(* connection it throws.  Less than a request waits for more.              *)
OnRecived(w) ==
  /\ At(w, "callback")
  /\ \/ /\ ~RequestArrived(obj[w])
        /\ Goto(w, "rearm")
        /\ UNCHANGED <<curr, requested, cut>>
     \/ /\ RequestArrived(obj[w])
        /\ curr' = [curr EXCEPT ![obj[w]] = @ - RequestSize]
        /\ \/ /\ peer[obj[w]] # "reset"
              /\ requested' = [requested EXCEPT ![obj[w]] = FALSE]
              /\ UNCHANGED cut \/ Cut(obj[w])
              /\ AfterAnswer(w)
           \/ /\ peer[obj[w]] = "reset"
              /\ Die(w)
              /\ UNCHANGED <<requested, cut>>
  /\ UNCHANGED <<port, life, sock, mapVars, timerVars, netVars,
                 acceptVars, overrun>>

-----------------------------------------------------------------------------
Connections == {t \in Transports : peer[t] # "none"}

(* AcceptEx has a receive buffer, so it completes with a connection's      *)
(* first bytes, with none if the client closes before sending any, or with *)
(* an error.                                                               *)
KernelAccept(t) ==
  /\ t \in accepting
  /\ Cardinality(Connections) < MaxConnections
  /\ accepting' = accepting \ {t}
  /\ \/ \E n \in 1 .. RequestSize :
          /\ port' = Append(port, Completion(Listener, t, TRUE, n))
          /\ peer' = [peer EXCEPT ![t] = "open"]
          /\ inbound' = [inbound EXCEPT ![t] = RequestSize - n]
          /\ requested' = [requested EXCEPT ![t] = TRUE]
     \/ /\ port' = Append(port, Completion(Listener, t, TRUE, 0))
        /\ peer' = [peer EXCEPT ![t] = "closed"]
        /\ UNCHANGED <<inbound, requested>>
     \/ /\ FailAccepts
        /\ port' = Append(port, Completion(Listener, t, FALSE, 0))
        /\ peer' = [peer EXCEPT ![t] = "reset"]
        /\ UNCHANGED <<inbound, requested>>
  /\ UNCHANGED <<threadVars, heapVars, mapVars, timerVars, recvs,
                 accepted, ov, made, abandoned, cut, overrun>>

(* The client sends its next request once it has seen the whole answer.    *)
ClientRequest(t) ==
  /\ peer[t] = "open"
  /\ ~requested[t] /\ ~cut[t]
  /\ requested' = [requested EXCEPT ![t] = TRUE]
  /\ inbound' = [inbound EXCEPT ![t] = @ + RequestSize]
  /\ UNCHANGED <<port, threadVars, heapVars, mapVars, timerVars, recvs, peer,
                 acceptVars, cut, overrun>>

-----------------------------------------------------------------------------
(* Recv with a packet of the listening socket also passes its overlapped   *)
(* pointer on to the handler; a failed accept has no handler, so none      *)
(* follows it.                                                             *)
RecvPacket(w) ==
  /\ Recv(w)
  /\ ov' = [ov EXCEPT ![w] = IF pc'[w] = "accept" THEN Head(port).io ELSE None]
  /\ abandoned' = IF Head(port).key = Listener /\ ~Head(port).ok
                  THEN abandoned \cup {Listener} ELSE abandoned
  /\ UNCHANGED <<accepted, accepting, made, requested, cut, overrun>>

WorkerStep(w) ==
  \/ RecvPacket(w)
  \/ AcceptBegin(w)
  \/ AcceptNext(w)
  \/ StoreAccepted(w)
  \/ AddAccepted(w)
  \/ OnRecived(w)
  \/ /\ \/ Complition(w)
        \/ StartReceiving(w)
        \/ RemoveTransport(w)
        \/ EraseTransport(w)
        \/ UseAfterFree(w)
     /\ UNCHANGED <<acceptVars, requested, cut, overrun>>

MainStep == AcceptNext(Main) \/ StoreAccepted(Main)

TimerStep ==
  /\ CopyTransports \/ PrintTransport
  /\ UNCHANGED <<acceptVars, requested, cut, overrun>>

NetworkStep ==
  \E t \in Transports :
    \/ KernelAccept(t)
    \/ ClientRequest(t)
    \/ /\ KernelRecv(t) \/ PeerClose(t) \/ PeerReset(t)
       /\ UNCHANGED <<acceptVars, requested, cut, overrun>>

Next ==
  \/ \E w \in Workers : WorkerStep(w)
  \/ MainStep
  \/ TimerStep
  \/ NetworkStep

Spec == Init /\ [][Next]_vars

(* Windows schedules every thread and delivers what has arrived.  Nothing  *)
(* forces a client to connect, to send, to close, or the timer to run.     *)
Fairness ==
  /\ \A w \in Workers : WF_vars(WorkerStep(w))
  /\ WF_vars(MainStep)
  /\ \A t \in Transports :
       WF_vars(KernelRecv(t) /\ UNCHANGED <<acceptVars, requested, cut, overrun>>)

FairSpec == Spec /\ Fairness

-----------------------------------------------------------------------------
(* Who may act on a transport next: the accept or the WSARecv outstanding  *)
(* on it, a packet that names it, or a worker inside one of its handlers.  *)
PacketsOf(t) == {i \in DOMAIN port : port[i].io = t}
HoldersOf(t) == {w \in Workers : obj[w] = t}

Owned(t) ==
  \/ t \in accepting
  \/ recvs[t] > 0
  \/ PacketsOf(t) # {}
  \/ HoldersOf(t) # {}

(* The places from which the next AcceptEx comes.                          *)
ListenerPackets == {i \in DOMAIN port : port[i].key = Listener}
Accepters == {w \in Threads : pc[w] \in {"accept", "next"}}
Accepting == accepting # {} \/ ListenerPackets # {} \/ Accepters # {}

AtMostOne(S) == \A x, y \in S : x = y

(* TCPServer::AcceptNext keeps one AcceptEx in flight: between an accept,  *)
(* its packet and the handler that issues the next one there is never more *)
(* than one, whatever races or fails (Transport.cpp:159, 286).             *)
SingleAcceptEx ==
  /\ AtMostOne(accepting)
  /\ AtMostOne(ListenerPackets)
  /\ AtMostOne(Accepters)
  /\ accepting # {} => ListenerPackets = {} /\ Accepters = {}
  /\ ListenerPackets # {} => Accepters = {}

HandledByOne(t) ==
  /\ recvs[t] <= 1
  /\ AtMostOne(PacketsOf(t))
  /\ AtMostOne(HoldersOf(t))
  /\ t \in accepting => recvs[t] = 0 /\ PacketsOf(t) = {} /\ HoldersOf(t) = {}
  /\ recvs[t] > 0 => PacketsOf(t) = {} /\ HoldersOf(t) = {}
  /\ PacketsOf(t) # {} => HoldersOf(t) = {}

(* No two workers ever handle one transport, and nobody handles it while a *)
(* WSARecv writes its buffer, although a transport has no lock: the one    *)
(* outstanding operation is the lock (Transport.cpp:353-380).  Only a slot *)
(* m_AcceptedTransport read too early breaks it.                           *)
Exclusive == ~overrun => \A t \in Transports : HandledByOne(t)

(* No worker runs a handler of a transport that RemoveTransport has        *)
(* deleted (base.cpp:149), unless an accept slot was read too early.       *)
NoUseAfterFree == ~overrun => \A w \in Workers : pc[w] # "wild"

(* The bytes of a request are on the network, in a packet, in a handler's  *)
(* argument or counted in m_CurrRecived, and together they are one request *)
(* until the server consumes it and none afterwards: the accept's          *)
(* bytes and those of later receives are neither lost nor counted twice    *)
(* (Transport.cpp:177, 332, 357; server.cpp:64, 80).                       *)
Uncounted(t) ==
  {w \in HoldersOf(t) : pc[w] \in {"accept", "next", "store", "add", "complete"}}

BytesOf(t) == inbound[t] + curr[t] + Total(PortBytes, PacketsOf(t))
                                   + Total(nbytes, Uncounted(t))

BytesAccounted ==
  ~overrun => \A t \in Transports :
    Owned(t) /\ peer[t] \in {"open", "closed"} =>
      BytesOf(t) = IF requested[t] THEN RequestSize ELSE 0

(* Whenever the critical section is free, m_Socket2Transports maps each    *)
(* handle to a live transport that owns it, although closesocket releases  *)
(* the handle before the entry is erased (base.cpp:149-150).               *)
TableSound ==
  lock = None => \A s \in Sockets :
    table[s] # None => life[table[s]] = "live" /\ sock[table[s]] = s

(* A connection that receives is in the map, so that RemoveTransport finds *)
(* it: insert was never ignored for a reused handle (base.cpp:124).        *)
ReceivingIsRegistered ==
  ~overrun => \A t \in Transports :
    \/ recvs[t] > 0
    \/ \E i \in PacketsOf(t) : port[i].key = t
    \/ \E w \in HoldersOf(t) : pc[w] \in Handling
    => t \in Registered

(* A connection the network keeps stays in service until it is deleted,    *)
(* whatever fails or races elsewhere: only the one whose own AcceptNext    *)
(* threw is dropped, though it is connected (Transport.cpp:159, 275-294).  *)
NoneForgotten ==
  ~overrun => \A t \in Transports :
    life[t] = "live" /\ peer[t] \in {"open", "closed"} =>
      Owned(t) \/ t \in abandoned

(* The server listens, or is about to, whatever races, throws elsewhere or *)
(* is closed: only an accept that completes with an error, which is just   *)
(* logged, or an AcceptNext that throws ends it, and then nothing takes it *)
(* up again (base.cpp:92-95, Transport.cpp:159, 275-294).                  *)
ListensUntilFailure == ~overrun => Accepting \/ Listener \in abandoned

(* A worker is left.                                                       *)
Alive == \E w \in Workers : pc[w] \notin {"dead", "wild"}

(* A request is answered, though accepts fail and other connections'       *)
(* failures end workers, under four conditions, all of which the program   *)
(* needs: the client keeps its connection open, a worker is left, send     *)
(* takes the whole answer, and the AcceptNext that follows the connection  *)
(* does not throw in the worker that is to serve it (server.cpp:60-88,     *)
(* Transport.cpp:159, 275-294, 316-321).                                   *)
Answered(t) == ~requested[t] /\ ~cut[t]

RequestAnswered ==
  \A t \in Transports :
    requested[t] ~> \/ Answered(t)
                    \/ cut[t] \/ t \in abandoned
                    \/ peer[t] # "open" \/ ~Alive \/ overrun

(* After every connection the server listens again, unless an accept       *)
(* completes with an error, which is only logged, or AcceptNext throws: no *)
(* AcceptEx follows then (base.cpp:92-95, Transport.cpp:159, 275-294).     *)
ListensAgain ==
  accepting = {} ~> (accepting # {} \/ Listener \in abandoned \/ ~Alive \/ overrun)

(* server.cpp:64 asserts that a callback that has a request has exactly    *)
(* one request.                                                            *)
OneRequestAtATime ==
  \A w \in Workers :
    pc[w] = "callback" /\ curr[obj[w]] >= RequestSize => curr[obj[w]] = RequestSize

(* base.cpp:44: a worker thread is around to process requests until a      *)
(* shutdown is signalled (no shutdown happens in this specification).      *)
WorkersStay == \A w \in Workers : pc[w] # "dead"

=============================================================================
