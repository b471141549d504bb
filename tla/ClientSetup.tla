----------------------------- MODULE ClientSetup -----------------------------
(***************************************************************************)
(* The client's connections on top of the engine of IOCPBase.  The worker  *)
(* that has taken the server's first datagram runs                         *)
(* Client::SetupAdditionalConnections inside its handler: it connects one  *)
(* transport after the other, enters it in the map, hands it to all the    *)
(* workers by StartReceiving and, for a TCP connection, only then sends    *)
(* the first request.  The other workers meanwhile run the handlers of the *)
(* connections that exist: Client::OnRecived asks for the next answer as   *)
(* soon as one is complete, and a connection the server has closed is      *)
(* removed.  Nothing is accepted here, and the statistics thread, which    *)
(* writes nothing a worker reads, is left to TCPServer.                    *)
(*                                                                         *)
(* What a connection exchanges is left to Stream and SSLStream: on an SSL  *)
(* connection a request is anything the client sends and waits on, a       *)
(* flight of the handshake or a record with a request, and m_CurrRecived   *)
(* the bytes in Bio[RECV] that do not make an answer yet.                  *)
(***************************************************************************)
EXTENDS IOCPBase

CONSTANTS
  Setter,          (* the worker that sets the connections up              *)
  TCPConnections,  (* connections of the first loop                        *)
  SSLConnections,  (* connections of the second loop                       *)
  AnswerSize,      (* bytes of the answer to a request                     *)
  MaxCuts          (* bound: connections of which a send is cut            *)

(* Transports are numbered in the order in which they are created.         *)
ASSUME SetupAssumption ==
  /\ Setter \in Workers
  /\ TCPConnections \in Nat \ {0}
  /\ SSLConnections \in Nat
  /\ Transports = 1 .. TCPConnections + SSLConnections
  /\ AnswerSize \in Nat \ {0}
  /\ MaxCuts \in Nat

VARIABLES
  asked,   (* the first send on a connection has been called               *)
  owed,    (* bytes the server has still to send in answer to the last one *)
  dropped  (* history: bytes of an answer that nobody will send, because   *)
           (* a send took only part of the request, or of the answer       *)

requestVars == <<asked, owed, dropped>>
vars == <<baseVars, requestVars>>

IsSSL(t) == t > TCPConnections

Labels == {"connect", "hello", "add", "start", "ask", "wait", "complete",
           "callback", "rearm", "remove", "erase", "done", "dead", "wild"}

TypeOK ==
  /\ port \in Seq(Packet)
  /\ pc \in [Threads -> Labels]
  /\ obj \in [Threads -> Transports \cup {None}]
  /\ nbytes \in [Threads -> 0 .. AnswerSize]
  /\ life \in [Transports -> {"unallocated", "live", "deleted"}]
  /\ sock \in [Transports -> Sockets \cup {None}]
  /\ curr \in [Transports -> 0 .. AnswerSize]
  /\ table \in [Sockets -> Transports \cup {None}]
  /\ lock \in Workers \cup {None}
  /\ recvs \in [Transports -> {0, 1}]
  /\ peer \in [Transports -> {"none", "open", "closed", "reset"}]
  /\ inbound \in [Transports -> 0 .. AnswerSize]
  /\ asked \in [Transports -> BOOLEAN]
  /\ owed \in [Transports -> 0 .. AnswerSize]
  /\ dropped \in [Transports -> 0 .. AnswerSize]

Init ==
  /\ port = <<>>
  /\ pc = [w \in Threads |-> CASE w = Setter -> "connect"
                               [] w = Main -> "done"
                               [] OTHER -> "wait"]
  /\ obj = [w \in Threads |-> IF w = Setter THEN 1 ELSE None]
  /\ nbytes = [w \in Threads |-> 0]
  /\ life = [t \in Transports |-> "unallocated"]
  /\ sock = [t \in Transports |-> None]
  /\ curr = [t \in Transports |-> 0]
  /\ table = [s \in Sockets |-> None]
  /\ lock = None
  /\ snap = {}
  /\ timer = "run"
  /\ recvs = [t \in Transports |-> 0]
  /\ peer = [t \in Transports |-> "none"]
  /\ inbound = [t \in Transports |-> 0]
  /\ asked = [t \in Transports |-> FALSE]
  /\ owed = [t \in Transports |-> 0]
  /\ dropped = [t \in Transports |-> 0]

-----------------------------------------------------------------------------
(* Connect, up to a connected socket.  No handle is free, or the server    *)
(* refuses: the exception ends the worker, and no connection follows.      *)
Connect(w) ==
  /\ pc[w] = "connect"
  /\ \/ /\ Die(w)
        /\ UNCHANGED <<life, sock, peer>>
     \/ \E s \in FreeSockets :
          /\ life' = [life EXCEPT ![obj[w]] = "live"]
          /\ sock' = [sock EXCEPT ![obj[w]] = s]
          /\ peer' = [peer EXCEPT ![obj[w]] = "open"]
          /\ Goto(w, IF IsSSL(obj[w]) THEN "hello" ELSE "add")
  /\ UNCHANGED <<port, curr, mapVars, timerVars, recvs, inbound, requestVars>>

(* One more connection may be one of which a send is cut.                  *)
MayCut == Cardinality({t \in Transports : dropped[t] > 0}) < MaxCuts

(* send hands a request to the network, or takes only part of it, or none  *)
(* (WSAEWOULDBLOCK), which is ignored: the server waits for the rest, and  *)
(* the client for an answer that will never be sent.                       *)
Send(t) ==
  /\ peer[t] # "reset"
  /\ asked' = [asked EXCEPT ![t] = TRUE]
  /\ \/ /\ owed' = [owed EXCEPT ![t] = @ + AnswerSize]
        /\ UNCHANGED dropped
     \/ /\ MayCut
        /\ dropped' = [dropped EXCEPT ![t] = @ + AnswerSize]
        /\ UNCHANGED owed

(* On a reset connection send throws.                                      *)
SendThrows(w) ==
  /\ peer[obj[w]] = "reset"
  /\ Die(w)
  /\ UNCHANGED requestVars

(* SSLTransport::Connect goes on with the first flight of the handshake.   *)
SSLProcessingConnect(w) ==
  /\ At(w, "hello")
  /\ \/ Send(obj[w]) /\ Goto(w, "add")
     \/ SendThrows(w)
  /\ UNCHANGED <<port, heapVars, mapVars, timerVars, netVars>>

(* The map holds a connection before it receives.                          *)
AddConnectedNever(t) == UNCHANGED <<table, lock>>  (* slip: no AddTransport *)
AddConnected(t) == AddTransport(t)

(* AssociateWithIOCP, from which on completions of the socket come to the  *)
(* port (none is outstanding yet), and AddTransport.                       *)
Add(w) ==
  /\ At(w, "add")
  /\ AddConnected(obj[w])
  /\ Goto(w, "start")
  /\ UNCHANGED <<port, heapVars, timerVars, netVars, requestVars>>

(* The body of a loop ends.                                                *)
NextConnection(w) ==
  IF obj[w] + 1 \in Transports
  THEN /\ pc' = [pc EXCEPT ![w] = "connect"]
       /\ obj' = [obj EXCEPT ![w] = @ + 1]
       /\ UNCHANGED nbytes
  ELSE Return(w)

(* Only the first loop has a Send.                                         *)
AsksAlways(t) == TRUE  (* slip: so has the second *)
Asks(t) == ~IsSSL(t)

(* StartReceiving: from here on the transport belongs to all workers.      *)
Start(w) ==
  /\ At(w, "start")
  /\ \/ /\ peer[obj[w]] = "reset"
        /\ Die(w)
        /\ UNCHANGED recvs
     \/ /\ peer[obj[w]] # "reset"
        /\ recvs' = [recvs EXCEPT ![obj[w]] = @ + 1]
        /\ IF Asks(obj[w]) THEN Goto(w, "ask") ELSE NextConnection(w)
  /\ UNCHANGED <<port, heapVars, mapVars, timerVars, peer, inbound,
                 requestVars>>

(* The first request of a TCP connection, on a transport that a worker may *)
(* have deleted since.                                                     *)
Ask(w) ==
  /\ pc[w] = "ask"
  /\ \/ /\ life[obj[w]] = "live"
        /\ Send(obj[w])
        /\ NextConnection(w)
     \/ /\ life[obj[w]] = "live"
        /\ SendThrows(w)
     \/ /\ life[obj[w]] = "deleted"
        /\ GoWild(w)
        /\ UNCHANGED requestVars
  /\ UNCHANGED <<port, heapVars, mapVars, timerVars, netVars>>

-----------------------------------------------------------------------------
(* m_CurrRecived = 0 when the answer has been processed.                   *)
ProcessedKept(t) == curr  (* slip: it is left *)
Processed(t) == [curr EXCEPT ![t] = 0]

(* The answer is there to the last byte.                                   *)
AnswerArrivedMore(t) == curr[t] > AnswerSize  (* slip *)
AnswerArrived(t) == curr[t] >= AnswerSize

(* Client::OnRecived: less than the answer waits for more; the answer is   *)
(* validated (see Stream) and the next one asked for.                      *)
OnRecived(w) ==
  /\ At(w, "callback")
  /\ \/ /\ ~AnswerArrived(obj[w])
        /\ Goto(w, "rearm")
        /\ UNCHANGED <<curr, requestVars>>
     \/ /\ AnswerArrived(obj[w])
        /\ \/ Send(obj[w]) /\ curr' = Processed(obj[w]) /\ Goto(w, "rearm")
           \/ SendThrows(w) /\ UNCHANGED curr
  /\ UNCHANGED <<port, life, sock, mapVars, timerVars, netVars>>

(* The server sends some more of its answer.                               *)
ServerAnswers(t) ==
  /\ peer[t] = "open"
  /\ \E n \in 1 .. owed[t] :
       /\ inbound' = [inbound EXCEPT ![t] = @ + n]
       /\ owed' = [owed EXCEPT ![t] = @ - n]
  /\ UNCHANGED <<port, threadVars, heapVars, mapVars, timerVars, recvs, peer,
                 asked, dropped>>

(* The server's own send takes no more of the answer.                      *)
ServerDrops(t) ==
  /\ peer[t] = "open"
  /\ owed[t] > 0
  /\ MayCut
  /\ dropped' = [dropped EXCEPT ![t] = @ + owed[t]]
  /\ owed' = [owed EXCEPT ![t] = 0]
  /\ UNCHANGED <<port, threadVars, heapVars, mapVars, timerVars, recvs, peer,
                 inbound, asked>>

SetupStep(w) ==
  Connect(w) \/ SSLProcessingConnect(w) \/ Add(w) \/ Start(w) \/ Ask(w)

WorkerStep(w) ==
  \/ SetupStep(w)
  \/ OnRecived(w)
  \/ /\ \/ Recv(w)
        \/ Complition(w)
        \/ StartReceiving(w)
        \/ RemoveTransport(w)
        \/ EraseTransport(w)
     /\ UNCHANGED requestVars

Receives(t) == KernelRecv(t) /\ UNCHANGED requestVars

NetworkStep ==
  \E t \in Transports :
    \/ ServerAnswers(t) \/ ServerDrops(t)
    \/ Receives(t)
    \/ (PeerClose(t) \/ PeerReset(t)) /\ UNCHANGED requestVars

Next == (\E w \in Workers : WorkerStep(w)) \/ NetworkStep

Spec == Init /\ [][Next]_vars

(* Windows schedules every worker and delivers what has arrived, and the   *)
(* server answers a whole request of whom it is connected to, or its send  *)
(* drops the answer (RequestAnswered in TCPServer).                        *)
FairSpec ==
  /\ Spec
  /\ \A w \in Workers : WF_vars(WorkerStep(w))
  /\ \A t \in Transports : WF_vars(Receives(t)) /\ WF_vars(ServerAnswers(t))

-----------------------------------------------------------------------------
PacketsOf(t) == {i \in DOMAIN port : port[i].io = t}
Handlers(t) == {w \in Workers : obj[w] = t /\ pc[w] \in Handling}
InSetup(t, labels) == obj[Setter] = t /\ pc[Setter] \in labels

AtMostOne(S) == \A x, y \in S : x = y

HandledByOne(t) ==
  /\ AtMostOne(PacketsOf(t))
  /\ AtMostOne(Handlers(t))
  /\ recvs[t] > 0 => PacketsOf(t) = {} /\ Handlers(t) = {}
  /\ PacketsOf(t) # {} => Handlers(t) = {}
  /\ InSetup(t, {"hello", "add", "start"}) =>
       recvs[t] = 0 /\ PacketsOf(t) = {} /\ Handlers(t) = {}

(* Handlers of one transport exclude each other, and StartReceiving hands  *)
(* it over before the setup has finished with it without harm unless the   *)
(* server closes too soon: while the setup stands before its Send, another *)
(* worker can only be removing the transport, and a worker touches deleted *)
(* memory only when a connection was closed before its first request       *)
(* (client.cpp:46-47, Transport.cpp:353-380).                              *)
HandedOver ==
  /\ \A t \in Transports :
       /\ HandledByOne(t)
       /\ InSetup(t, {"ask"}) =>
            \A w \in Handlers(t) : pc[w] = "remove" \/ nbytes[w] = 0
  /\ (\E w \in Workers : pc[w] = "wild") =>
       \E t \in Transports : life[t] = "deleted" /\ ~asked[t]

(* Of a request's answer every byte is still with the server, on the       *)
(* network, in a packet, in a handler's argument or in m_CurrRecived, or   *)
(* was dropped by a send that took only part of the request or of the      *)
(* answer, for both kinds of connection and from the first request on: the *)
(* client loses none itself, no answer is asked for twice, and what a send *)
(* drops is never made up for (client.cpp:47, 112-120, 223,                *)
(* Transport.cpp:316-323).                                                 *)
Uncounted(t) == {w \in Handlers(t) : pc[w] = "complete"}

AnswerOf(t) == owed[t] + inbound[t] + curr[t] + Total(PortBytes, PacketsOf(t))
                                              + Total(nbytes, Uncounted(t))

AnswerAccounted ==
  \A t \in Transports :
    life[t] = "live" /\ peer[t] \in {"open", "closed"} =>
      AnswerOf(t) + dropped[t] = IF asked[t] THEN AnswerSize ELSE 0

(* The map holds live transports under their own handles, and every        *)
(* connection that receives, so that its end finds it there, although the  *)
(* setup may be given the handle of a connection that another worker has   *)
(* closed and not erased yet (client.cpp:43, 59, base.cpp:124, 149-150).   *)
KnownToMap ==
  /\ lock = None => \A s \in Sockets :
       table[s] # None => life[table[s]] = "live" /\ sock[table[s]] = s
  /\ \A t \in Transports :
       recvs[t] > 0 \/ PacketsOf(t) # {} \/ Handlers(t) # {} => t \in Registered

(* A worker is left.                                                       *)
Alive == \E w \in Workers : pc[w] \notin {"dead", "wild"}

(* A connection whose last answer was sent to the end, nothing of it       *)
(* dropped, asks for another one, though its own send may drop the request *)
(* and so end it; and a connection that the server has closed is removed;  *)
(* whatever the setup and the other connections do, as long as a worker is *)
(* left.  A connection of which a send has dropped something asks for      *)
(* nothing any more (client.cpp:223, Transport.cpp:316-323, 366, 378).     *)
KeepsAsking ==
  \A t \in Transports :
    /\ asked[t] /\ owed[t] = 0 /\ dropped[t] = 0 /\ peer[t] = "open"
         ~> (owed[t] > 0 \/ dropped[t] > 0 \/ peer[t] # "open" \/ ~Alive)
    /\ peer[t] = "closed"
         ~> (life[t] = "deleted" \/ peer[t] # "closed" \/ ~Alive)

=============================================================================
