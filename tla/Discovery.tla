----------------------------- MODULE Discovery ------------------------------
(***************************************************************************)
(* The UDP side of the program.  A client broadcasts one datagram to find  *)
(* the server; the server echoes it; on the echo the client sets up its    *)
(* other connections and asks for a block, and from then on requests and   *)
(* blocks alternate as on a TCP connection, but in datagrams that may be   *)
(* lost, duplicated or overtake one another.                               *)
(*                                                                         *)
(* Each side has a UDPDomain: one socket, one WSARecvFrom outstanding, one *)
(* m_RecvBuffer, and a UDPTransport for each remote address it has         *)
(* accepted.  A side is "armed" while its WSARecvFrom is outstanding, in a *)
(* "handler" from a completion to the next WSARecvFrom, and "deaf" when no *)
(* WSARecvFrom will follow.                                                *)
(*                                                                         *)
(* Sizes are counted in words of sizeof(uint32_t) bytes; the word at index *)
(* i of g_NETDATA is i.                                                    *)
(***************************************************************************)
EXTENDS Naturals, FiniteSets, Bags

CONSTANTS
  Clients,   (* client processes, each with a UDP address of its own       *)
  None,      (* a null pointer                                             *)
  N,         (* words of a block, g_NumUInt32ForRecv                       *)
  Size,      (* words of g_NETDATA                                         *)
  MaxLoss,   (* bound: datagrams the network loses                         *)
  MaxDup,    (* bound: datagrams the network duplicates                    *)
  MaxExits,  (* bound: clients that go away                                *)
  Refuse,    (* TRUE when the other connections may be refused             *)
  Throws     (* TRUE when sendto may fail                                  *)

Transport == [curr : Nat, offset : Nat]  (* m_CurrRecived, m_CurrentNumOffset *)
NewTransport == [curr |-> 0, offset |-> 0]

ASSUME DiscoveryAssumption ==
  /\ N \in Nat \ {0, 1}
  /\ Size \in Nat \ {0}
  /\ \E k \in 1 .. Size : Size = k * N
  /\ None \notin Clients \cup Transport
  /\ {MaxLoss, MaxDup, MaxExits} \subseteq Nat
  /\ {Refuse, Throws} \subseteq BOOLEAN

VARIABLES
  net,       (* bag of the datagrams on their way or in a socket's buffer  *)
  lost,      (* number of datagrams lost                                   *)
  doubled,   (* number of datagrams duplicated                             *)
  server,    (* the server's UDPDomain                                     *)
  request,   (* the datagram in the server's buffer                        *)
  remotes,   (* the server's m_sockaddr2UDPTransports                      *)
  listed,    (* the UDPTransport in the server's m_Socket2Transports       *)
  unheard,   (* an ICMP error waits for the server's WSARecvFrom           *)
  client,    (* each client's UDPDomain                                    *)
  answer,    (* the datagram a client received last                        *)
  buffer,    (* the first N words of a client's m_RecvBuffer               *)
  found,     (* the client's m_ServerAddress is not empty                  *)
  remote,    (* the client's UDPTransport for the server                   *)
  got        (* history: the words FastValidate was last called for        *)

netVars == <<net, lost, doubled>>
serverVars == <<server, request, remotes, listed, unheard>>
clientVars == <<client, answer, buffer, found, remote, got>>
vars == <<netVars, serverVars, clientVars>>

(* A request carries a number of words, 0 to find the server.  An answer   *)
(* to 0 is the word 0 while the server does not know the client ("echo"),  *)
(* and nothing at all when it does ("empty").                              *)
Requests == [to : {"server"}, client : Clients, num : {0, N}]
Answers ==
  [to : {"client"}, client : Clients, kind : {"echo", "empty", "block"}, from : 0 .. Size - 1]

Words(d) == CASE d.kind = "echo" -> 1 [] d.kind = "empty" -> 0 [] OTHER -> N

TypeOK ==
  /\ IsABag(net) /\ BagToSet(net) \subseteq Requests \cup Answers
  /\ lost \in 0 .. MaxLoss
  /\ doubled \in 0 .. MaxDup
  /\ server \in {"off", "armed", "handler", "deaf"}
  /\ request \in Requests \cup {None}
  /\ remotes \in [Clients -> Transport \cup {None}]
  /\ listed \in Clients \cup {None}
  /\ unheard \in BOOLEAN
  /\ client \in [Clients -> {"off", "armed", "handler", "deaf", "gone"}]
  /\ answer \in [Clients -> Answers \cup {None}]
  /\ buffer \in [Clients -> [1 .. N -> Nat]]
  /\ found \in [Clients -> BOOLEAN]
  /\ remote \in [Clients -> Transport \cup {None}]
  /\ got \in [Clients -> [1 .. N -> Nat] \cup {<<>>}]

Init ==
  /\ net = EmptyBag
  /\ lost = 0
  /\ doubled = 0
  /\ server = "off"
  /\ request = None
  /\ remotes = [c \in Clients |-> None]
  /\ listed = None
  /\ unheard = FALSE
  /\ client = [c \in Clients |-> "off"]
  /\ answer = [c \in Clients |-> None]
  /\ buffer = [c \in Clients |-> [i \in 1 .. N |-> 0]]
  /\ found = [c \in Clients |-> FALSE]
  /\ remote = [c \in Clients |-> None]
  /\ got = [c \in Clients |-> <<>>]

Ask(c, n) == [to |-> "server", client |-> c, num |-> n]
Reply(c, k, o) == [to |-> "client", client |-> c, kind |-> k, from |-> o]

(* UDPTransport::Send when sendto succeeds.  A WSAEWOULDBLOCK, which it     *)
(* ignores, is a datagram lost at once; any other error is thrown, and the *)
(* handlers that end so are actions of their own.                          *)
Send(d) == net' = net (+) SetToBag({d})
Take(d) == net' = net (-) SetToBag({d})

-----------------------------------------------------------------------------
(* IOCPBase::StartUDP.                                                     *)
StartUDP ==
  /\ server = "off"
  /\ server' = "armed"
  /\ UNCHANGED <<netVars, request, remotes, listed, unheard, clientVars>>

(* The server's WSARecvFrom completes with a datagram of a client...       *)
ServerReceives(c) ==
  /\ server = "armed"
  /\ \E d \in BagToSet(net) :
       /\ d.to = "server"
       /\ d.client = c
       /\ Take(d)
       /\ request' = d
  /\ server' = "handler"
  /\ UNCHANGED <<lost, doubled, remotes, listed, unheard, clientVars>>

(* ...or with WSAECONNRESET, because an earlier datagram found nobody.     *)
(* IOCPBase::Recv logs it and starts no other WSARecvFrom.                 *)
ServerFails ==
  /\ server = "armed"
  /\ unheard
  /\ server' = "deaf"
  /\ unheard' = FALSE
  /\ UNCHANGED <<netVars, request, remotes, listed, clientVars>>

(* Server::OnRecived wraps the offset before the answer it would not fit.  *)
StartLate(t) == IF t.offset > Size THEN 0 ELSE t.offset  (* slip *)
Start(t) == IF t.offset >= Size THEN 0 ELSE t.offset

(* Server::OnRecived: the answer, and the transport after it.  The word    *)
(* that has just arrived is the word the handler takes off m_CurrRecived.  *)
Block(c, t, n) == Reply(c, IF n = 0 THEN "empty" ELSE "block", Start(t))
ServedAgain(t, n) == [t EXCEPT !.offset = Start(t)]  (* slip: it stays *)
Served(t, n) == [t EXCEPT !.offset = Start(t) + n]

(* The answer to a client the server does not know.                        *)
EchoNot(c) == UNCHANGED net  (* slip: return false comes first *)
Echo(c) == Send(Reply(c, "echo", 0))

(* UDPDomain::Complition on the server: OnRecived for a known address,     *)
(* OnUDPNewRemoteAddress for a new one, which echoes a broadcast and       *)
(* forgets the client, or answers a request and keeps it; then the next    *)
(* WSARecvFrom, whatever they returned.  All transports have the domain's  *)
(* socket, so only the first enters m_Socket2Transports.                   *)
ServerComplition ==
  LET c == request.client
      n == request.num
      t == IF remotes[c] = None THEN NewTransport ELSE remotes[c]
  IN  /\ server = "handler"
      /\ server' = "armed"
      /\ \/ /\ remotes[c] = None /\ n = 0
            /\ Echo(c)
            /\ UNCHANGED <<remotes, listed>>
         \/ /\ remotes[c] # None \/ n # 0
            /\ Send(Block(c, t, n))
            /\ remotes' = [remotes EXCEPT ![c] = Served(t, n)]
            /\ listed' = IF listed = None THEN c ELSE listed
      /\ UNCHANGED <<lost, doubled, request, unheard, clientVars>>

(* The same handler when its Send throws: the exception ends the worker    *)
(* before the next WSARecvFrom.  The offset of a known client has moved by *)
(* then; a new one is not in m_sockaddr2UDPTransports yet.                 *)
ServerThrows ==
  LET c == request.client IN
  /\ Throws
  /\ server = "handler"
  /\ server' = "deaf"
  /\ \/ /\ remotes[c] = None
        /\ UNCHANGED remotes
     \/ /\ remotes[c] # None
        /\ remotes' = [remotes EXCEPT ![c] = Served(@, request.num)]
  /\ UNCHANGED <<netVars, request, listed, unheard, clientVars>>

-----------------------------------------------------------------------------
(* Client::ThreadMain: one broadcast, which nobody hears before StartUDP,  *)
(* and the first WSARecvFrom.                                              *)
Broadcast(c) ==
  /\ client[c] = "off"
  /\ client' = [client EXCEPT ![c] = "armed"]
  /\ IF server = "off" THEN UNCHANGED net ELSE Send(Ask(c, 0))
  /\ UNCHANGED <<lost, doubled, serverVars, answer, buffer, found, remote,
                 got>>

(* A client's WSARecvFrom completes; every datagram is placed at the start *)
(* of m_RecvBuffer, over what an earlier one left there.                   *)
ClientReceives(c) ==
  /\ client[c] = "armed"
  /\ \E d \in BagToSet(net) :
       /\ d.to = "client"
       /\ d.client = c
       /\ Take(d)
       /\ answer' = [answer EXCEPT ![c] = d]
       /\ buffer' = [buffer EXCEPT ![c] =
            [i \in 1 .. N |-> IF i <= Words(d) THEN d.from + i - 1 ELSE @[i]]]
  /\ client' = [client EXCEPT ![c] = "handler"]
  /\ UNCHANGED <<lost, doubled, serverVars, found, remote, got>>

(* The request for the next block.                                         *)
AskNextTwice(c) ==                                                (* slip *)
  net' = net (+) SetToBag({Ask(c, N)}) (+) SetToBag({Ask(c, N)})
AskNext(c) == Send(Ask(c, N))

(* UDPDomain::Complition for an address that is new to the client:         *)
(* OnUDPNewRemoteAddress remembers the server and sets up the other        *)
(* connections; when they are refused an exception ends the worker before  *)
(* the next WSARecvFrom.                                                   *)
NewRemoteAddress(c) ==
  /\ client[c] = "handler"
  /\ remote[c] = None
  /\ found' = [found EXCEPT ![c] = TRUE]
  /\ \/ /\ remote' = [remote EXCEPT ![c] = NewTransport]
        /\ AskNext(c)
        /\ client' = [client EXCEPT ![c] = "armed"]
     \/ /\ Refuse
        /\ ~found[c]
        /\ client' = [client EXCEPT ![c] = "deaf"]
        /\ UNCHANGED <<net, remote>>
  /\ UNCHANGED <<lost, doubled, serverVars, answer, buffer, got>>

(* Client::FastValidate moves the client's offset on.                      *)
Onward(o) == IF o + N >= Size THEN 0 ELSE o + N

(* m_CurrRecived says that a block has arrived.                            *)
BlockArrivedExactly(n) == n = N  (* slip: the assert of client.cpp:114 as a test *)
BlockArrived(n) == n >= N

(* UDPDomain::Complition for the server's address: m_CurrRecived counts    *)
(* datagrams of any size, and Client::OnRecived checks the buffer, asks    *)
(* for the next block and starts the count again.                          *)
Complition(c) ==
  LET curr == remote[c].curr + Words(answer[c]) IN
  /\ client[c] = "handler"
  /\ remote[c] # None
  /\ client' = [client EXCEPT ![c] = "armed"]
  /\ \/ /\ ~BlockArrived(curr)
        /\ remote' = [remote EXCEPT ![c].curr = curr]
        /\ UNCHANGED <<net, got>>
     \/ /\ BlockArrived(curr)
        /\ got' = [got EXCEPT ![c] = buffer[c]]
        /\ remote' = [remote EXCEPT ![c] =
                        [curr |-> 0, offset |-> Onward(remote[c].offset)]]
        /\ AskNext(c)
  /\ UNCHANGED <<lost, doubled, serverVars, answer, buffer, found>>

(* Either handler of the client when its Send throws, before the next      *)
(* WSARecvFrom: the server's transport is not kept, or m_CurrRecived is    *)
(* not reset although FastValidate has moved the offset on.                *)
ClientThrows(c) ==
  LET curr == remote[c].curr + Words(answer[c]) IN
  /\ Throws
  /\ client[c] = "handler"
  /\ client' = [client EXCEPT ![c] = "deaf"]
  /\ \/ /\ remote[c] = None
        /\ found' = [found EXCEPT ![c] = TRUE]
        /\ UNCHANGED <<remote, got>>
     \/ /\ remote[c] # None
        /\ BlockArrived(curr)
        /\ got' = [got EXCEPT ![c] = buffer[c]]
        /\ remote' = [remote EXCEPT ![c] =
                        [curr |-> curr, offset |-> Onward(remote[c].offset)]]
        /\ UNCHANGED found
  /\ UNCHANGED <<netVars, serverVars, answer, buffer>>

-----------------------------------------------------------------------------
(* A client's process ends, and only then is its UDP socket closed.        *)
Exit(c) ==
  /\ client[c] \notin {"off", "gone"}
  /\ Cardinality({k \in Clients : client[k] = "gone"}) < MaxExits
  /\ client' = [client EXCEPT ![c] = "gone"]
  /\ UNCHANGED <<netVars, serverVars, answer, buffer, found, remote, got>>

(* A datagram for a client that has ended comes back to the server as an   *)
(* ICMP error.                                                             *)
Unreachable ==
  /\ \E d \in BagToSet(net) :
       /\ d.to = "client"
       /\ client[d.client] = "gone"
       /\ Take(d)
  /\ unheard' = TRUE
  /\ UNCHANGED <<lost, doubled, server, request, remotes, listed, clientVars>>

Lose ==
  /\ lost < MaxLoss
  /\ lost' = lost + 1
  /\ \E d \in BagToSet(net) : Take(d)
  /\ UNCHANGED <<doubled, serverVars, clientVars>>

Duplicate ==
  /\ doubled < MaxDup
  /\ doubled' = doubled + 1
  /\ \E d \in BagToSet(net) : Send(d)
  /\ UNCHANGED <<lost, serverVars, clientVars>>

Server == ServerComplition \/ ServerThrows
Client(c) ==
  ClientReceives(c) \/ NewRemoteAddress(c) \/ Complition(c) \/ ClientThrows(c)

Next ==
  \/ StartUDP \/ ServerFails \/ Server
  \/ \E c \in Clients : ServerReceives(c) \/ Broadcast(c) \/ Client(c) \/ Exit(c)
  \/ Unreachable \/ Lose \/ Duplicate

Spec == Init /\ [][Next]_vars

(* The workers of both sides run, and a datagram in a socket's buffer is   *)
(* delivered when a WSARecvFrom is outstanding; the server's buffer is a   *)
(* queue, so that no client's datagram waits in it for ever.               *)
FairSpec ==
  /\ Spec
  /\ WF_vars(Server)
  /\ \A c \in Clients :
       /\ SF_vars(ServerReceives(c))
       /\ WF_vars(Client(c))

-----------------------------------------------------------------------------
(* The datagrams of a client that are on their way, every copy of a        *)
(* datagram by its number, and how many there are with those in a handler. *)
Copies(c) == UNION {{d} \X (1 .. net[d]) : d \in {e \in BagToSet(net) : e.client = c}}
InFlight(c) ==
  Cardinality(Copies(c))
    + (IF server = "handler" /\ request.client = c THEN 1 ELSE 0)
    + (IF client[c] = "handler" THEN 1 ELSE 0)

(* Client and server take turns: each handler sends at most one datagram   *)
(* for the one it has received, so there are never more of a client's in   *)
(* flight than the network has duplicated (Transport.cpp:832-868,          *)
(* client.cpp:84-102, 110-130, server.cpp:33-88).                          *)
TakeTurns == \A c \in Clients : InFlight(c) <= 1 + doubled

(* A client that was heard is never left waiting by the program itself: as *)
(* long as the network has lost nothing and both sides are there, there is *)
(* a datagram on its way to one of them, whatever was duplicated or        *)
(* reordered (client.cpp:112, server.cpp:62).                              *)
Heard(c) == remotes[c] # None \/ found[c]
NeverStalls ==
  \A c \in Clients :
    Heard(c) /\ lost = 0 /\ server # "deaf" /\ client[c] \notin {"deaf", "gone"}
      => InFlight(c) > 0

(* Whatever is lost, FastValidate is called for the blocks of g_NETDATA in *)
(* their order (BlockService), until the network duplicates a datagram:    *)
(* there is never a second one to overtake (client.cpp:180-187).           *)
NextBlock(c) == IF remote[c] = None THEN 0 ELSE remote[c].offset
Blocks(c) == INSTANCE BlockService
               WITH asked <- remote[c] # None, next <- NextBlock(c),
                    block <- got[c], W <- 1
BlocksInOrder ==
  /\ \A c \in Clients : Blocks(c)!Init
  /\ [][\A c \in Clients : doubled = 0 => Blocks(c)!Next \/ UNCHANGED Blocks(c)!vars]_vars

(* What takes a client out of service: a datagram lost, as nobody repeats; *)
(* its own end; a deaf client, whose connections were refused or whose     *)
(* sendto failed; a deaf server, whose sendto failed or whose WSARecvFrom  *)
(* ended with WSAECONNRESET because some client had gone.                  *)
Stranded(c) == lost > 0 \/ client[c] \in {"deaf", "gone"} \/ server = "deaf"

(* A client that is heard once the server listens is connected, unless one *)
(* of these happens (client.cpp:84-102, server.cpp:33-57).                 *)
Connects ==
  \A c \in Clients : BagIn(Ask(c, 0), net) ~> (remote[c] # None \/ Stranded(c))

(* A connected client's FastValidate is called for every block again and   *)
(* again, unless one of these happens, though two clients share the        *)
(* server's one buffer and one WSARecvFrom.  This holds whatever is        *)
(* duplicated; but FastValidate may then expect another block than the one *)
(* it is called for, and count errors.                                     *)
BlocksForEver ==
  \A c \in Clients, o \in {p \in 0 .. Size - 1 : p % N = 0} :
    remote[c] # None ~> (got[c] = [i \in 1 .. N |-> o + i - 1] \/ Stranded(c))

=============================================================================
