------------------------- MODULE ClientSetupProofs --------------------------
(***************************************************************************)
(* Proofs about ClientSetup for every number of workers, connections of    *)
(* either kind, handles, resets and every size of an answer: a connection  *)
(* is handed over to the workers without two of them acting on it, the map *)
(* knows it from then on, and every byte of the answer it has asked for is *)
(* in one place, or was dropped by a send that took only a part.           *)
(*                                                                         *)
(* The invariant has a part for each connection, Conn(t): who may act on   *)
(* it, and its books.  A step of another connection's handler leaves the   *)
(* part alone (Elsewhere).  SetterInv says what the setup has still to do, *)
(* TableInv what the owner of the critical section is doing to the map.    *)
(***************************************************************************)
EXTENDS ClientSetup, IOCPBaseProofs

USE ConstantsAssumption, SetupAssumption DEF Threads

SetupLabels == {"connect", "hello", "add", "start", "ask"}

(* The setup has the connection to itself...                               *)
Private == {"hello", "add", "start"}

(* What a worker's label says about its stack.                             *)
StackInv ==
  \A w \in Workers :
    /\ pc[w] \in SetupLabels => w = Setter
    /\ pc[w] \in SetupLabels \cup Handling \cup {"erase"} => obj[w] \in Transports
    /\ pc[w] \in {"wait", "dead", "wild"} => obj[w] = None
    /\ pc[w] = "erase" => lock = w /\ life[obj[w]] = "deleted"

(* What there is left to set up.                                           *)
SetterInv ==
  pc[Setter] \in SetupLabels =>
    /\ \A u \in Transports : u > obj[Setter] => life[u] = "unallocated"
    /\ pc[Setter] = "connect" => life[obj[Setter]] = "unallocated"
    /\ pc[Setter] \in Private => life[obj[Setter]] = "live"
    /\ pc[Setter] = "ask" => life[obj[Setter]] # "unallocated"
    /\ pc[Setter] = "hello" => IsSSL(obj[Setter])
    /\ pc[Setter] \in {"connect", "hello", "ask"} => ~asked[obj[Setter]]
    /\ pc[Setter] \in {"add", "start"} /\ ~IsSSL(obj[Setter]) => ~asked[obj[Setter]]

(* An entry of the map is good, or the owner of the critical section is    *)
(* about to erase it.                                                      *)
EntryOK(s) ==
  table[s] # None =>
    /\ sock[table[s]] = s
    /\ \/ life[table[s]] = "live"
       \/ life[table[s]] = "deleted" /\ lock # None /\ obj[lock] = table[s]

TableInv ==
  /\ lock # None => lock \in Workers /\ pc[lock] = "erase"
  /\ \A s \in Sockets : EntryOK(s)

(* Live connections have sockets of their own.                             *)
SocketsApart ==
  \A t, u \in Transports :
    life[t] = "live" /\ life[u] = "live" /\ sock[t] = sock[u] => t = u

SocketsHeld == \A t \in Transports : life[t] = "live" => sock[t] \in Sockets

(* A connection whose operations complete is in the map, and so is the one *)
(* that the setup is about to start.                                       *)
Receiving(t) ==
  recvs[t] > 0 \/ PacketsOf(t) # {} \/ Handlers(t) # {} \/ InSetup(t, {"start"})

RegInv == \A t \in Transports : Receiving(t) => t \in Registered

(* Where the bytes of an answer are that no worker or packet carries, and  *)
(* what they make together with those that one does.                       *)
Stock(t) == owed[t] + inbound[t] + curr[t] + dropped[t]

Within(t, n) ==
  /\ Stock(t) + n <= AnswerSize
  /\ ~asked[t] => Stock(t) + n = 0
  /\ asked[t] /\ peer[t] # "reset" => Stock(t) + n = AnswerSize

Books(t) ==
  /\ \A i \in PacketsOf(t) : Within(t, port[i].bytes)
  /\ \A w \in Uncounted(t) : Within(t, nbytes[w])
  /\ PacketsOf(t) = {} /\ Uncounted(t) = {} => Within(t, 0)

(* Nobody acts on a connection.                                            *)
Resting(t) == recvs[t] = 0 /\ PacketsOf(t) = {} /\ Handlers(t) = {}

Conn(t) ==
  /\ HandledByOne(t)
  /\ life[t] = "unallocated" <=> peer[t] = "none"
  /\ life[t] # "live" => Resting(t)
  /\ life[t] = "unallocated" => ~asked[t]
  /\ \A i \in PacketsOf(t) : port[i].key = t /\ (~port[i].ok => port[i].bytes = 0)
  /\ \A w \in Handlers(t) : ~asked[t] => nbytes[w] = 0
  /\ Books(t)

(* Only a connection closed before its first request drives a worker wild. *)
WildInv ==
  (\E w \in Workers : pc[w] = "wild") =>
    \E t \in Transports : life[t] = "deleted" /\ ~asked[t]

IInv ==
  /\ TypeOK
  /\ StackInv
  /\ SetterInv
  /\ TableInv
  /\ SocketsApart
  /\ SocketsHeld
  /\ RegInv
  /\ \A t \in Transports : Conn(t)
  /\ WildInv

-----------------------------------------------------------------------------
(* TypeOK by its parts.                                                    *)
ThreadsOK ==
  /\ pc \in [Threads -> Labels]
  /\ obj \in [Threads -> Transports \cup {None}]
  /\ nbytes \in [Threads -> 0 .. AnswerSize]

HeapOK ==
  /\ life \in [Transports -> {"unallocated", "live", "deleted"}]
  /\ sock \in [Transports -> Sockets \cup {None}]
  /\ curr \in [Transports -> 0 .. AnswerSize]

MapOK ==
  /\ table \in [Sockets -> Transports \cup {None}]
  /\ lock \in Workers \cup {None}

NetOK ==
  /\ port \in Seq(Packet)
  /\ recvs \in [Transports -> {0, 1}]
  /\ peer \in [Transports -> {"none", "open", "closed", "reset"}]
  /\ inbound \in [Transports -> 0 .. AnswerSize]

AskOK ==
  /\ asked \in [Transports -> BOOLEAN]
  /\ owed \in [Transports -> 0 .. AnswerSize]
  /\ dropped \in [Transports -> 0 .. AnswerSize]

(* TypeOK, part by part.                                                   *)
LEMMA TypeParts == TypeOK <=> ThreadsOK /\ HeapOK /\ MapOK /\ NetOK /\ AskOK
BY DEF TypeOK, ThreadsOK, HeapOK, MapOK, NetOK, AskOK

(* The setup starts with no connection at all.                             *)
LEMMA InitInv == Init => IInv
<1> SUFFICES ASSUME Init PROVE IInv
  OBVIOUS
<1>1. TypeOK
  <2>1. port \in Seq(Packet) /\ 0 \in 0 .. AnswerSize /\ 1 \in Transports
    BY DEF Init
  <2> QED
    BY <2>1 DEF Init, TypeOK, Labels
<1>2. StackInv /\ SetterInv
  BY DEF Init, StackInv, SetterInv, SetupLabels, Handling, Private
<1>3. TableInv /\ SocketsApart /\ SocketsHeld /\ WildInv
  BY DEF Init, TableInv, SocketsApart, SocketsHeld, WildInv, EntryOK
<1>4. ASSUME NEW t \in Transports PROVE Conn(t) /\ ~Receiving(t)
  <2>1. PacketsOf(t) = {} /\ Handlers(t) = {} /\ Uncounted(t) = {}
    BY DEF Init, PacketsOf, Handlers, Uncounted, Handling
  <2>2. ~InSetup(t, {"hello", "add", "start"}) /\ ~InSetup(t, {"start"})
    BY DEF Init, InSetup
  <2>3. Within(t, 0)
    BY DEF Init, Within, Stock
  <2> QED
    BY <2>1, <2>2, <2>3 DEF Init, Conn, HandledByOne, AtMostOne, Books, Resting, Receiving
<1> QED
  BY <1>1, <1>2, <1>3, <1>4 DEF IInv, RegInv

-----------------------------------------------------------------------------
(* Who acts on a connection acts alone.  A handler...                      *)
LEMMA HandlerAlone ==
  ASSUME IInv, NEW w \in Workers, pc[w] \in Handling
  PROVE  \E t \in Transports :
           /\ obj[w] = t /\ life[t] = "live" /\ peer[t] # "none"
           /\ recvs[t] = 0 /\ PacketsOf(t) = {} /\ Handlers(t) = {w}
           /\ ~InSetup(t, Private)
           /\ Within(t, IF pc[w] = "complete" THEN nbytes[w] ELSE 0)
           /\ ~asked[t] => nbytes[w] = 0
<1>1. PICK t \in Transports : t = obj[w]
  BY DEF IInv, StackInv
<1>2. Conn(t) /\ HandledByOne(t) /\ Books(t) /\ NetOK /\ HeapOK
  BY TypeParts DEF IInv, Conn
<1>3. w \in Handlers(t) /\ recvs[t] \in {0, 1}
  BY <1>1, <1>2 DEF Handlers, NetOK
<1>4. /\ recvs[t] = 0 /\ PacketsOf(t) = {} /\ Handlers(t) = {w}
      /\ ~InSetup(t, Private)
  BY <1>2, <1>3 DEF HandledByOne, AtMostOne, Private
<1>5. life[t] = "live" /\ peer[t] # "none"
  BY <1>2, <1>3 DEF Conn, Resting, HeapOK
<1>6. Within(t, IF pc[w] = "complete" THEN nbytes[w] ELSE 0)
  <2>1. CASE pc[w] = "complete"
    BY <1>2, <1>3, <2>1 DEF Books, Uncounted
  <2>2. CASE pc[w] # "complete"
    <3>1. Uncounted(t) = {}
      BY <1>4, <2>2 DEF Uncounted
    <3> QED
      BY <1>2, <1>4, <2>2, <3>1 DEF Books
  <2> QED
    BY <2>1, <2>2
<1> QED
  BY <1>1, <1>2, <1>3, <1>4, <1>5, <1>6 DEF Conn

(* ...and the setup, before it starts the connection.                      *)
LEMMA SetterAlone ==
  ASSUME IInv, pc[Setter] \in Private \cup {"connect"}
  PROVE  \E t \in Transports :
           /\ obj[Setter] = t /\ Resting(t) /\ Within(t, 0)
           /\ pc[Setter] \in Private => life[t] = "live" /\ peer[t] # "none"
           /\ pc[Setter] = "connect" => life[t] = "unallocated" /\ peer[t] = "none"
<1>1. PICK t \in Transports : t = obj[Setter]
  BY DEF IInv, StackInv, SetupLabels, Private
<1>2. Conn(t) /\ HandledByOne(t) /\ Books(t) /\ SetterInv
  BY DEF IInv, Conn
<1>3. /\ pc[Setter] \in Private => life[t] = "live" /\ peer[t] # "none"
      /\ pc[Setter] = "connect" => life[t] = "unallocated" /\ peer[t] = "none"
  BY <1>1, <1>2 DEF SetterInv, SetupLabels, Private, Conn
<1>4. Resting(t)
  <2>1. CASE pc[Setter] \in Private
    BY <1>1, <1>2, <2>1 DEF HandledByOne, InSetup, Private, Resting
  <2>2. CASE pc[Setter] = "connect"
    BY <1>2, <1>3, <2>2 DEF Conn
  <2> QED
    BY <2>1, <2>2
<1>5. Uncounted(t) = {}
  BY <1>4 DEF Resting, Uncounted
<1> QED
  BY <1>1, <1>2, <1>3, <1>4, <1>5 DEF Resting, Books

(* What is in stock is a part of one answer.                               *)
LEMMA StockBound ==
  ASSUME IInv, NEW t \in Transports
  PROVE  /\ owed[t] \in Nat /\ dropped[t] \in Nat /\ inbound[t] \in Nat /\ curr[t] \in Nat
         /\ Stock(t) \in Nat /\ Stock(t) <= AnswerSize
         /\ ~asked[t] => Stock(t) = 0
         /\ Stock(t) = owed[t] + inbound[t] + curr[t] + dropped[t]
         /\ Stock(t) = 0 => owed[t] = 0 /\ inbound[t] = 0 /\ curr[t] = 0 /\ dropped[t] = 0
         /\ dropped[t] + owed[t] <= AnswerSize /\ owed[t] + inbound[t] <= AnswerSize
         /\ \A n \in Nat : Stock(t) + n <= AnswerSize => curr[t] + n <= AnswerSize
         /\ curr[t] >= AnswerSize => owed[t] = 0 /\ inbound[t] = 0 /\ dropped[t] = 0
<1>1. owed[t] \in Nat /\ dropped[t] \in Nat /\ inbound[t] \in Nat /\ curr[t] \in Nat
  BY DEF IInv, TypeOK
<1>2. Stock(t) \in Nat
  BY <1>1 DEF Stock
<1>3. \E n \in Nat : Within(t, n)
  <2>1. Books(t) /\ NetOK /\ ThreadsOK
    BY TypeParts DEF IInv, Conn
  <2>2. ASSUME NEW i \in PacketsOf(t) PROVE port[i].bytes \in Nat
    <3>1. port[i] \in Packet
      BY <2>1 DEF PacketsOf, NetOK
    <3> QED
      BY <3>1 DEF Packet
  <2>3. \A w \in Uncounted(t) : nbytes[w] \in Nat
    BY <2>1 DEF Uncounted, Handlers, ThreadsOK
  <2>4. PacketsOf(t) = {} /\ Uncounted(t) = {} => Within(t, 0)
    BY <2>1 DEF Books
  <2> QED
    BY <2>1, <2>2, <2>3, <2>4 DEF Books
<1>4. Stock(t) <= AnswerSize /\ (~asked[t] => Stock(t) = 0)
  BY <1>2, <1>3 DEF Within
<1>5. Stock(t) = owed[t] + inbound[t] + curr[t] + dropped[t]
  BY DEF Stock
<1> HIDE DEF Stock
<1>6. AnswerSize \in Nat
  OBVIOUS
<1>7. ASSUME NEW a \in Nat, NEW b \in Nat, NEW c \in Nat, NEW d \in Nat, NEW k \in Nat,
             a + b + c + d <= k
      PROVE  /\ a + b + c + d = 0 => a = 0 /\ b = 0 /\ c = 0 /\ d = 0
             /\ d + a <= k /\ a + b <= k
             /\ \A n \in Nat : a + b + c + d + n <= k => c + n <= k
             /\ c >= k => a = 0 /\ b = 0 /\ d = 0
  BY <1>7
<1> QED
  BY <1>1, <1>2, <1>4, <1>5, <1>6, <1>7

(* The head of the port brings a part of one answer to its connection.     *)
LEMMA HeadBrings ==
  ASSUME IInv, port # <<>>
  PROVE  \E t \in Transports, n \in 0 .. AnswerSize :
           /\ Head(port).io = t /\ Head(port).key = t /\ Head(port).bytes = n
           /\ Within(t, n)
           /\ 1 \in PacketsOf(t)
           /\ Head(port).ok \in BOOLEAN /\ (~Head(port).ok => n = 0)
<1>1. NetOK
  BY TypeParts DEF IInv
<1>2. /\ Head(port).io \in Transports /\ Head(port).bytes \in Nat
      /\ Head(port).ok \in BOOLEAN
  BY <1>1, HeadOfPort DEF NetOK
<1>3. PICK t \in Transports : t = Head(port).io
  BY <1>2
<1>4. 1 \in DOMAIN port /\ port[1] = Head(port)
  BY <1>1 DEF NetOK
<1>5. 1 \in PacketsOf(t)
  BY <1>3, <1>4 DEF PacketsOf
<1>6. /\ Within(t, Head(port).bytes) /\ Head(port).key = t
      /\ ~Head(port).ok => Head(port).bytes = 0
  BY <1>4, <1>5 DEF IInv, Conn, Books
<1>7. PICK n \in Nat : n = Head(port).bytes
  BY <1>2
<1>8. n <= AnswerSize
  <2>1. Stock(t) + n <= AnswerSize
    BY <1>6, <1>7 DEF Within
  <2> QED
    BY <2>1, StockBound
<1> QED
  BY <1>2, <1>3, <1>5, <1>6, <1>7, <1>8

-----------------------------------------------------------------------------
(* How a thread moves: it stays with its transport, leaves it, or is the   *)
(* setup turning to the next one.                                          *)
Stays(w) == \E l \in Labels : Goto(w, l)
Leaves(w) == Return(w) \/ Die(w) \/ GoWild(w)

(* A step moves the thread that takes it and no other.                     *)
LEMMA OneThread ==
  ASSUME ThreadsOK, NEW w \in Workers, Stays(w) \/ Leaves(w) \/ NextConnection(w)
  PROVE  /\ ThreadsOK'
         /\ \A v \in Threads \ {w} :
              pc'[v] = pc[v] /\ obj'[v] = obj[v] /\ nbytes'[v] = nbytes[v]
         /\ Stays(w) => obj'[w] = obj[w] /\ nbytes'[w] = nbytes[w]
         /\ Leaves(w) => obj'[w] = None /\ pc'[w] \in {"wait", "dead", "wild"}
         /\ NextConnection(w) =>
              \/ /\ pc'[w] = "connect" /\ obj[w] + 1 \in Transports
                 /\ obj'[w] = obj[w] + 1
              \/ obj'[w] = None /\ pc'[w] = "wait"
<1>1. {"connect", "wait", "dead", "wild"} \subseteq Labels /\ 0 \in 0 .. AnswerSize
  BY DEF Labels
<1>2. CASE Stays(w)
  BY <1>2 DEF Stays, Goto, ThreadsOK, Leaves, NextConnection, Return, Die, GoWild
<1>3. CASE Leaves(w)
  BY <1>1, <1>3 DEF Leaves, Return, Die, GoWild, ThreadsOK, Stays, Goto, NextConnection
<1>4. CASE NextConnection(w)
  <2>1. CASE Return(w)
    BY <1>1, <1>3, <2>1 DEF Leaves, Return, ThreadsOK, Stays, Goto, NextConnection
  <2>2. CASE ~Return(w)
    <3>1. /\ obj[w] + 1 \in Transports
          /\ pc' = [pc EXCEPT ![w] = "connect"]
          /\ obj' = [obj EXCEPT ![w] = @ + 1]
          /\ nbytes' = nbytes
      BY <1>4, <2>2 DEF NextConnection
    <3>2. \A t \in Transports : t # None
      OBVIOUS
    <3> QED
      BY <1>1, <3>1, <3>2 DEF ThreadsOK, Stays, Leaves, Goto, Return, Die, GoWild,
         NextConnection
  <2> QED
    BY <2>1, <2>2
<1> QED
  BY <1>2, <1>3, <1>4

(* How the steps move their threads.                                       *)
LEMMA Moves ==
  ASSUME NEW w \in Workers, WorkerStep(w), ~Recv(w)
  PROVE  Stays(w) \/ Leaves(w) \/ NextConnection(w)
<1>1. {"hello", "add", "start", "ask", "callback", "rearm", "remove", "erase"}
        \subseteq Labels
  BY DEF Labels
<1>2. CASE SetupStep(w)
  BY <1>1, <1>2 DEF SetupStep, Connect, SSLProcessingConnect, Add, Start, Ask, Send,
     SendThrows, Stays, Leaves
<1>3. CASE OnRecived(w)
  BY <1>1, <1>3 DEF OnRecived, SendThrows, Stays, Leaves
<1>4. CASE Complition(w) \/ StartReceiving(w)
  BY <1>1, <1>4 DEF Complition, StartReceiving, Stays, Leaves
<1>5. CASE RemoveTransport(w) \/ EraseTransport(w)
  BY <1>1, <1>5 DEF RemoveTransport, EraseTransport, Leave, Stays, Leaves
<1> QED
  BY <1>2, <1>3, <1>4, <1>5 DEF WorkerStep

(* The types of the labels, stacks and arguments.                          *)
LEMMA ThreadsType ==
  ASSUME IInv, Next PROVE ThreadsOK'
<1>0. ThreadsOK
  BY TypeParts DEF IInv
<1>1. ASSUME NEW w \in Workers, Recv(w) PROVE ThreadsOK'
  <2>1. CASE UNCHANGED threadVars
    BY <1>0, <2>1 DEF threadVars, ThreadsOK
  <2>2. CASE ~ UNCHANGED threadVars
    <3>1. port # <<>>
      BY <1>1 DEF Recv
    <3>2. PICK t \in Transports, n \in 0 .. AnswerSize :
            Head(port).io = t /\ Head(port).key = t /\ Head(port).bytes = n
      BY <3>1, HeadBrings
    <3>3. /\ pc' = [pc EXCEPT ![w] = "complete"]
          /\ obj' = [obj EXCEPT ![w] = t]
          /\ nbytes' = [nbytes EXCEPT ![w] = n]
      BY <1>1, <2>2, <3>2 DEF Recv
    <3> QED
      BY <1>0, <3>2, <3>3 DEF ThreadsOK, Labels
  <2> QED
    BY <2>1, <2>2
<1>2. ASSUME NEW w \in Workers, WorkerStep(w), ~Recv(w) PROVE ThreadsOK'
  BY <1>0, <1>2, Moves, OneThread
<1>3. CASE NetworkStep
  <2>1. UNCHANGED threadVars
    BY <1>3 DEF NetworkStep, ServerAnswers, ServerDrops, Receives, KernelRecv, PeerClose, PeerReset
  <2> QED
    BY <1>0, <2>1 DEF threadVars, ThreadsOK
<1> QED
  BY <1>1, <1>2, <1>3 DEF Next

(* A request can only be sent when nothing of an answer is left.           *)
LEMMA SendType ==
  ASSUME IInv, NEW t \in Transports, Send(t), owed[t] = 0, dropped[t] = 0
  PROVE  AskOK'
<1>1. AskOK
  BY TypeParts DEF IInv
<1>2. /\ \/ owed' = [owed EXCEPT ![t] = @ + AnswerSize] /\ dropped' = dropped
         \/ dropped' = [dropped EXCEPT ![t] = @ + AnswerSize] /\ owed' = owed
      /\ owed[t] + AnswerSize = AnswerSize /\ dropped[t] + AnswerSize = AnswerSize
  BY <1>1 DEF Send
<1>3. AnswerSize \in 0 .. AnswerSize
  OBVIOUS
<1>4. asked' \in [Transports -> BOOLEAN]
  BY <1>1 DEF Send, AskOK
<1>5. owed' \in [Transports -> 0 .. AnswerSize] /\ dropped' \in [Transports -> 0 .. AnswerSize]
  <2>1. CASE owed' = [owed EXCEPT ![t] = @ + AnswerSize] /\ dropped' = dropped
    BY <1>1, <1>2, <1>3, <2>1 DEF AskOK
  <2>2. CASE dropped' = [dropped EXCEPT ![t] = @ + AnswerSize] /\ owed' = owed
    BY <1>1, <1>2, <1>3, <2>2 DEF AskOK
  <2> QED
    BY <1>2, <2>1, <2>2
<1> QED
  BY <1>4, <1>5 DEF AskOK

(* The types of what was asked and is owed: only a whole answer is asked   *)
(* for, and only when nothing of the last one is left.                     *)
LEMMA RequestType ==
  ASSUME IInv, Next PROVE AskOK'
<1>0. AskOK
  BY TypeParts DEF IInv
<1>1. ASSUME UNCHANGED requestVars PROVE AskOK'
  BY <1>0, <1>1 DEF AskOK, requestVars
<1>2. ASSUME NEW w \in Workers, SSLProcessingConnect(w) \/ Ask(w) PROVE AskOK'
  <2>1. CASE UNCHANGED requestVars
    BY <1>1, <2>1
  <2>2. CASE ~ UNCHANGED requestVars
    <3>1. Send(obj[w]) /\ pc[w] \in {"hello", "ask"}
      BY <1>2, <2>2 DEF SSLProcessingConnect, Ask, At, SendThrows
    <3>2. w = Setter /\ obj[w] \in Transports /\ ~asked[obj[w]]
      BY <3>1 DEF IInv, StackInv, SetterInv, SetupLabels
    <3>3. PICK t \in Transports : t = obj[w] /\ Stock(t) = 0
      BY <3>2, StockBound
    <3>4. owed[t] = 0 /\ dropped[t] = 0
      BY <3>3, StockBound
    <3> QED
      BY <3>1, <3>3, <3>4, SendType
  <2> QED
    BY <2>1, <2>2
<1>3. ASSUME NEW w \in Workers, OnRecived(w) PROVE AskOK'
  <2>1. CASE UNCHANGED requestVars
    BY <1>1, <2>1
  <2>2. CASE ~ UNCHANGED requestVars
    <3>1. Send(obj[w]) /\ pc[w] = "callback" /\ curr[obj[w]] >= AnswerSize
      BY <1>3, <2>2 DEF OnRecived, At, SendThrows, AnswerArrived
    <3>2. PICK t \in Transports : t = obj[w]
      BY <3>1 DEF IInv, StackInv, Handling
    <3>3. curr[t] >= AnswerSize
      BY <3>1, <3>2
    <3>5. owed[t] = 0 /\ dropped[t] = 0
      BY <3>3, StockBound
    <3> QED
      BY <3>1, <3>2, <3>5, SendType
  <2> QED
    BY <2>1, <2>2
<1>4. ASSUME NEW w \in Workers, Connect(w) \/ Add(w) \/ Start(w) PROVE AskOK'
  BY <1>1, <1>4 DEF Connect, Add, Start
<1>5. ASSUME NEW t \in Transports, ServerAnswers(t) PROVE AskOK'
  <2>1. PICK n \in 1 .. owed[t] : owed' = [owed EXCEPT ![t] = @ - n]
    BY <1>5 DEF ServerAnswers, ServerDrops
  <2>2. owed[t] - n \in 0 .. AnswerSize
    BY <1>0, <2>1 DEF AskOK
  <2> QED
    BY <1>0, <1>5, <2>1, <2>2 DEF AskOK, ServerAnswers
<1>6. ASSUME NEW t \in Transports, ServerDrops(t) PROVE AskOK'
  <2>1. owed[t] \in Nat /\ dropped[t] \in Nat /\ dropped[t] + owed[t] <= AnswerSize
    BY StockBound
  <2>2. dropped[t] + owed[t] \in 0 .. AnswerSize /\ 0 \in 0 .. AnswerSize
    BY <2>1
  <2> QED
    BY <1>0, <1>6, <2>2 DEF AskOK, ServerDrops
<1> QED
  BY <1>1, <1>2, <1>3, <1>4, <1>5, <1>6 DEF Next, WorkerStep, SetupStep, NetworkStep, Receives

(* The types of the objects: m_CurrRecived stays within an answer.         *)
LEMMA HeapType ==
  ASSUME IInv, Next PROVE HeapOK'
<1>0. HeapOK /\ ThreadsOK
  BY TypeParts DEF IInv
<1>1. ASSUME UNCHANGED heapVars PROVE HeapOK'
  BY <1>0, <1>1 DEF heapVars, HeapOK
<1>2. ASSUME NEW w \in Workers, Connect(w) PROVE HeapOK'
  <2>1. UNCHANGED curr
    BY <1>2 DEF Connect
  <2>2. CASE UNCHANGED <<life, sock>>
    BY <1>0, <2>1, <2>2 DEF HeapOK
  <2>3. ASSUME NEW s \in Sockets, life' = [life EXCEPT ![obj[w]] = "live"],
               sock' = [sock EXCEPT ![obj[w]] = s]
        PROVE  HeapOK'
    <3>1. life' \in [Transports -> {"unallocated", "live", "deleted"}]
      BY <1>0, <2>3 DEF HeapOK
    <3>2. sock' \in [Transports -> Sockets \cup {None}]
      BY <1>0, <2>3 DEF HeapOK
    <3> QED
      BY <1>0, <2>1, <3>1, <3>2 DEF HeapOK
  <2> QED
    BY <1>2, <2>2, <2>3 DEF Connect, FreeSockets
<1>3. ASSUME NEW w \in Workers, OnRecived(w) PROVE HeapOK'
  <2>1. curr' \in [Transports -> 0 .. AnswerSize]
    BY <1>0, <1>3 DEF OnRecived, Processed, HeapOK
  <2> QED
    BY <1>0, <1>3, <2>1 DEF OnRecived, HeapOK
<1>4. ASSUME NEW w \in Workers, Complition(w) PROVE HeapOK'
  <2>1. CASE curr' = curr
    BY <1>0, <1>4, <2>1 DEF Complition, HeapOK
  <2>2. CASE curr' # curr
    <3>1. pc[w] = "complete" /\ curr' = [curr EXCEPT ![obj[w]] = @ + nbytes[w]]
      BY <1>4, <2>2 DEF Complition, At, Count
    <3>2. PICK t \in Transports : obj[w] = t /\ Within(t, nbytes[w])
      BY <3>1, HandlerAlone DEF Handling
    <3>3. nbytes[w] \in Nat
      BY <1>0 DEF ThreadsOK
    <3>4. curr[t] + nbytes[w] \in 0 .. AnswerSize
      BY <3>2, <3>3, StockBound DEF Within
    <3> QED
      BY <1>0, <1>4, <3>1, <3>2, <3>4 DEF Complition, HeapOK
  <2> QED
    BY <2>1, <2>2
<1>5. ASSUME NEW w \in Workers, RemoveTransport(w) PROVE HeapOK'
  BY <1>0, <1>5 DEF RemoveTransport, HeapOK
<1>6. ASSUME NEW w \in Workers,
             \/ SSLProcessingConnect(w) \/ Add(w) \/ Start(w) \/ Ask(w)
             \/ Recv(w) \/ StartReceiving(w) \/ EraseTransport(w)
      PROVE  HeapOK'
  BY <1>1, <1>6 DEF SSLProcessingConnect, Add, Start, Ask, Recv, StartReceiving, EraseTransport
<1>7. CASE NetworkStep
  BY <1>1, <1>7 DEF NetworkStep, ServerAnswers, ServerDrops, Receives, KernelRecv, PeerClose, PeerReset
<1> QED
  BY <1>2, <1>3, <1>4, <1>5, <1>6, <1>7 DEF Next, WorkerStep, SetupStep

(* The types of the map and its critical section.                          *)
LEMMA MapType ==
  ASSUME IInv, Next PROVE MapOK'
<1>0. MapOK /\ HeapOK /\ ThreadsOK
  BY TypeParts DEF IInv
<1>1. ASSUME UNCHANGED mapVars PROVE MapOK'
  BY <1>0, <1>1 DEF mapVars, MapOK
<1>2. ASSUME NEW w \in Workers, Add(w) PROVE MapOK'
  <2>1. obj[w] \in Transports
    BY <1>2 DEF Add, At, IInv, StackInv, SetupLabels
  <2> QED
    BY <1>0, <1>2, <2>1 DEF Add, AddConnected, AddTransport, MapOK
<1>3. ASSUME NEW w \in Workers, RemoveTransport(w) \/ EraseTransport(w) PROVE MapOK'
  BY <1>0, <1>3 DEF RemoveTransport, Hold, EraseTransport, Erased, MapOK
<1>4. ASSUME NEW w \in Workers, SetupStep(w), ~Add(w) PROVE MapOK'
  BY <1>1, <1>4 DEF SetupStep, Connect, SSLProcessingConnect, Start, Ask
<1>5. ASSUME NEW w \in Workers,
             OnRecived(w) \/ Recv(w) \/ Complition(w) \/ StartReceiving(w)
      PROVE  MapOK'
  BY <1>1, <1>5 DEF OnRecived, Recv, Complition, StartReceiving
<1>6. CASE NetworkStep
  BY <1>1, <1>6 DEF NetworkStep, ServerAnswers, ServerDrops, Receives, KernelRecv, PeerClose, PeerReset
<1> QED
  BY <1>2, <1>3, <1>4, <1>5, <1>6 DEF Next, WorkerStep

(* The kernel posts a packet of the connection whose receive it completes. *)
LEMMA KernelPosts ==
  ASSUME NetOK, NEW t \in Transports, KernelRecv(t)
  PROVE  \E p \in Packet :
           /\ p.io = t /\ p.key = t /\ port' = Append(port, p)
           /\ \/ /\ p.bytes \in 1 .. inbound[t] /\ p.ok
                 /\ inbound' = [inbound EXCEPT ![t] = @ - p.bytes]
              \/ p.bytes = 0 /\ inbound' = inbound
<1>1. ASSUME NEW ok \in BOOLEAN, ok, NEW n \in 1 .. inbound[t],
             port' = Append(port, Completion(t, t, ok, n)),
             inbound' = [inbound EXCEPT ![t] = @ - n]
      PROVE  \E p \in Packet :
               /\ p.io = t /\ p.key = t /\ port' = Append(port, p)
               /\ p.bytes \in 1 .. inbound[t] /\ p.ok
               /\ inbound' = [inbound EXCEPT ![t] = @ - p.bytes]
  <2>1. n \in Nat
    BY DEF NetOK
  <2>2. PICK p \in Packet : /\ p = Completion(t, t, ok, n) /\ p.key = t /\ p.io = t
                            /\ p.bytes = n /\ (p.ok <=> ok)
    BY <2>1, CompletionFields
  <2> QED
    BY <1>1, <2>2
<1>2. ASSUME NEW ok \in BOOLEAN, port' = Append(port, Completion(t, t, ok, 0)),
             inbound' = inbound
      PROVE  \E p \in Packet :
               /\ p.io = t /\ p.key = t /\ port' = Append(port, p)
               /\ p.bytes = 0 /\ inbound' = inbound
  BY <1>2, CompletionFields
<1>3. \/ \E ok \in BOOLEAN, n \in 1 .. inbound[t] :
            /\ ok /\ port' = Append(port, Completion(t, t, ok, n))
            /\ inbound' = [inbound EXCEPT ![t] = @ - n]
      \/ \E ok \in BOOLEAN : /\ port' = Append(port, Completion(t, t, ok, 0))
                             /\ inbound' = inbound
  BY DEF KernelRecv
<1> QED
  BY <1>1, <1>2, <1>3

(* The types of the port and the network.                                  *)
LEMMA NetType ==
  ASSUME IInv, Next PROVE NetOK'
<1>0. NetOK
  BY TypeParts DEF IInv
<1>1. ASSUME UNCHANGED port, UNCHANGED netVars PROVE NetOK'
  BY <1>0, <1>1 DEF netVars, NetOK
<1>2. ASSUME NEW w \in Workers, Recv(w) PROVE NetOK'
  BY <1>0, <1>2, HeadOfPort DEF Recv, netVars, NetOK
<1>3. ASSUME NEW w \in Workers, Connect(w) PROVE NetOK'
  BY <1>0, <1>3 DEF Connect, NetOK
<1>4. ASSUME NEW w \in Workers, Start(w) \/ StartReceiving(w) PROVE NetOK'
  <2>1. PICK t \in Transports : t = obj[w] /\ recvs[t] = 0
    <3>1. CASE pc[w] = "start"
      <4>1. w = Setter
        BY <3>1 DEF IInv, StackInv, SetupLabels
      <4> QED
        BY <3>1, <4>1, SetterAlone DEF Private, Resting
    <3>2. CASE pc[w] = "rearm"
      BY <3>2, HandlerAlone DEF Handling
    <3> QED
      BY <1>4, <3>1, <3>2 DEF Start, StartReceiving, At
  <2>2. recvs' = recvs \/ recvs' = [recvs EXCEPT ![t] = @ + 1]
    BY <1>4, <2>1 DEF Start, StartReceiving
  <2>3. UNCHANGED <<port, peer, inbound>>
    BY <1>4 DEF Start, StartReceiving
  <2> QED
    BY <1>0, <2>1, <2>2, <2>3 DEF NetOK
<1>5. ASSUME NEW w \in Workers,
             \/ SSLProcessingConnect(w) \/ Add(w) \/ Ask(w) \/ OnRecived(w)
             \/ Complition(w) \/ RemoveTransport(w) \/ EraseTransport(w)
      PROVE  NetOK'
  <2>1. ASSUME ~Complition(w) PROVE NetOK'
    BY <1>1, <1>5, <2>1 DEF SSLProcessingConnect, Add, Ask, OnRecived, RemoveTransport,
       EraseTransport
  <2>2. ASSUME Complition(w) PROVE NetOK'
    BY <1>0, <2>2 DEF Complition, Count, NetOK
  <2> QED
    BY <2>1, <2>2
<1>6. ASSUME NEW t \in Transports, ServerAnswers(t) PROVE NetOK'
  <2>1. PICK n \in 1 .. owed[t] : inbound' = [inbound EXCEPT ![t] = @ + n]
    BY <1>6 DEF ServerAnswers, ServerDrops
  <2>2. inbound[t] + n \in 0 .. AnswerSize
    <3>1. owed[t] \in Nat /\ inbound[t] \in Nat /\ owed[t] + inbound[t] <= AnswerSize
      BY <1>6, StockBound
    <3> QED
      BY <2>1, <3>1
  <2> QED
    BY <1>0, <1>6, <2>1, <2>2 DEF NetOK, ServerAnswers, ServerDrops
<1>7. ASSUME NEW t \in Transports, KernelRecv(t) PROVE NetOK'
  <2>1. recvs' = [recvs EXCEPT ![t] = @ - 1] /\ recvs[t] = 1 /\ peer' = peer
    BY <1>0, <1>7 DEF KernelRecv, NetOK
  <2>2. PICK p \in Packet :
           /\ port' = Append(port, p)
           /\ \/ /\ p.bytes \in 1 .. inbound[t]
                 /\ inbound' = [inbound EXCEPT ![t] = @ - p.bytes]
              \/ inbound' = inbound
    BY <1>0, <1>7, KernelPosts
  <2>3. port' \in Seq(Packet)
    BY <1>0, <2>2, AppendProperties DEF NetOK
  <2>4. recvs' \in [Transports -> {0, 1}]
    BY <1>0, <2>1 DEF NetOK
  <2>5. inbound' \in [Transports -> 0 .. AnswerSize]
    <3>1. ASSUME NEW n \in 1 .. inbound[t] PROVE inbound[t] - n \in 0 .. AnswerSize
      BY <1>0 DEF NetOK
    <3> QED
      BY <1>0, <2>2, <3>1 DEF NetOK
  <2> QED
    BY <1>0, <2>1, <2>3, <2>4, <2>5 DEF NetOK
<1>8. ASSUME NEW t \in Transports, PeerClose(t) \/ PeerReset(t) PROVE NetOK'
  <2>1. UNCHANGED <<port, recvs>> /\ 0 \in 0 .. AnswerSize
    BY <1>8 DEF PeerClose, PeerReset
  <2>2. \/ inbound' = inbound /\ peer' = [peer EXCEPT ![t] = "closed"]
        \/ inbound' = [inbound EXCEPT ![t] = 0] /\ peer' = [peer EXCEPT ![t] = "reset"]
    BY <1>8 DEF PeerClose, PeerReset
  <2> QED
    BY <1>0, <2>1, <2>2 DEF NetOK
<1>9. ASSUME NEW t \in Transports, ServerDrops(t) PROVE NetOK'
  BY <1>0, <1>9 DEF NetOK, ServerDrops
<1> QED
  BY <1>2, <1>3, <1>4, <1>5, <1>6, <1>7, <1>8, <1>9
     DEF Next, WorkerStep, SetupStep, NetworkStep, Receives

(* Every step keeps the types.                                             *)
LEMMA TypeStep == ASSUME IInv, Next PROVE TypeOK'
BY ThreadsType, HeapType, MapType, NetType, RequestType, TypeParts
   DEF TypeOK, ThreadsOK, HeapOK, MapOK, NetOK, AskOK

-----------------------------------------------------------------------------
(* The setup's labels lead to each other, and so do a handler's; only      *)
(* RemoveTransport enters the critical section to stay in it.              *)
LEMMA Route ==
  ASSUME IInv, NEW w \in Workers, WorkerStep(w), ~Recv(w)
  PROVE  /\ pc[w] \in SetupLabels \cup Handling \cup {"erase"}
         /\ \/ Leaves(w)
            \/ NextConnection(w) /\ pc[w] \in SetupLabels
            \/ \E l \in SetupLabels : Goto(w, l) /\ pc[w] \in SetupLabels
            \/ \E l \in Handling : Goto(w, l) /\ pc[w] \in Handling
            \/ Goto(w, "erase") /\ RemoveTransport(w) /\ lock' = w
         /\ \/ lock' = lock
            \/ lock = None /\ lock' = w /\ RemoveTransport(w) /\ Goto(w, "erase")
            \/ lock' = None /\ EraseTransport(w)
<1> USE DEF SetupLabels, Handling
<1>1. CASE SetupStep(w)
  BY <1>1 DEF SetupStep, Connect, SSLProcessingConnect, Add, AddConnected, AddTransport,
     Start, Ask, Send, SendThrows, Leaves, At, mapVars
<1>2. CASE OnRecived(w)
  BY <1>2 DEF OnRecived, SendThrows, Leaves, At, mapVars
<1>3. CASE Complition(w) \/ StartReceiving(w)
  BY <1>3 DEF Complition, StartReceiving, Leaves, At, mapVars
<1>4. CASE RemoveTransport(w)
  BY <1>4 DEF RemoveTransport, Hold, Leaves, At
<1>5. CASE EraseTransport(w)
  BY <1>5 DEF EraseTransport, Leave, Leaves
<1> QED
  BY <1>1, <1>2, <1>3, <1>4, <1>5 DEF WorkerStep

(* A transport is allocated by the setup and deleted by its handler.       *)
LEMMA LifeMoves ==
  ASSUME IInv, Next, NEW t \in Transports
  PROVE  \/ life'[t] = life[t]
         \/ /\ life[t] = "unallocated" /\ life'[t] = "live"
            /\ Connect(Setter) /\ obj[Setter] = t
         \/ /\ life[t] = "live" /\ life'[t] = "deleted"
            /\ \E w \in Workers :
                 RemoveTransport(w) /\ pc[w] = "remove" /\ obj[w] = t /\ lock' = w
<1>0. HeapOK
  BY TypeParts DEF IInv
<1>1. ASSUME NEW w \in Workers, Connect(w)
      PROVE  \/ life'[t] = life[t]
             \/ /\ life[t] = "unallocated" /\ life'[t] = "live"
                /\ Connect(Setter) /\ obj[Setter] = t
  <2>1. w = Setter /\ pc[w] = "connect" /\ life[obj[w]] = "unallocated"
    BY <1>1 DEF Connect, IInv, StackInv, SetterInv, SetupLabels
  <2> QED
    BY <1>0, <1>1, <2>1 DEF Connect, HeapOK
<1>2. ASSUME NEW w \in Workers, RemoveTransport(w)
      PROVE  \/ life'[t] = life[t]
             \/ /\ life[t] = "live" /\ life'[t] = "deleted"
                /\ pc[w] = "remove" /\ obj[w] = t /\ lock' = w
  BY <1>0, <1>2 DEF RemoveTransport, Hold, At, HeapOK
<1>3. ASSUME NEW w \in Workers, WorkerStep(w), ~Connect(w), ~RemoveTransport(w)
      PROVE  life' = life
  BY <1>3 DEF WorkerStep, SetupStep, SSLProcessingConnect, Add, Start, Ask, OnRecived, Recv,
     Complition, StartReceiving, EraseTransport, heapVars
<1>4. CASE NetworkStep
  BY <1>4 DEF NetworkStep, ServerAnswers, ServerDrops, Receives, KernelRecv, PeerClose, PeerReset, heapVars
<1> QED
  BY <1>1, <1>2, <1>3, <1>4 DEF Next

(* The labels and the stacks.                                              *)
LEMMA StackStep ==
  ASSUME IInv, Next PROVE StackInv'
<1>0. ThreadsOK /\ HeapOK /\ StackInv
  BY TypeParts DEF IInv
<1>1. \A t \in Transports : life[t] = "deleted" => life'[t] = "deleted"
  BY LifeMoves
<1>2. ASSUME UNCHANGED threadVars, UNCHANGED lock PROVE StackInv'
  BY <1>0, <1>1, <1>2 DEF threadVars, StackInv
<1>3. ASSUME NEW w \in Workers, Recv(w) PROVE StackInv'
  <2>1. CASE UNCHANGED threadVars
    BY <1>2, <1>3, <2>1 DEF Recv, mapVars
  <2>2. CASE ~ UNCHANGED threadVars
    <3>1. port # <<>> /\ lock' = lock
      BY <1>3 DEF Recv, mapVars
    <3>2. PICK t \in Transports : Head(port).io = t /\ Head(port).key = t
      BY <3>1, HeadBrings
    <3>3. pc' = [pc EXCEPT ![w] = "complete"] /\ obj' = [obj EXCEPT ![w] = t]
      BY <1>3, <2>2, <3>2 DEF Recv
    <3>4. \A v \in Workers \ {w} : pc'[v] = pc[v] /\ obj'[v] = obj[v]
      BY <1>0, <3>3 DEF ThreadsOK
    <3>5. pc'[w] = "complete" /\ obj'[w] = t
      BY <1>0, <3>3 DEF ThreadsOK
    <3> QED
      BY <1>0, <1>1, <3>1, <3>4, <3>5 DEF StackInv, SetupLabels
  <2> QED
    BY <2>1, <2>2
<1>4. ASSUME NEW w \in Workers, WorkerStep(w), ~Recv(w) PROVE StackInv'
  <2>1. /\ \A v \in Threads \ {w} : pc'[v] = pc[v] /\ obj'[v] = obj[v]
        /\ Stays(w) => obj'[w] = obj[w]
        /\ Leaves(w) => obj'[w] = None /\ pc'[w] \in {"wait", "dead", "wild"}
        /\ NextConnection(w) =>
              \/ pc'[w] = "connect" /\ obj'[w] \in Transports
              \/ obj'[w] = None /\ pc'[w] = "wait"
    BY <1>0, <1>4, Moves, OneThread
  <2>2. obj[w] \in Transports /\ (pc[w] \in SetupLabels => w = Setter)
    BY <1>4, Route DEF IInv, StackInv
  <2>3. ASSUME NEW v \in Workers, v # w
        PROVE  pc[v] = "erase" => lock' = v
    <3>1. lock' = lock \/ lock = None \/ EraseTransport(w)
      BY <1>4, Route
    <3>2. EraseTransport(w) => lock = w
      BY <1>0 DEF EraseTransport, StackInv
    <3> QED
      BY <1>0, <2>3, <3>1, <3>2 DEF StackInv
  <2>4. ASSUME NEW v \in Workers, v # w
        PROVE  /\ pc'[v] \in SetupLabels => v = Setter
               /\ pc'[v] \in SetupLabels \cup Handling \cup {"erase"} => obj'[v] \in Transports
               /\ pc'[v] \in {"wait", "dead", "wild"} => obj'[v] = None
               /\ pc'[v] = "erase" => lock' = v /\ life'[obj'[v]] = "deleted"
    BY <1>0, <1>1, <2>1, <2>3, <2>4 DEF StackInv
  <2>5. ASSUME NEW l \in SetupLabels \cup Handling, Goto(w, l)
        PROVE  pc'[w] = l /\ obj'[w] = obj[w]
    BY <1>0, <2>5 DEF Goto, ThreadsOK
  <2>6. /\ pc'[w] \in SetupLabels => w = Setter
        /\ pc'[w] \in SetupLabels \cup Handling \cup {"erase"} => obj'[w] \in Transports
        /\ pc'[w] \in {"wait", "dead", "wild"} => obj'[w] = None
        /\ pc'[w] = "erase" => lock' = w /\ life'[obj'[w]] = "deleted"
    <3>1. CASE Leaves(w)
      BY <2>1, <3>1 DEF SetupLabels, Handling
    <3>2. CASE NextConnection(w) /\ pc[w] \in SetupLabels
      BY <2>1, <2>2, <3>2 DEF SetupLabels, Handling
    <3>3. ASSUME NEW l \in SetupLabels, Goto(w, l), pc[w] \in SetupLabels
          PROVE  pc'[w] \in SetupLabels /\ obj'[w] = obj[w] /\ w = Setter
      BY <2>2, <2>5, <3>3
    <3>4. ASSUME NEW l \in Handling, Goto(w, l)
          PROVE  pc'[w] \in Handling /\ obj'[w] = obj[w]
      BY <2>5, <3>4
    <3>5. CASE Goto(w, "erase") /\ RemoveTransport(w) /\ lock' = w
      <4>1. life' = [life EXCEPT ![obj[w]] = "deleted"] /\ pc'[w] = "erase" /\ obj' = obj
        BY <1>0, <3>5 DEF RemoveTransport, Goto, Return, ThreadsOK
      <4> QED
        BY <1>0, <2>2, <3>5, <4>1 DEF HeapOK, SetupLabels, Handling
    <3> QED
      BY <1>4, <2>2, <3>1, <3>2, <3>3, <3>4, <3>5, Route DEF SetupLabels, Handling
  <2> QED
    BY <2>4, <2>6 DEF StackInv
<1>5. CASE NetworkStep
  BY <1>2, <1>5 DEF NetworkStep, ServerAnswers, ServerDrops, Receives, KernelRecv, PeerClose, PeerReset, mapVars
<1> QED
  BY <1>3, <1>4, <1>5 DEF Next

(* The first request of a connection is sent by the setup.                 *)
LEMMA AskedMoves ==
  ASSUME IInv, Next, NEW t \in Transports
  PROVE  \/ asked'[t] = asked[t]
         \/ /\ asked'[t] = TRUE /\ obj[Setter] = t /\ life[t] = "live"
            /\ SSLProcessingConnect(Setter) \/ Ask(Setter)
<1>0. AskOK
  BY TypeParts DEF IInv
<1>1. ASSUME NEW w \in Workers, SSLProcessingConnect(w) \/ Ask(w)
      PROVE  \/ asked'[t] = asked[t]
             \/ /\ asked'[t] = TRUE /\ obj[Setter] = t /\ life[t] = "live"
                /\ SSLProcessingConnect(Setter) \/ Ask(Setter)
  <2>1. w = Setter
    BY <1>1 DEF SSLProcessingConnect, Ask, At, IInv, StackInv, SetupLabels
  <2>2. CASE UNCHANGED requestVars
    BY <2>2 DEF requestVars
  <2>3. CASE Send(obj[w]) /\ life[obj[w]] = "live"
    BY <1>0, <1>1, <2>1, <2>3 DEF Send, AskOK
  <2> QED
    BY <1>1, <2>2, <2>3 DEF SSLProcessingConnect, Ask, At, SendThrows
<1>2. ASSUME NEW w \in Workers, OnRecived(w) PROVE asked'[t] = asked[t]
  <2>1. CASE UNCHANGED requestVars
    BY <2>1 DEF requestVars
  <2>2. CASE ~ UNCHANGED requestVars
    <3>1. asked' = [asked EXCEPT ![obj[w]] = TRUE] /\ curr[obj[w]] >= AnswerSize
          /\ pc[w] = "callback"
      BY <1>2, <2>2 DEF OnRecived, At, SendThrows, AnswerArrived, Send
    <3>2. PICK u \in Transports : u = obj[w]
      BY <3>1 DEF IInv, StackInv, Handling
    <3>3. curr[u] >= AnswerSize
      BY <3>1, <3>2
    <3>4. /\ owed[u] \in Nat /\ dropped[u] \in Nat /\ inbound[u] \in Nat /\ curr[u] \in Nat
          /\ ~asked[u] => owed[u] + inbound[u] + curr[u] + dropped[u] = 0
      BY StockBound DEF Stock
    <3>5. asked[u]
      BY <3>3, <3>4
    <3>6. asked[u] \in BOOLEAN
      BY <1>0 DEF AskOK
    <3> QED
      BY <1>0, <3>1, <3>2, <3>5, <3>6 DEF AskOK
  <2> QED
    BY <2>1, <2>2
<1>3. ASSUME NEW w \in Workers, WorkerStep(w), ~SSLProcessingConnect(w), ~Ask(w), ~OnRecived(w)
      PROVE  asked' = asked
  BY <1>3 DEF WorkerStep, SetupStep, Connect, Add, Start, requestVars
<1>4. CASE NetworkStep
  BY <1>4 DEF NetworkStep, ServerAnswers, ServerDrops, Receives, requestVars
<1> QED
  BY <1>1, <1>2, <1>3, <1>4 DEF Next

(* The setup goes from one connection to the next in order.                *)
LEMMA SetterStep ==
  ASSUME IInv, Next PROVE SetterInv'
<1> SUFFICES ASSUME pc'[Setter] \in SetupLabels
             PROVE  /\ \A u \in Transports : u > obj'[Setter] => life'[u] = "unallocated"
                    /\ pc'[Setter] = "connect" => life'[obj'[Setter]] = "unallocated"
                    /\ pc'[Setter] \in Private => life'[obj'[Setter]] = "live"
                    /\ pc'[Setter] = "ask" => life'[obj'[Setter]] # "unallocated"
                    /\ pc'[Setter] = "hello" => IsSSL(obj'[Setter])
                    /\ pc'[Setter] \in {"connect", "hello", "ask"} => ~asked'[obj'[Setter]]
                    /\ pc'[Setter] \in {"add", "start"} /\ ~IsSSL(obj'[Setter])
                         => ~asked'[obj'[Setter]]
  BY DEF SetterInv, SetupLabels, Private, IsSSL
<1>0. ThreadsOK /\ HeapOK /\ AskOK /\ SetterInv /\ StackInv
  BY TypeParts DEF IInv
<1>1. ASSUME pc'[Setter] = pc[Setter], obj'[Setter] = obj[Setter],
             ~WorkerStep(Setter)
      PROVE  /\ \A u \in Transports : u > obj'[Setter] => life'[u] = "unallocated"
             /\ pc'[Setter] = "connect" => life'[obj'[Setter]] = "unallocated"
             /\ pc'[Setter] \in Private => life'[obj'[Setter]] = "live"
             /\ pc'[Setter] = "ask" => life'[obj'[Setter]] # "unallocated"
             /\ asked'[obj'[Setter]] = asked[obj'[Setter]]
  <2>1. PICK t \in Transports : t = obj[Setter]
    BY <1>0, <1>1 DEF StackInv
  <2>2. ~Connect(Setter) /\ ~SSLProcessingConnect(Setter) /\ ~Ask(Setter)
    BY <1>1 DEF WorkerStep, SetupStep
  <2>3. asked'[t] = asked[t]
    BY <2>2, AskedMoves
  <2>4. \A u \in Transports : life[u] = "unallocated" => life'[u] = "unallocated"
    BY <2>2, LifeMoves
  <2>5. life'[t] = life[t] \/ (life'[t] = "deleted" /\ pc[Setter] \notin Private)
    <3>1. ASSUME NEW w \in Workers, pc[w] = "remove", obj[w] = t
          PROVE  pc[Setter] \notin Private
      BY <2>1, <3>1, HandlerAlone DEF InSetup, Handling
    <3> QED
      BY <2>2, <3>1, LifeMoves
  <2> QED
    BY <1>0, <1>1, <2>1, <2>3, <2>4, <2>5 DEF SetterInv
<1>2. CASE pc'[Setter] = pc[Setter] /\ obj'[Setter] = obj[Setter] /\ ~WorkerStep(Setter)
  BY <1>0, <1>1, <1>2 DEF SetterInv
<1>3. CASE SetupStep(Setter)
  <2>1. PICK t \in Transports : t = obj[Setter]
    BY <1>0, <1>3 DEF StackInv, SetupLabels, SetupStep, Connect, SSLProcessingConnect,
       Add, Start, Ask, At
  <2>2. /\ \A u \in Transports : u > t => life[u] = "unallocated"
        /\ pc[Setter] = "connect" => life[t] = "unallocated"
        /\ pc[Setter] \in Private => life[t] = "live"
        /\ pc[Setter] = "ask" => life[t] # "unallocated"
        /\ pc[Setter] = "hello" => IsSSL(t)
        /\ pc[Setter] \in {"connect", "hello", "ask"} => ~asked[t]
        /\ pc[Setter] \in {"add", "start"} /\ ~IsSSL(t) => ~asked[t]
    BY <1>0, <1>3, <2>1 DEF SetterInv, SetupLabels, SetupStep, Connect,
       SSLProcessingConnect, Add, Start, Ask, At
  <2>3. ASSUME Connect(Setter)
        PROVE  /\ obj'[Setter] = t /\ asked' = asked
               /\ life'[t] = "live" /\ \A u \in Transports \ {t} : life'[u] = life[u]
               /\ pc[Setter] = "connect"
               /\ pc'[Setter] = IF IsSSL(t) THEN "hello" ELSE "add"
    <3>1. pc'[Setter] # "dead"
      BY DEF SetupLabels
    <3>2. /\ life' = [life EXCEPT ![t] = "live"]
          /\ Goto(Setter, IF IsSSL(t) THEN "hello" ELSE "add")
      BY <1>0, <2>1, <2>3, <3>1 DEF Connect, Die, ThreadsOK
    <3> QED
      BY <1>0, <2>1, <2>3, <3>2 DEF Connect, Goto, ThreadsOK, HeapOK, requestVars
  <2>4. ASSUME SSLProcessingConnect(Setter)
        PROVE  obj'[Setter] = t /\ life' = life /\ pc[Setter] = "hello" /\ pc'[Setter] = "add"
    <3>1. pc'[Setter] # "dead"
      BY DEF SetupLabels
    <3> QED
      BY <1>0, <2>1, <2>4, <3>1 DEF SSLProcessingConnect, SendThrows, At, Goto, Die,
         ThreadsOK, heapVars
  <2>5. ASSUME Add(Setter)
        PROVE  /\ obj'[Setter] = t /\ life' = life /\ asked' = asked
               /\ pc[Setter] = "add" /\ pc'[Setter] = "start"
    BY <1>0, <2>1, <2>5 DEF Add, At, Goto, ThreadsOK, heapVars, requestVars
  <2>6. ASSUME Start(Setter), Goto(Setter, "ask"), Asks(t)
        PROVE  /\ obj'[Setter] = t /\ life' = life /\ asked' = asked
               /\ pc[Setter] = "start" /\ pc'[Setter] = "ask" /\ ~IsSSL(t)
    BY <1>0, <2>1, <2>6 DEF Start, At, Goto, ThreadsOK, heapVars, requestVars, Asks
  <2>7. ASSUME NextConnection(Setter), Start(Setter) \/ Ask(Setter)
        PROVE  \E u \in Transports :
                 /\ u = t + 1 /\ obj'[Setter] = u /\ pc'[Setter] = "connect"
                 /\ life' = life /\ asked'[u] = asked[u]
    <3>1. obj'[Setter] = t + 1 /\ pc'[Setter] = "connect" /\ t + 1 \in Transports
      BY <1>0, <2>1, <2>7, OneThread DEF SetupLabels
    <3>2. life' = life
      BY <2>7 DEF Start, Ask, heapVars
    <3>3. t + 1 # t
      OBVIOUS
    <3>4. asked'[t + 1] = asked[t + 1]
      BY <2>1, <3>1, <3>3, AskedMoves
    <3> QED
      BY <3>1, <3>2, <3>4
  <2>8. ASSUME NEW u \in Transports, u = t + 1
        PROVE  /\ life[u] = "unallocated" /\ ~asked[u]
               /\ \A v \in Transports : v > u => life[v] = "unallocated"
    <3>1. u > t /\ \A v \in Transports : v > u => v > t
      BY <2>8
    <3> QED
      BY <2>2, <3>1 DEF IInv, Conn
  <2>9. \/ Connect(Setter) \/ SSLProcessingConnect(Setter) \/ Add(Setter)
        \/ Start(Setter) /\ Goto(Setter, "ask") /\ Asks(t)
        \/ NextConnection(Setter) /\ (Start(Setter) \/ Ask(Setter))
    <3>1. ~Die(Setter) /\ ~GoWild(Setter)
      BY <1>0 DEF Die, GoWild, SetupLabels, ThreadsOK
    <3> QED
      BY <1>3, <2>1, <3>1 DEF SetupStep, Start, Ask, SendThrows
  <2>10. CASE Connect(Setter)
    <3>1. \A u \in Transports : u > t => u # t
      OBVIOUS
    <3> QED
      BY <2>2, <2>3, <2>10, <3>1 DEF Private
  <2>11. CASE SSLProcessingConnect(Setter)
    BY <2>2, <2>4, <2>11 DEF Private
  <2>12. CASE Add(Setter)
    BY <2>2, <2>5, <2>12 DEF Private
  <2>13. CASE Start(Setter) /\ Goto(Setter, "ask") /\ Asks(t)
    BY <2>2, <2>6, <2>13 DEF Private
  <2>14. CASE NextConnection(Setter) /\ (Start(Setter) \/ Ask(Setter))
    BY <2>7, <2>8, <2>14 DEF Private
  <2> QED
    BY <2>9, <2>10, <2>11, <2>12, <2>13, <2>14
<1>4. CASE WorkerStep(Setter) /\ ~SetupStep(Setter)
  <2>1. CASE Recv(Setter)
    <3>1. pc[Setter] = "wait" /\ (pc' = pc \/ pc'[Setter] \in {"accept", "complete"})
      BY <1>0, <2>1 DEF Recv, ThreadsOK, threadVars
    <3> QED
      BY <3>1 DEF SetupLabels
  <2>2. CASE ~Recv(Setter)
    <3>1. pc[Setter] \notin SetupLabels
      BY <1>4, <2>2 DEF WorkerStep, OnRecived, Complition, StartReceiving, RemoveTransport,
         EraseTransport, At, SetupLabels
    <3>2. ASSUME NEW l \in Handling \cup {"erase"}, Goto(Setter, l) PROVE FALSE
      BY <1>0, <3>2 DEF Goto, ThreadsOK, SetupLabels, Handling
    <3>3. ~Leaves(Setter)
      BY <1>0 DEF Leaves, Return, Die, GoWild, ThreadsOK, SetupLabels
    <3> QED
      BY <1>4, <2>2, <3>1, <3>2, <3>3, Route
  <2> QED
    BY <2>1, <2>2
<1>5. ASSUME ~WorkerStep(Setter) PROVE pc'[Setter] = pc[Setter] /\ obj'[Setter] = obj[Setter]
  <2>1. ASSUME NEW w \in Workers, w # Setter, WorkerStep(w)
        PROVE  pc'[Setter] = pc[Setter] /\ obj'[Setter] = obj[Setter]
    <3>1. CASE Recv(w)
      BY <1>0, <2>1, <3>1 DEF Recv, ThreadsOK, threadVars
    <3>2. CASE ~Recv(w)
      BY <1>0, <2>1, <3>2, Moves, OneThread
    <3> QED
      BY <3>1, <3>2
  <2>2. CASE NetworkStep
    BY <2>2 DEF NetworkStep, ServerAnswers, ServerDrops, Receives, KernelRecv, PeerClose, PeerReset, threadVars
  <2> QED
    BY <1>5, <2>1, <2>2 DEF Next
<1> QED
  BY <1>2, <1>3, <1>4, <1>5

-----------------------------------------------------------------------------
(* Who stays clear of the critical section leaves its owner to his work.   *)
LEMMA OwnerStays ==
  ASSUME IInv, Next, lock # None, \A w \in Workers : ~EraseTransport(w)
  PROVE  /\ lock' = lock /\ lock \in Workers
         /\ pc'[lock] = pc[lock] /\ obj'[lock] = obj[lock]
<1>0. ThreadsOK /\ lock \in Workers /\ pc[lock] = "erase"
  BY TypeParts DEF IInv, TableInv
<1>1. ASSUME NEW w \in Workers, WorkerStep(w)
      PROVE  lock' = lock /\ pc'[lock] = pc[lock] /\ obj'[lock] = obj[lock]
  <2>1. CASE Recv(w)
    BY <1>0, <2>1 DEF Recv, ThreadsOK, threadVars, mapVars
  <2>2. CASE ~Recv(w)
    <3>1. lock' = lock
      BY <1>1, <2>2, Route
    <3>2. w # lock
      BY <1>0, <1>1, <2>2 DEF WorkerStep, SetupStep, Connect, SSLProcessingConnect, Add,
         Start, Ask, OnRecived, Complition, StartReceiving, RemoveTransport, At
    <3> QED
      BY <1>0, <1>1, <2>2, <3>1, <3>2, Moves, OneThread
  <2> QED
    BY <2>1, <2>2
<1>2. CASE NetworkStep
  BY <1>0, <1>2 DEF NetworkStep, ServerAnswers, ServerDrops, Receives, KernelRecv, PeerClose, PeerReset,
     threadVars, mapVars
<1> QED
  BY <1>0, <1>1, <1>2 DEF Next

(* The handle of a transport is set when it is allocated.                  *)
LEMMA SockMoves ==
  ASSUME IInv, Next, NEW t \in Transports, life[t] # "unallocated"
  PROVE  sock'[t] = sock[t]
<1>0. HeapOK
  BY TypeParts DEF IInv
<1>1. ASSUME NEW w \in Workers, Connect(w) PROVE sock'[t] = sock[t]
  <2>1. life[obj[w]] = "unallocated"
    BY <1>1 DEF Connect, IInv, StackInv, SetterInv, SetupLabels
  <2> QED
    BY <1>0, <1>1, <2>1 DEF Connect, HeapOK
<1>2. ASSUME NEW w \in Workers, WorkerStep(w), ~Connect(w) PROVE sock' = sock
  BY <1>2 DEF WorkerStep, SetupStep, SSLProcessingConnect, Add, Start, Ask, OnRecived, Recv,
     Complition, StartReceiving, RemoveTransport, EraseTransport, heapVars
<1>3. CASE NetworkStep
  BY <1>3 DEF NetworkStep, ServerAnswers, ServerDrops, Receives, KernelRecv, PeerClose, PeerReset, heapVars
<1> QED
  BY <1>1, <1>2, <1>3 DEF Next

(* The map changes in three places.                                        *)
LEMMA TableMoves ==
  ASSUME IInv, Next
  PROVE  \/ table' = table
         \/ Add(Setter)
         \/ \E w \in Workers : EraseTransport(w)
<1>1. ASSUME NEW w \in Workers, Add(w) PROVE w = Setter
  BY <1>1 DEF Add, At, IInv, StackInv, SetupLabels
<1>2. ASSUME NEW w \in Workers, WorkerStep(w), ~Add(w), ~EraseTransport(w)
      PROVE  table' = table
  BY <1>2 DEF WorkerStep, SetupStep, Connect, SSLProcessingConnect, Start, Ask, OnRecived, Recv,
     Complition, StartReceiving, RemoveTransport, mapVars
<1>3. CASE NetworkStep
  BY <1>3 DEF NetworkStep, ServerAnswers, ServerDrops, Receives, KernelRecv, PeerClose, PeerReset, mapVars
<1> QED
  BY <1>1, <1>2, <1>3 DEF Next

(* What Add does: the map holds the connection under its own handle.       *)
LEMMA AddEnters ==
  ASSUME IInv, Add(Setter)
  PROVE  \E t \in Transports :
           /\ t = obj[Setter] /\ life[t] = "live" /\ sock[t] \in Sockets
           /\ lock = None /\ lock' = None /\ UNCHANGED <<life, sock, obj>>
           /\ table'[sock[t]] = t
           /\ \A s \in Sockets \ {sock[t]} : table'[s] = table[s]
<1>0. HeapOK /\ MapOK
  BY TypeParts DEF IInv
<1>1. PICK t \in Transports : t = obj[Setter] /\ life[t] = "live"
  BY DEF Add, At, IInv, StackInv, SetupLabels
<1>2. /\ lock = None /\ lock' = None /\ UNCHANGED <<life, sock, obj>>
      /\ table' = IF table[sock[t]] = None THEN [table EXCEPT ![sock[t]] = t] ELSE table
  BY <1>1 DEF Add, AddConnected, AddTransport, Goto, heapVars
<1>3. sock[t] \in Sockets
  BY <1>0, <1>1 DEF IInv, SocketsHeld
<1>4. table[sock[t]] # None => table[sock[t]] = t
  <2> SUFFICES ASSUME table[sock[t]] # None PROVE table[sock[t]] = t
    OBVIOUS
  <2>1. PICK e \in Transports : e = table[sock[t]]
    BY <1>0, <1>3 DEF MapOK
  <2>2. EntryOK(sock[t])
    BY <1>3 DEF IInv, TableInv
  <2>3. life[e] = "live" /\ sock[e] = sock[t]
    BY <1>2, <2>1, <2>2 DEF EntryOK
  <2> QED
    BY <1>1, <2>1, <2>3 DEF IInv, SocketsApart
<1>5. table'[sock[t]] = t /\ \A s \in Sockets \ {sock[t]} : table'[s] = table[s]
  BY <1>0, <1>2, <1>3, <1>4 DEF MapOK
<1> QED
  BY <1>1, <1>2, <1>3, <1>5

(* Add enters a connection in the map and EraseTransport removes it; in    *)
(* between only the owner of the critical section has a bad entry.         *)
LEMMA TableStep ==
  ASSUME IInv, Next PROVE TableInv'
<1>0. ThreadsOK /\ HeapOK /\ MapOK /\ StackInv' /\ TableInv
  BY TypeParts, StackStep DEF IInv
<1>1. lock' # None => lock' \in Workers /\ pc'[lock'] = "erase"
  <2> SUFFICES ASSUME lock' # None PROVE lock' \in Workers /\ pc'[lock'] = "erase"
    OBVIOUS
  <2>1. ASSUME NEW w \in Workers, EraseTransport(w) PROVE FALSE
    BY <2>1 DEF EraseTransport
  <2>2. CASE lock # None
    BY <1>0, <2>1, <2>2, OwnerStays DEF TableInv
  <2>3. CASE lock = None
    <3>1. ASSUME NEW w \in Workers, WorkerStep(w)
          PROVE  lock' = None \/ (lock' = w /\ Goto(w, "erase"))
      <4>1. CASE Recv(w)
        BY <2>3, <4>1 DEF Recv, mapVars
      <4>2. CASE ~Recv(w)
        BY <2>3, <3>1, <4>2, Route
      <4> QED
        BY <4>1, <4>2
    <3>2. NetworkStep => lock' = None
      BY <2>3 DEF NetworkStep, ServerAnswers, ServerDrops, Receives, KernelRecv, PeerClose, PeerReset, mapVars
    <3>3. PICK w \in Workers : lock' = w /\ Goto(w, "erase")
      BY <3>1, <3>2 DEF Next
    <3> QED
      BY <1>0, <3>3 DEF Goto, ThreadsOK
  <2> QED
    BY <2>2, <2>3
<1>2. ASSUME NEW s \in Sockets PROVE EntryOK(s)'
  <2>0. EntryOK(s) /\ table[s] \in Transports \cup {None}
    BY <1>0 DEF TableInv, MapOK
  <2>1. CASE Add(Setter)
    <3>1. PICK t \in Transports :
           /\ t = obj[Setter] /\ life[t] = "live" /\ sock[t] \in Sockets
           /\ lock = None /\ lock' = None /\ UNCHANGED <<life, sock, obj>>
           /\ table'[sock[t]] = t
           /\ \A r \in Sockets \ {sock[t]} : table'[r] = table[r]
      BY <2>1, AddEnters
    <3> QED
      BY <2>0, <3>1 DEF EntryOK
  <2>2. ASSUME NEW w \in Workers, EraseTransport(w) PROVE EntryOK(s)'
    <3>1. lock = w /\ lock' = None /\ UNCHANGED <<life, sock>>
      BY <2>2 DEF EraseTransport, IInv, StackInv, heapVars
    <3>2. table'[s] # None => table'[s] = table[s] /\ table[s] # obj[w]
      BY <2>2 DEF EraseTransport, Erased
    <3> QED
      BY <2>0, <3>1, <3>2 DEF EntryOK
  <2>3. CASE table' = table /\ table[s] # None /\ \A w \in Workers : ~EraseTransport(w)
    <3>1. PICK t \in Transports : t = table[s] /\ life[t] # "unallocated" /\ sock[t] = s
      BY <2>0, <2>3 DEF EntryOK
    <3>2. sock'[t] = s
      BY <3>1, SockMoves
    <3>3. CASE lock # None
      BY <2>0, <2>3, <3>1, <3>2, <3>3, OwnerStays, LifeMoves DEF EntryOK
    <3>4. CASE lock = None
      <4>1. life[t] = "live"
        BY <2>0, <3>1, <3>4 DEF EntryOK
      <4>2. CASE life'[t] = life[t]
        BY <2>3, <3>1, <3>2, <4>1, <4>2 DEF EntryOK
      <4>3. ASSUME NEW w \in Workers, RemoveTransport(w), obj[w] = t, lock' = w,
                   life'[t] = "deleted"
            PROVE  EntryOK(s)'
        <5>1. obj'[w] = t
          BY <1>0, <3>4, <4>3 DEF RemoveTransport, Hold, Goto
        <5> QED
          BY <2>3, <3>1, <3>2, <4>3, <5>1 DEF EntryOK
      <4> QED
        BY <4>1, <4>2, <4>3, LifeMoves
    <3> QED
      BY <3>3, <3>4
  <2> QED
    BY <2>1, <2>2, <2>3, TableMoves DEF EntryOK
<1> QED
  BY <1>1, <1>2 DEF TableInv

(* Connect takes a handle that no live transport has.                      *)
LEMMA ApartStep ==
  ASSUME IInv, Next PROVE SocketsApart' /\ SocketsHeld'
<1>0. HeapOK /\ SocketsApart /\ SocketsHeld
  BY TypeParts DEF IInv
<1>1. ASSUME NEW t \in Transports, life'[t] = "live", ~(Connect(Setter) /\ obj[Setter] = t)
      PROVE  life[t] = "live" /\ sock'[t] = sock[t]
  BY <1>1, LifeMoves, SockMoves
<1>2. ASSUME NEW t \in Transports, life'[t] = "live", Connect(Setter), obj[Setter] = t,
             life[t] = "unallocated"
      PROVE  /\ sock'[t] \in Sockets
             /\ \A u \in Transports : life[u] = "live" => sock[u] # sock'[t]
  <2>1. PICK s \in FreeSockets : sock' = [sock EXCEPT ![t] = s]
    BY <1>2 DEF Connect
  <2>2. s \in Sockets /\ \A u \in Transports : life[u] = "live" => sock[u] # s
    BY <2>1 DEF FreeSockets, OpenSockets
  <2>3. sock'[t] = s
    BY <1>0, <2>1 DEF HeapOK
  <2> QED
    BY <2>2, <2>3
<1>3. ASSUME NEW t \in Transports, Connect(Setter), obj[Setter] = t PROVE life[t] = "unallocated"
  BY <1>3 DEF Connect, IInv, SetterInv, SetupLabels
<1>4. SocketsHeld'
  BY <1>0, <1>1, <1>2, <1>3 DEF SocketsHeld
<1>5. ASSUME NEW t \in Transports, NEW u \in Transports,
             life'[t] = "live", life'[u] = "live", sock'[t] = sock'[u]
      PROVE  t = u
  <2>1. CASE Connect(Setter) /\ obj[Setter] = t /\ t # u
    BY <1>1, <1>2, <1>3, <1>5, <2>1
  <2>2. CASE Connect(Setter) /\ obj[Setter] = u /\ t # u
    BY <1>1, <1>2, <1>3, <1>5, <2>2
  <2>3. CASE ~(Connect(Setter) /\ obj[Setter] \in {t, u})
    BY <1>0, <1>1, <1>5, <2>3 DEF SocketsApart
  <2> QED
    BY <2>1, <2>2, <2>3
<1> QED
  BY <1>4, <1>5 DEF SocketsApart

(* A registered live transport stays registered.                           *)
LEMMA EntryStays ==
  ASSUME IInv, Next, NEW t \in Transports, t \in Registered, life[t] = "live"
  PROVE  t \in Registered'
<1>0. MapOK
  BY TypeParts DEF IInv
<1>1. PICK s \in Sockets : table[s] = t
  BY DEF Registered
<1>2. CASE table' = table
  BY <1>1, <1>2 DEF Registered
<1>3. CASE Add(Setter)
  <2>1. PICK u \in Transports :
          table'[sock[u]] = u /\ u = obj[Setter] /\ life[u] = "live"
          /\ \A r \in Sockets \ {sock[u]} : table'[r] = table[r]
    BY <1>3, AddEnters
  <2>2. CASE s = sock[u]
    <3>1. lock = None
      BY <1>3 DEF Add, AddConnected, AddTransport
    <3>2. EntryOK(s)
      BY DEF IInv, TableInv
    <3>3. sock[t] = s
      BY <1>1, <3>2 DEF EntryOK
    <3>4. t = u
      BY <2>1, <2>2, <3>3 DEF IInv, SocketsApart
    <3> QED
      BY <2>1, <2>2, <3>4 DEF Registered
  <2>3. CASE s # sock[u]
    <3>1. table'[s] = t
      BY <1>1, <2>1, <2>3
    <3> QED
      BY <3>1 DEF Registered
  <2> QED
    BY <2>2, <2>3
<1>4. ASSUME NEW w \in Workers, EraseTransport(w) PROVE t \in Registered'
  <2>1. life[obj[w]] = "deleted"
    BY <1>4 DEF EraseTransport, IInv, StackInv
  <2>2. table'[s] = t
    BY <1>1, <1>4, <2>1 DEF EraseTransport, Erased
  <2> QED
    BY <2>2 DEF Registered
<1> QED
  BY <1>2, <1>3, <1>4, TableMoves

(* Only Ask, on a connection deleted before it, drives a worker wild.      *)
LEMMA WildStep ==
  ASSUME IInv, Next PROVE WildInv'
<1>0. ThreadsOK /\ AskOK
  BY TypeParts DEF IInv
<1>1. ASSUME NEW t \in Transports, life[t] = "deleted", ~asked[t]
      PROVE  life'[t] = "deleted" /\ ~asked'[t]
  <2>1. asked'[t] = asked[t] /\ life'[t] = life[t]
    BY <1>1, AskedMoves, LifeMoves
  <2> QED
    BY <1>1, <2>1
<1>2. CASE \E w \in Workers : pc[w] = "wild"
  BY <1>1, <1>2 DEF IInv, WildInv
<1>3. CASE \A w \in Workers : pc[w] # "wild"
  <2>1. ASSUME NEW w \in Workers, NEW v \in Workers, pc'[v] = "wild", WorkerStep(w)
        PROVE  \E t \in Transports : life[t] = "deleted" /\ ~asked[t]
    <3>1. CASE Recv(w)
      BY <1>0, <1>3, <2>1, <3>1 DEF Recv, ThreadsOK, threadVars
    <3>2. CASE ~Recv(w)
      <4>1. v = w
        BY <1>0, <1>3, <2>1, <3>2, Moves, OneThread
      <4>2. GoWild(w)
        <5>1. ASSUME NEW l \in SetupLabels \cup Handling \cup {"erase"}, Goto(w, l) PROVE FALSE
          BY <1>0, <2>1, <4>1, <5>1 DEF Goto, ThreadsOK, SetupLabels, Handling
        <5>2. ~NextConnection(w)
          BY <1>0, <2>1, <4>1, OneThread
        <5>3. ~Return(w) /\ ~Die(w)
          BY <1>0, <2>1, <4>1 DEF Return, Die, ThreadsOK
        <5> QED
          BY <2>1, <3>2, <5>1, <5>2, <5>3, Route DEF Leaves
      <4>3. Ask(w) /\ life[obj[w]] = "deleted"
        <5>1. ASSUME NEW l \in Labels, Goto(w, l), l # "wild" PROVE FALSE
          BY <1>0, <2>1, <4>1, <5>1 DEF Goto, ThreadsOK
        <5>2. ~NextConnection(w) /\ ~Return(w) /\ ~Die(w)
          BY <1>0, <2>1, <4>1, OneThread DEF Return, Die, ThreadsOK
        <5>3. {"hello", "add", "start", "ask", "callback", "rearm", "remove", "erase"}
                \subseteq Labels \ {"wild"}
          BY DEF Labels
        <5> QED
          BY <2>1, <3>2, <5>1, <5>2, <5>3 DEF WorkerStep, SetupStep, Connect,
             SSLProcessingConnect, Add, Start, Ask, SendThrows, OnRecived, Complition,
             StartReceiving, RemoveTransport, EraseTransport, Leave
      <4>4. w = Setter /\ obj[w] \in Transports /\ ~asked[obj[w]]
        BY <4>3 DEF Ask, IInv, StackInv, SetterInv, SetupLabels
      <4> QED
        BY <4>3, <4>4
    <3> QED
      BY <3>1, <3>2
  <2>2. NetworkStep => \A v \in Workers : pc'[v] # "wild"
    BY <1>3 DEF NetworkStep, ServerAnswers, ServerDrops, Receives, KernelRecv, PeerClose, PeerReset, threadVars
  <2> QED
    BY <1>1, <2>1, <2>2 DEF Next, WildInv
<1> QED
  BY <1>2, <1>3

-----------------------------------------------------------------------------
(* What a step leaves alone of a connection: its own state...              *)
Quiet(t) ==
  /\ recvs'[t] = recvs[t] /\ inbound'[t] = inbound[t] /\ curr'[t] = curr[t]
  /\ peer'[t] = peer[t] /\ life'[t] = life[t]
  /\ asked'[t] = asked[t] /\ owed'[t] = owed[t] /\ dropped'[t] = dropped[t]

(* ...its place in the setup...                                            *)
SetterAside(t) ==
  obj'[Setter] = t /\ pc'[Setter] \in Private =>
    obj[Setter] = t /\ pc'[Setter] = pc[Setter]

(* ...its handlers...                                                      *)
SameHandlers(t) ==
  /\ Handlers(t)' = Handlers(t)
  /\ \A w \in Handlers(t) : pc'[w] = pc[w] /\ nbytes'[w] = nbytes[w]

(* ...and its packets, though they may move up the port.                   *)
SamePackets(t) ==
  /\ PacketsOf(t)' = {} <=> PacketsOf(t) = {}
  /\ \A i \in PacketsOf(t)' : \E j \in PacketsOf(t) : port'[i] = port[j]
  /\ AtMostOne(PacketsOf(t)) => AtMostOne(PacketsOf(t)')

Same(t) == Quiet(t) /\ SetterAside(t) /\ SameHandlers(t) /\ SamePackets(t)

(* The port keeps the packets of a connection when it is not touched.      *)
LEMMA PortSame ==
  ASSUME NEW t \in Transports, port' = port PROVE SamePackets(t)
<1>1. PacketsOf(t)' = PacketsOf(t)
  BY DEF PacketsOf
<1> QED
  BY <1>1 DEF SamePackets

(* Handlers that stay keep the bytes they carry.                           *)
LEMMA SameUncounted ==
  ASSUME NEW t \in Transports, SameHandlers(t)
  PROVE  Uncounted(t)' = Uncounted(t) /\ \A w \in Uncounted(t) : nbytes'[w] = nbytes[w]
BY DEF SameHandlers, Uncounted

(* What follows for a connection whose packets and handlers stay and whose *)
(* books still add up.                                                     *)
LEMMA ConnKept ==
  ASSUME TypeOK, NEW t \in Transports, Conn(t), SamePackets(t), SameHandlers(t),
         SetterAside(t), recvs'[t] = recvs[t], life'[t] = life[t],
         peer'[t] = "none" <=> peer[t] = "none",
         asked[t] => asked'[t],
         life[t] = "unallocated" => ~asked'[t],
         \A n \in Nat : Within(t, n) => Within(t, n)'
  PROVE  Conn(t)'
<1>0. ThreadsOK /\ NetOK
  BY TypeParts
<1>1. /\ Uncounted(t)' = Uncounted(t)
      /\ \A w \in Uncounted(t) : nbytes'[w] = nbytes[w] /\ nbytes[w] \in Nat
  BY <1>0, SameUncounted DEF Uncounted, Handlers, ThreadsOK
<1>2. ASSUME NEW i \in PacketsOf(t)'
      PROVE  /\ Within(t, port[i].bytes)' /\ port'[i].key = t
             /\ ~port'[i].ok => port'[i].bytes = 0
  <2>1. PICK j \in PacketsOf(t) : port'[i] = port[j]
    BY <1>2 DEF SamePackets
  <2>2. port[j] \in Packet
    BY <1>0 DEF PacketsOf, NetOK
  <2>3. PICK n \in Nat : n = port[j].bytes
    BY <2>2 DEF Packet
  <2>4. Within(t, n)
    BY <2>3 DEF Conn, Books
  <2>5. Within(t, n)' /\ n = port'[i].bytes
    BY <2>1, <2>3, <2>4
  <2> QED
    BY <2>1, <2>5 DEF Conn, Within
<1>3. ASSUME NEW w \in Uncounted(t)' PROVE Within(t, nbytes[w])'
  <2>1. PICK n \in Nat : n = nbytes[w] /\ n = nbytes'[w]
    BY <1>1, <1>3
  <2>2. Within(t, n)
    BY <1>1, <1>3, <2>1 DEF Conn, Books
  <2>3. Within(t, n)'
    BY <2>2
  <2> QED
    BY <2>1, <2>3 DEF Within
<1>4. PacketsOf(t)' = {} /\ Uncounted(t)' = {} => Within(t, 0)'
  BY <1>1 DEF Conn, Books, SamePackets
<1>5. Books(t)'
  BY <1>2, <1>3, <1>4 DEF Books
<1>6. HandledByOne(t)'
  <2>1. InSetup(t, {"hello", "add", "start"})' => InSetup(t, {"hello", "add", "start"})
    BY DEF SetterAside, InSetup, Private
  <2> QED
    BY <2>1 DEF HandledByOne, Conn, SamePackets, SameHandlers, AtMostOne
<1>7. Resting(t) => Resting(t)'
  BY DEF Resting, SamePackets, SameHandlers
<1>8. \A w \in Handlers(t)' : ~asked'[t] => nbytes'[w] = 0
  BY DEF SameHandlers, Conn
<1> QED
  BY <1>2, <1>5, <1>6, <1>7, <1>8 DEF Conn

(* A connection a step leaves alone keeps its part of the invariant.       *)
LEMMA SameConn ==
  ASSUME TypeOK, NEW t \in Transports, Conn(t), Same(t) PROVE Conn(t)'
<1>1. \A n \in Nat : Within(t, n) => Within(t, n)'
  BY DEF Same, Quiet, Within, Stock
<1> QED
  BY <1>1, ConnKept DEF Same, Quiet, Conn

(* A thread that does not work on the connection leaves it alone...        *)
LEMMA ThreadElsewhere ==
  ASSUME NEW t \in Transports, NEW w \in Workers, Quiet(t), port' = port,
         \A v \in Workers \ {w} :
           pc'[v] = pc[v] /\ obj'[v] = obj[v] /\ nbytes'[v] = nbytes[v],
         obj[w] # t \/ pc[w] \notin Handling,
         obj'[w] # t \/ pc'[w] \notin Handling \cup Private
  PROVE  Same(t)
<1>1. SamePackets(t)
  BY PortSame
<1>2. w \notin Handlers(t) /\ w \notin Handlers(t)'
  BY DEF Handlers
<1>3. SameHandlers(t)
  BY <1>2 DEF SameHandlers, Handlers
<1>4. SetterAside(t)
  BY DEF SetterAside
<1> QED
  BY <1>1, <1>3, <1>4 DEF Same

(* ...so does the kernel that posts a packet of another one...             *)
LEMMA PostElsewhere ==
  ASSUME TypeOK, NEW t \in Transports, Quiet(t), UNCHANGED threadVars,
         NEW p \in Packet, p.io # t, port' = Append(port, p)
  PROVE  Same(t)
<1>1. NetOK
  BY TypeParts
<1>2. /\ \A i \in DOMAIN port' : (i \in DOMAIN port /\ port'[i] = port[i]) \/ port'[i] = p
      /\ \A i \in DOMAIN port : i \in DOMAIN port' /\ port'[i] = port[i]
  BY <1>1, PortPosted DEF NetOK
<1>3. PacketsOf(t)' = PacketsOf(t) /\ \A i \in PacketsOf(t)' : port'[i] = port[i]
  BY <1>2 DEF PacketsOf
<1>4. SameHandlers(t) /\ SetterAside(t)
  BY DEF SameHandlers, SetterAside, Handlers, threadVars
<1> QED
  BY <1>3, <1>4 DEF Same, SamePackets

(* ...and a worker that takes one.                                         *)
LEMMA TakeElsewhere ==
  ASSUME IInv, NEW t \in Transports, NEW w \in Workers, Recv(w), UNCHANGED requestVars,
         Head(port).io # t
  PROVE  Same(t)
<1>0. NetOK /\ ThreadsOK
  BY TypeParts DEF IInv
<1>1. port \in Seq(Packet) /\ port # <<>> /\ port' = Tail(port) /\ pc[w] = "wait" /\ Quiet(t)
  BY <1>0 DEF Recv, Quiet, heapVars, netVars, requestVars, NetOK
<1>2. /\ 1 \in DOMAIN port /\ port[1] = Head(port)
      /\ \A i \in DOMAIN port' :
           i \in Nat /\ i + 1 \in DOMAIN port /\ i + 1 # 1 /\ port'[i] = port[i + 1]
      /\ \A i \in DOMAIN port : i # 1 => i \in Nat /\ i - 1 \in DOMAIN port' /\ port'[i - 1] = port[i]
  BY <1>1, PortTaken
<1>3. \A i \in PacketsOf(t)' : i \in Nat /\ i + 1 \in PacketsOf(t) /\ port'[i] = port[i + 1]
  BY <1>2 DEF PacketsOf
<1>4. ASSUME NEW j \in PacketsOf(t) PROVE j - 1 \in PacketsOf(t)'
  <2>1. j \in DOMAIN port /\ port[j].io = t /\ j # 1
    BY <1>2, <1>4 DEF PacketsOf
  <2>2. j - 1 \in DOMAIN port' /\ port'[j - 1] = port[j]
    BY <1>2, <2>1
  <2> QED
    BY <2>1, <2>2 DEF PacketsOf
<1>5. ASSUME AtMostOne(PacketsOf(t)) PROVE AtMostOne(PacketsOf(t)')
  <2> SUFFICES ASSUME NEW i \in PacketsOf(t)', NEW j \in PacketsOf(t)' PROVE i = j
    BY DEF AtMostOne
  <2>1. i + 1 = j + 1 /\ i \in Nat /\ j \in Nat
    BY <1>3, <1>5 DEF AtMostOne
  <2> QED
    BY <2>1
<1>6. SamePackets(t)
  BY <1>3, <1>4, <1>5 DEF SamePackets
<1>7. obj[w] = None /\ obj'[w] # t
  BY <1>0, <1>1 DEF IInv, StackInv, Recv, threadVars, ThreadsOK
<1>8. \A v \in Workers \ {w} :
        pc'[v] = pc[v] /\ obj'[v] = obj[v] /\ nbytes'[v] = nbytes[v]
  BY <1>0 DEF Recv, threadVars, ThreadsOK
<1>9. SameHandlers(t) /\ SetterAside(t)
  BY <1>7, <1>8 DEF SameHandlers, SetterAside, Handlers
<1> QED
  BY <1>1, <1>6, <1>9 DEF Same

(* The steps that may change what is known of a connection: those of the   *)
(* network on it, those of the worker that has it on its stack, and the    *)
(* one that takes its packet.                                              *)
OfNetwork(t) ==
  \/ ServerAnswers(t)
  \/ ServerDrops(t)
  \/ Receives(t)
  \/ (PeerClose(t) \/ PeerReset(t)) /\ UNCHANGED requestVars

Works(w) == WorkerStep(w) /\ ~Recv(w) /\ ~EraseTransport(w)

(* A handler leaves the other connections alone, and EraseTransport all of *)
(* them: it touches the map only.                                          *)
LEMMA HandlerElsewhere ==
  ASSUME IInv, NEW t \in Transports, NEW w \in Workers, WorkerStep(w), ~Recv(w),
         obj[w] # t \/ EraseTransport(w)
  PROVE  Same(t)
<1>0. ThreadsOK /\ HeapOK /\ NetOK /\ AskOK
  BY TypeParts DEF IInv
<1>1. /\ \A v \in Workers \ {w} :
           pc'[v] = pc[v] /\ obj'[v] = obj[v] /\ nbytes'[v] = nbytes[v]
      /\ Stays(w) => obj'[w] = obj[w]
      /\ Leaves(w) => obj'[w] = None
      /\ NextConnection(w) => pc'[w] = "connect" \/ obj'[w] = None
  BY <1>0, Moves, OneThread
<1>2. obj[w] # t \/ pc[w] \notin Handling
  BY DEF EraseTransport, Handling
<1>3. obj'[w] # t \/ pc'[w] \notin Handling \cup Private
  <2>1. CASE EraseTransport(w)
    BY <1>1, <2>1 DEF EraseTransport, Leave, Leaves
  <2>2. CASE obj[w] # t
    BY <1>1, <2>2, Moves DEF Handling, Private
  <2> QED
    BY <2>1, <2>2
<1>4. Quiet(t) /\ port' = port
  <2>1. CASE EraseTransport(w)
    <3>1. UNCHANGED requestVars
      BY <2>1 DEF WorkerStep, SetupStep, EraseTransport, Connect, SSLProcessingConnect, Add,
         Start, Ask, OnRecived, At
    <3> QED
      BY <2>1, <3>1 DEF EraseTransport, Quiet, heapVars, netVars, requestVars
  <2>2. CASE obj[w] # t
    <3>1. CASE Connect(w)
      BY <1>0, <2>2, <3>1 DEF Connect, Quiet, requestVars, HeapOK, NetOK
    <3>2. CASE SSLProcessingConnect(w) \/ Ask(w)
      BY <1>0, <2>2, <3>2 DEF SSLProcessingConnect, Ask, Send, SendThrows, Quiet, heapVars,
         netVars, requestVars, AskOK
    <3>3. CASE Add(w)
      BY <3>3 DEF Add, Quiet, heapVars, netVars, requestVars
    <3>4. CASE Start(w) \/ (StartReceiving(w) /\ UNCHANGED requestVars)
      BY <1>0, <2>2, <3>4 DEF Start, StartReceiving, Quiet, heapVars, requestVars, NetOK
    <3>5. CASE OnRecived(w)
      <4>1. UNCHANGED <<port, life, recvs, peer, inbound>>
        BY <3>5 DEF OnRecived, netVars
      <4>2. curr'[t] = curr[t]
        BY <1>0, <2>2, <3>5 DEF OnRecived, Processed, HeapOK
      <4>3. asked'[t] = asked[t] /\ owed'[t] = owed[t] /\ dropped'[t] = dropped[t]
        BY <1>0, <2>2, <3>5 DEF OnRecived, Send, SendThrows, requestVars, AskOK
      <4> QED
        BY <4>1, <4>2, <4>3 DEF Quiet
    <3>6. CASE Complition(w) /\ UNCHANGED requestVars
      BY <1>0, <2>2, <3>6 DEF Complition, Count, Quiet, requestVars, HeapOK
    <3>7. CASE RemoveTransport(w) /\ UNCHANGED requestVars
      BY <1>0, <2>2, <3>7 DEF RemoveTransport, Quiet, netVars, requestVars, HeapOK
    <3> QED
      BY <2>1, <3>1, <3>2, <3>3, <3>4, <3>5, <3>6, <3>7 DEF WorkerStep, SetupStep
  <2> QED
    BY <2>1, <2>2
<1> QED
  BY <1>1, <1>2, <1>3, <1>4, ThreadElsewhere

(* The network leaves all connections alone but one.                       *)
LEMMA NetworkElsewhere ==
  ASSUME IInv, NEW t \in Transports, NetworkStep, ~OfNetwork(t)
  PROVE  Same(t)
<1>0. NetOK /\ AskOK /\ TypeOK
  BY TypeParts DEF IInv
<1>1. ASSUME NEW u \in Transports, u # t, Receives(u) PROVE Same(t)
  <2>1. PICK p \in Packet : p.io = u /\ port' = Append(port, p)
    BY <1>0, <1>1, KernelPosts DEF Receives
  <2>2. Quiet(t) /\ UNCHANGED threadVars
    BY <1>0, <1>1 DEF Receives, KernelRecv, Quiet, heapVars, requestVars, NetOK
  <2> QED
    BY <1>0, <1>1, <2>1, <2>2, PostElsewhere
<1>2. ASSUME NEW u \in Transports, u # t,
             \/ ServerAnswers(u)
             \/ ServerDrops(u)
             \/ (PeerClose(u) \/ PeerReset(u)) /\ UNCHANGED requestVars
      PROVE  Same(t)
  <2>1. Quiet(t) /\ UNCHANGED <<port, threadVars>>
    BY <1>0, <1>2 DEF ServerAnswers, ServerDrops, PeerClose, PeerReset, Quiet, heapVars, requestVars,
       NetOK, AskOK
  <2>2. SamePackets(t) /\ SameHandlers(t) /\ SetterAside(t)
    BY <2>1, PortSame DEF SameHandlers, SetterAside, Handlers, threadVars
  <2> QED
    BY <2>1, <2>2 DEF Same
<1> QED
  BY <1>1, <1>2 DEF NetworkStep, OfNetwork

(* So does every step.                                                     *)
LEMMA Elsewhere ==
  ASSUME IInv, Next, NEW t \in Transports
  PROVE  \/ Same(t)
         \/ OfNetwork(t)
         \/ \E w \in Workers : Recv(w) /\ UNCHANGED requestVars /\ Head(port).io = t
         \/ \E w \in Workers : obj[w] = t /\ Works(w)
<1>1. ASSUME NEW w \in Workers, Recv(w), WorkerStep(w) PROVE UNCHANGED requestVars
  BY <1>1 DEF WorkerStep, SetupStep, Recv, Connect, SSLProcessingConnect, Add, Start, Ask,
     OnRecived, At
<1> QED
  BY <1>1, TakeElsewhere, HandlerElsewhere, NetworkElsewhere DEF Next, Works

-----------------------------------------------------------------------------
(* The server answers, closes, or the connection is reset.                 *)
LEMMA ConnPeer ==
  ASSUME IInv, NEW t \in Transports,
         \/ ServerAnswers(t)
         \/ ServerDrops(t)
         \/ (PeerClose(t) \/ PeerReset(t)) /\ UNCHANGED requestVars
  PROVE  Conn(t)'
<1>0. TypeOK /\ Conn(t) /\ NetOK /\ AskOK
  BY TypeParts DEF IInv
<1>1. /\ UNCHANGED <<port, threadVars, life, curr, recvs, asked>>
      /\ peer[t] # "none"
  BY DEF ServerAnswers, ServerDrops, PeerClose, PeerReset, requestVars, heapVars
<1>2. SamePackets(t) /\ SameHandlers(t) /\ SetterAside(t)
  BY <1>1, PortSame DEF SameHandlers, SetterAside, Handlers, threadVars
<1>3. owed[t] \in Nat /\ dropped[t] \in Nat /\ inbound[t] \in Nat /\ curr[t] \in Nat /\ asked[t] \in BOOLEAN
  BY <1>0, StockBound DEF AskOK
<1>4. CASE ServerAnswers(t)
  <2>1. PICK n \in 1 .. owed[t] :
          /\ inbound' = [inbound EXCEPT ![t] = @ + n] /\ owed' = [owed EXCEPT ![t] = @ - n]
    BY <1>4 DEF ServerAnswers
  <2>2. /\ inbound'[t] = inbound[t] + n /\ owed'[t] = owed[t] - n
        /\ peer' = peer /\ dropped' = dropped
    BY <1>0, <1>4, <2>1 DEF NetOK, AskOK, ServerAnswers
  <2>3. Stock(t)' = Stock(t)
    BY <1>1, <1>3, <2>2 DEF Stock
  <2>4. \A m \in Nat : Within(t, m) => Within(t, m)'
    BY <1>1, <2>2, <2>3 DEF Within
  <2> QED
    BY <1>0, <1>1, <1>2, <2>2, <2>4, ConnKept DEF Conn
<1>5. CASE PeerClose(t) /\ UNCHANGED requestVars
  <2>1. /\ peer[t] = "open" /\ peer'[t] = "closed"
        /\ inbound' = inbound /\ owed' = owed /\ dropped' = dropped
    BY <1>0, <1>5 DEF PeerClose, NetOK, requestVars
  <2>2. \A m \in Nat : Within(t, m) => Within(t, m)'
    BY <1>1, <2>1 DEF Within, Stock
  <2> QED
    BY <1>0, <1>1, <1>2, <2>1, <2>2, ConnKept DEF Conn
<1>6. CASE PeerReset(t) /\ UNCHANGED requestVars
  <2>1. peer'[t] = "reset" /\ inbound'[t] = 0 /\ owed' = owed /\ dropped' = dropped
    BY <1>0, <1>6 DEF PeerReset, NetOK, requestVars
  <2>2. Stock(t)' <= Stock(t) /\ Stock(t) \in Nat /\ Stock(t)' \in Nat
    <3>1. Stock(t)' = owed[t] + 0 + curr[t] + dropped[t]
      BY <1>1, <2>1 DEF Stock
    <3>2. Stock(t) = owed[t] + inbound[t] + curr[t] + dropped[t]
      BY DEF Stock
    <3> QED
      BY <1>3, <3>1, <3>2
  <2>3. \A m \in Nat : Within(t, m) => Within(t, m)'
    BY <1>1, <1>3, <2>1, <2>2 DEF Within
  <2> QED
    BY <1>0, <1>1, <1>2, <2>1, <2>3, ConnKept DEF Conn
<1>7. CASE ServerDrops(t)
  <2>1. /\ inbound' = inbound /\ peer' = peer
        /\ owed'[t] = 0 /\ dropped'[t] = dropped[t] + owed[t]
    BY <1>0, <1>7 DEF AskOK, ServerDrops
  <2>2. Stock(t)' = Stock(t)
    BY <1>1, <1>3, <2>1 DEF Stock
  <2>3. \A m \in Nat : Within(t, m) => Within(t, m)'
    BY <1>1, <2>1, <2>2 DEF Within
  <2> QED
    BY <1>0, <1>1, <1>2, <2>1, <2>3, ConnKept DEF Conn
<1> QED
  BY <1>4, <1>5, <1>6, <1>7

(* A packet carries what it takes from the network.                        *)
LEMMA ConnReceives ==
  ASSUME IInv, NEW t \in Transports, Receives(t)
  PROVE  Conn(t)'
<1>0. TypeOK /\ Conn(t) /\ NetOK /\ AskOK
  BY TypeParts DEF IInv
<1>1. /\ UNCHANGED <<threadVars, life, curr, peer, asked, owed, dropped>>
      /\ recvs[t] = 1 /\ recvs'[t] = 0
  BY <1>0 DEF Receives, KernelRecv, requestVars, heapVars, NetOK
<1>2. /\ PacketsOf(t) = {} /\ Handlers(t) = {} /\ life[t] = "live"
      /\ ~InSetup(t, {"hello", "add", "start"})
  BY <1>0, <1>1 DEF Conn, HandledByOne, Resting
<1>3. PICK p \in Packet :
           /\ p.io = t /\ p.key = t /\ port' = Append(port, p)
           /\ \/ /\ p.bytes \in 1 .. inbound[t] /\ p.ok
                 /\ inbound' = [inbound EXCEPT ![t] = @ - p.bytes]
              \/ p.bytes = 0 /\ inbound' = inbound
  BY <1>0, KernelPosts DEF Receives
<1>4. PICK n \in Nat : n = p.bytes
  BY DEF Packet
<1>5. Within(t, 0)
  <2>1. Uncounted(t) = {}
    BY <1>2 DEF Uncounted
  <2> QED
    BY <1>0, <1>2, <2>1 DEF Conn, Books
<1>6. Within(t, n)'
  <2>1. owed[t] \in Nat /\ dropped[t] \in Nat /\ inbound[t] \in Nat /\ curr[t] \in Nat
    BY StockBound
  <2>2. inbound'[t] + n = inbound[t] /\ inbound'[t] \in Nat
    <3>1. CASE n \in 1 .. inbound[t] /\ inbound' = [inbound EXCEPT ![t] = @ - n]
      <4>1. inbound'[t] = inbound[t] - n
        BY <1>0, <3>1 DEF NetOK
      <4> QED
        BY <2>1, <3>1, <4>1
    <3>2. CASE n = 0 /\ inbound' = inbound
      BY <2>1, <3>2
    <3> QED
      BY <1>3, <1>4, <3>1, <3>2
  <2>3. Stock(t)' + n = Stock(t) + 0
    BY <1>1, <2>1, <2>2 DEF Stock
  <2> QED
    BY <1>1, <1>5, <2>3 DEF Within
<1>7. /\ \A i \in PacketsOf(t)' : i = Len(port) + 1 /\ port'[i] = p
      /\ PacketsOf(t)' # {}
  <2>1. /\ \A i \in DOMAIN port' :
              \/ i \in DOMAIN port /\ port'[i] = port[i]
              \/ i = Len(port) + 1 /\ port'[i] = p
        /\ Len(port) + 1 \in DOMAIN port' /\ port'[Len(port) + 1] = p
    BY <1>0, <1>3, PortPosted DEF NetOK
  <2> QED
    BY <1>2, <1>3, <2>1 DEF PacketsOf
<1>8. Handlers(t)' = {} /\ Uncounted(t)' = {} /\ ~InSetup(t, {"hello", "add", "start"})'
  BY <1>1, <1>2 DEF Handlers, Uncounted, InSetup, threadVars
<1>9. HandledByOne(t)'
  BY <1>1, <1>7, <1>8 DEF HandledByOne, AtMostOne
<1>10. Books(t)'
  BY <1>4, <1>6, <1>7, <1>8 DEF Books, Within
<1>11. n = 0 \/ p.ok
  BY <1>3, <1>4
<1> QED
  BY <1>0, <1>1, <1>2, <1>3, <1>4, <1>7, <1>8, <1>9, <1>10, <1>11 DEF Conn

(* What follows for a connection on which only one handler may still act.  *)
LEMMA ConnHandled ==
  ASSUME NEW t \in Transports, NEW w \in Workers,
         PacketsOf(t)' = {}, Handlers(t)' = {w} \/ Handlers(t)' = {},
         recvs'[t] > 0 => Handlers(t)' = {},
         InSetup(t, {"hello", "add", "start"})' => recvs'[t] = 0 /\ Handlers(t)' = {},
         life'[t] # "unallocated", peer'[t] # "none",
         life'[t] # "live" => recvs'[t] = 0 /\ Handlers(t)' = {},
         Handlers(t)' = {w} =>
           /\ pc'[w] = "complete" => Within(t, nbytes[w])'
           /\ pc'[w] # "complete" => Within(t, 0)'
           /\ ~asked'[t] => nbytes'[w] = 0,
         Handlers(t)' = {} => Within(t, 0)'
  PROVE  Conn(t)'
<1>1. HandledByOne(t)'
  BY DEF HandledByOne, AtMostOne
<1>2. Books(t)'
  <2>1. CASE Handlers(t)' = {}
    <3>1. Uncounted(t)' = {}
      BY <2>1 DEF Uncounted
    <3> QED
      BY <2>1, <3>1 DEF Books
  <2>2. CASE Handlers(t)' = {w} /\ pc'[w] = "complete"
    <3>1. Uncounted(t)' = {w} /\ Within(t, nbytes[w])'
      BY <2>2 DEF Uncounted
    <3> QED
      BY <3>1 DEF Books
  <2>3. CASE Handlers(t)' = {w} /\ pc'[w] # "complete"
    <3>1. Uncounted(t)' = {} /\ Within(t, 0)'
      BY <2>3 DEF Uncounted
    <3> QED
      BY <3>1 DEF Books
  <2> QED
    BY <2>1, <2>2, <2>3
<1> QED
  BY <1>1, <1>2 DEF Conn, Resting

(* The books depend on the connection's own state alone.                   *)
SameStock(t) ==
  /\ owed'[t] = owed[t] /\ dropped'[t] = dropped[t] /\ inbound'[t] = inbound[t] /\ curr'[t] = curr[t]
  /\ peer'[t] = peer[t] /\ asked'[t] = asked[t]

(* Books of an unchanged stock still add up.                               *)
LEMMA WithinSame ==
  ASSUME NEW t \in Transports, SameStock(t), NEW n \in Nat, Within(t, n)
  PROVE  Within(t, n)'
BY DEF SameStock, Within, Stock

(* For a request that is sent when nothing of an answer is left one whole  *)
(* answer is owed, or will never be sent.                                  *)
LEMMA SendFills ==
  ASSUME IInv, NEW t \in Transports, Send(t), inbound'[t] = inbound[t],
         owed[t] = 0, dropped[t] = 0, inbound[t] = 0, curr'[t] = 0
  PROVE  Within(t, 0)' /\ asked'[t] = TRUE
<1>0. AskOK
  BY TypeParts DEF IInv
<1>1. /\ asked'[t] = TRUE
      /\ \/ owed'[t] = AnswerSize /\ dropped'[t] = 0
         \/ owed'[t] = 0 /\ dropped'[t] = AnswerSize
  BY <1>0 DEF Send, AskOK
<1>2. Stock(t)' = AnswerSize
  BY <1>1 DEF Stock
<1> QED
  BY <1>1, <1>2 DEF Within

(* A worker takes the packet of the connection, or drops the report of an  *)
(* operation that failed, which carries no bytes.                          *)
LEMMA ConnTake ==
  ASSUME IInv, NEW t \in Transports, NEW w \in Workers, Recv(w), UNCHANGED requestVars,
         Head(port).io = t
  PROVE  Conn(t)'
<1>0. ThreadsOK /\ NetOK /\ Conn(t) /\ HandledByOne(t) /\ StackInv
  BY TypeParts DEF IInv, Conn
<1>1. pc[w] = "wait" /\ port # <<>> /\ port' = Tail(port)
      /\ UNCHANGED <<life, curr, recvs, peer, inbound, asked, owed, dropped>>
  BY DEF Recv, heapVars, netVars, requestVars
<1>2. PICK n \in 0 .. AnswerSize :
        /\ Head(port).key = t /\ Head(port).bytes = n /\ Within(t, n)
        /\ 1 \in PacketsOf(t) /\ Head(port).ok \in BOOLEAN /\ (~Head(port).ok => n = 0)
  BY <1>1, HeadBrings
<1>3. /\ PacketsOf(t) = {1} /\ Handlers(t) = {} /\ recvs[t] = 0
      /\ ~InSetup(t, Private) /\ life[t] = "live" /\ peer[t] # "none"
  <2>1. PacketsOf(t) # {} /\ recvs[t] \in {0, 1}
    BY <1>0, <1>2 DEF NetOK
  <2>2. PacketsOf(t) = {1}
    BY <1>0, <1>2 DEF HandledByOne, AtMostOne
  <2> QED
    BY <1>0, <2>1, <2>2 DEF HandledByOne, Conn, Resting, Private
<1>4. PacketsOf(t)' = {}
  <2>1. \A i \in DOMAIN port' : i + 1 \in DOMAIN port /\ i + 1 # 1 /\ port'[i] = port[i + 1]
    BY <1>0, <1>1, PortTaken DEF NetOK
  <2> QED
    BY <1>3, <2>1 DEF PacketsOf
<1>5. Within(t, n)'
  BY <1>1, <1>2, WithinSame DEF SameStock
<1>6. ~asked'[t] => n = 0
  <2>1. ~asked[t] => Stock(t) + n = 0 /\ Stock(t) \in Nat
    BY <1>2, StockBound DEF Within
  <2> QED
    BY <1>1, <2>1
<1>7. CASE UNCHANGED threadVars /\ n = 0
  <2>1. Handlers(t)' = {} /\ ~InSetup(t, {"hello", "add", "start"})'
    BY <1>3, <1>7 DEF Handlers, InSetup, threadVars, Private
  <2>2. Within(t, 0)'
    BY <1>5, <1>7
  <2> QED
    BY <1>1, <1>3, <1>4, <2>1, <2>2, ConnHandled
<1>8. CASE /\ pc' = [pc EXCEPT ![w] = "complete"] /\ obj' = [obj EXCEPT ![w] = t]
           /\ nbytes' = [nbytes EXCEPT ![w] = n]
  <2>1. /\ pc'[w] = "complete" /\ obj'[w] = t /\ nbytes'[w] = n
        /\ \A v \in Workers \ {w} : pc'[v] = pc[v] /\ obj'[v] = obj[v]
    BY <1>0, <1>8 DEF ThreadsOK
  <2>2. Handlers(t)' = {w}
    BY <1>3, <2>1 DEF Handlers, Handling
  <2>3. ~InSetup(t, {"hello", "add", "start"})'
    BY <1>3, <2>1 DEF InSetup, Private
  <2>4. Within(t, nbytes[w])'
    BY <1>5, <2>1 DEF Within
  <2> QED
    BY <1>1, <1>3, <1>4, <1>6, <2>1, <2>2, <2>3, <2>4, ConnHandled
<1> QED
  BY <1>1, <1>2, <1>7, <1>8 DEF Recv

-----------------------------------------------------------------------------
(* The setup's steps on its connection.  Where it only leaves, nothing of  *)
(* the connection changes...                                               *)
LEMMA ConnLeft ==
  ASSUME IInv, NEW t \in Transports, pc[Setter] \in SetupLabels, Leaves(Setter),
         port' = port, Quiet(t)
  PROVE  Conn(t)'
<1>0. ThreadsOK /\ TypeOK /\ Conn(t)
  BY TypeParts DEF IInv
<1>1. /\ \A v \in Workers \ {Setter} :
           pc'[v] = pc[v] /\ obj'[v] = obj[v] /\ nbytes'[v] = nbytes[v]
      /\ obj'[Setter] = None
  BY <1>0, OneThread
<1>2. Same(t)
  BY <1>1, ThreadElsewhere DEF SetupLabels, Handling
<1> QED
  BY <1>0, <1>2, SameConn

(* ...and while it has the connection to itself, only its books may.       *)
LEMMA ConnPrivate ==
  ASSUME IInv, NEW t \in Transports, Resting(t), port' = port,
         \A v \in Workers \ {Setter} :
           pc'[v] = pc[v] /\ obj'[v] = obj[v] /\ nbytes'[v] = nbytes[v],
         pc'[Setter] \notin Handling \/ obj'[Setter] # t,
         InSetup(t, Private)' => recvs'[t] = 0,
         life'[t] = "live", peer'[t] # "none", Within(t, 0)'
  PROVE  Conn(t)'
<1>1. PacketsOf(t)' = {}
  BY DEF Resting, PacketsOf
<1>2. Handlers(t)' = {}
  BY DEF Resting, Handlers
<1>3. InSetup(t, {"hello", "add", "start"})' => recvs'[t] = 0
  BY DEF Private
<1> QED
  BY <1>1, <1>2, <1>3, ConnHandled

(* A new connection has been asked nothing.                                *)
LEMMA ConnConnect ==
  ASSUME IInv, NEW t \in Transports, obj[Setter] = t, Connect(Setter)
  PROVE  Conn(t)'
<1>0. ThreadsOK /\ HeapOK /\ NetOK /\ AskOK
  BY TypeParts DEF IInv
<1>1. /\ Resting(t) /\ Within(t, 0) /\ life[t] = "unallocated" /\ peer[t] = "none"
      /\ pc[Setter] = "connect"
  BY SetterAlone DEF Connect
<1>2. UNCHANGED <<port, curr, recvs, inbound, asked, owed, dropped>>
  BY DEF Connect, requestVars
<1>3. CASE Die(Setter) /\ UNCHANGED <<life, sock, peer>>
  BY <1>1, <1>2, <1>3, ConnLeft DEF SetupLabels, Leaves, Quiet
<1>4. CASE life'[t] = "live" /\ peer'[t] = "open" /\ (Goto(Setter, "hello") \/ Goto(Setter, "add"))
  <2>1. /\ \A v \in Workers \ {Setter} :
             pc'[v] = pc[v] /\ obj'[v] = obj[v] /\ nbytes'[v] = nbytes[v]
        /\ pc'[Setter] \notin Handling
    BY <1>0, <1>4 DEF Goto, ThreadsOK, Handling
  <2>2. ~asked[t]
    BY <1>1 DEF IInv, SetterInv, SetupLabels
  <2>3. Stock(t) = 0 /\ Stock(t)' = Stock(t) /\ ~asked'[t]
    BY <1>2, <2>2, StockBound DEF Stock
  <2>4. Within(t, 0)'
    BY <2>3 DEF Within
  <2> QED
    BY <1>1, <1>2, <1>4, <2>1, <2>4, ConnPrivate DEF Resting
<1>5. \A s : /\ life' = [life EXCEPT ![obj[Setter]] = "live"]
             /\ peer' = [peer EXCEPT ![obj[Setter]] = "open"]
             => life'[t] = "live" /\ peer'[t] = "open"
  BY <1>0 DEF HeapOK, NetOK
<1> QED
  BY <1>3, <1>4, <1>5 DEF Connect

(* The first flight of an SSL connection asks for the first answer.        *)
LEMMA ConnHello ==
  ASSUME IInv, NEW t \in Transports, obj[Setter] = t, SSLProcessingConnect(Setter)
  PROVE  Conn(t)'
<1>0. ThreadsOK
  BY TypeParts DEF IInv
<1>1. pc[Setter] = "hello" /\ UNCHANGED <<port, life, curr, recvs, peer, inbound>>
  BY DEF SSLProcessingConnect, At, heapVars, netVars
<1>2. /\ Resting(t) /\ Within(t, 0) /\ life[t] = "live" /\ peer[t] # "none"
      /\ ~asked[t]
  BY <1>1, SetterAlone DEF Private, IInv, SetterInv, SetupLabels
<1>3. CASE SendThrows(Setter)
  BY <1>1, <1>3, ConnLeft DEF SetupLabels, SendThrows, Leaves, Quiet, requestVars
<1>4. CASE Send(t) /\ Goto(Setter, "add")
  <2>1. /\ \A v \in Workers \ {Setter} :
             pc'[v] = pc[v] /\ obj'[v] = obj[v] /\ nbytes'[v] = nbytes[v]
        /\ pc'[Setter] \notin Handling
    BY <1>0, <1>4 DEF Goto, ThreadsOK, Handling
  <2>2. owed[t] = 0 /\ dropped[t] = 0 /\ inbound[t] = 0 /\ curr[t] = 0
    BY <1>2, StockBound
  <2>3. Within(t, 0)'
    BY <1>1, <1>4, <2>2, SendFills
  <2> QED
    BY <1>1, <1>2, <2>1, <2>3, ConnPrivate DEF Resting
<1> QED
  BY <1>3, <1>4 DEF SSLProcessingConnect

(* The map is not part of a connection.                                    *)
LEMMA ConnAdd ==
  ASSUME IInv, NEW t \in Transports, obj[Setter] = t, Add(Setter)
  PROVE  Conn(t)'
<1>0. ThreadsOK
  BY TypeParts DEF IInv
<1>1. pc[Setter] = "add" /\ UNCHANGED <<port, life, curr, recvs, peer, inbound, asked, owed, dropped>>
      /\ Goto(Setter, "start")
  BY DEF Add, At, heapVars, netVars, requestVars
<1>2. Resting(t) /\ Within(t, 0) /\ life[t] = "live" /\ peer[t] # "none"
  BY <1>1, SetterAlone DEF Private
<1>3. /\ \A v \in Workers \ {Setter} :
           pc'[v] = pc[v] /\ obj'[v] = obj[v] /\ nbytes'[v] = nbytes[v]
      /\ pc'[Setter] \notin Handling
  BY <1>0, <1>1 DEF Goto, ThreadsOK, Handling
<1>4. Within(t, 0)'
  BY <1>1, <1>2, WithinSame DEF SameStock
<1> QED
  BY <1>1, <1>2, <1>3, <1>4, ConnPrivate DEF Resting

(* StartReceiving gives the connection away.                               *)
LEMMA ConnStart ==
  ASSUME IInv, NEW t \in Transports, obj[Setter] = t, Start(Setter)
  PROVE  Conn(t)'
<1>0. ThreadsOK
  BY TypeParts DEF IInv
<1>1. pc[Setter] = "start" /\ UNCHANGED <<port, life, curr, peer, inbound, asked, owed, dropped>>
  BY DEF Start, At, heapVars, requestVars
<1>2. Resting(t) /\ Within(t, 0) /\ life[t] = "live" /\ peer[t] # "none"
  BY <1>1, SetterAlone DEF Private
<1>3. CASE Die(Setter) /\ UNCHANGED recvs
  BY <1>1, <1>3, ConnLeft DEF SetupLabels, Leaves, Quiet
<1>4. CASE Goto(Setter, "ask") \/ NextConnection(Setter)
  <2>1. "ask" \in Labels
    BY DEF Labels
  <2>2. \A v \in Workers \ {Setter} :
          pc'[v] = pc[v] /\ obj'[v] = obj[v] /\ nbytes'[v] = nbytes[v]
    BY <1>0, <1>4, <2>1, OneThread DEF Stays
  <2>3. pc'[Setter] \in {"ask", "connect", "wait"}
    BY <1>0, <1>4, OneThread DEF Goto, ThreadsOK
  <2>4. Within(t, 0)'
    BY <1>1, <1>2, WithinSame DEF SameStock
  <2> QED
    BY <1>1, <1>2, <2>2, <2>3, <2>4, ConnPrivate DEF Handling, Private, InSetup
<1> QED
  BY <1>3, <1>4 DEF Start

(* By then a handler may be at work on the connection, but no byte of an   *)
(* answer is about: the first request has not been sent.                   *)
LEMMA ConnAsk ==
  ASSUME IInv, NEW t \in Transports, obj[Setter] = t, Ask(Setter)
  PROVE  Conn(t)'
<1>0. TypeOK /\ ThreadsOK /\ AskOK /\ Conn(t)
  BY TypeParts DEF IInv
<1>1. pc[Setter] = "ask" /\ UNCHANGED <<port, life, curr, recvs, peer, inbound>>
  BY DEF Ask, heapVars, netVars
<1>2. ~asked[t]
  BY <1>1 DEF IInv, SetterInv, SetupLabels
<1>3. CASE UNCHANGED requestVars /\ Leaves(Setter)
  BY <1>1, <1>3, ConnLeft DEF SetupLabels, Quiet, requestVars
<1>4. CASE life[t] = "live" /\ Send(t) /\ NextConnection(Setter)
  <2>1. /\ \A v \in Workers \ {Setter} :
             pc'[v] = pc[v] /\ obj'[v] = obj[v] /\ nbytes'[v] = nbytes[v]
        /\ pc'[Setter] \in {"connect", "wait"}
    BY <1>0, <1>4, OneThread
  <2>2. SameHandlers(t) /\ SetterAside(t) /\ SamePackets(t)
    <3>1. Setter \notin Handlers(t) /\ Setter \notin Handlers(t)'
      BY <1>1, <2>1 DEF Handlers, Handling
    <3> QED
      BY <1>1, <2>1, <3>1, PortSame DEF SameHandlers, SetterAside, Handlers, Private
  <2>3. owed[t] = 0 /\ dropped[t] = 0 /\ inbound[t] = 0 /\ curr[t] = 0 /\ Stock(t) = 0
    BY <1>2, StockBound
  <2>4. Within(t, 0)'
    BY <1>1, <1>4, <2>3, SendFills
  <2>5. ASSUME NEW n \in Nat, Within(t, n) PROVE Within(t, n)'
    <3>1. n = 0
      BY <1>2, <2>3, <2>5 DEF Within
    <3> QED
      BY <2>4, <3>1
  <2> QED
    BY <1>0, <1>1, <1>2, <1>4, <2>2, <2>5, ConnKept
<1> QED
  BY <1>3, <1>4 DEF Ask, SendThrows, Leaves

(* What is left of the handlers of a connection after a step of its one.   *)
LEMMA HandlerAfter ==
  ASSUME IInv, NEW t \in Transports, NEW w \in Workers, obj[w] = t, pc[w] \in Handling,
         port' = port,
         \A v \in Workers \ {w} : pc'[v] = pc[v] /\ obj'[v] = obj[v],
         pc'[w] \notin Private
  PROVE  /\ life[t] = "live" /\ peer[t] # "none" /\ recvs[t] = 0
         /\ Within(t, IF pc[w] = "complete" THEN nbytes[w] ELSE 0)
         /\ ~asked[t] => nbytes[w] = 0
         /\ PacketsOf(t)' = {} /\ ~InSetup(t, {"hello", "add", "start"})'
         /\ Handlers(t)' = IF obj'[w] = t /\ pc'[w] \in Handling THEN {w} ELSE {}
<1>1. /\ life[t] = "live" /\ peer[t] # "none" /\ recvs[t] = 0
      /\ PacketsOf(t) = {} /\ Handlers(t) = {w}
      /\ ~InSetup(t, Private)
      /\ Within(t, IF pc[w] = "complete" THEN nbytes[w] ELSE 0)
      /\ ~asked[t] => nbytes[w] = 0
  BY HandlerAlone
<1>2. PacketsOf(t)' = {}
  BY <1>1 DEF PacketsOf
<1>3. ~InSetup(t, {"hello", "add", "start"})'
  BY <1>1 DEF InSetup, Private
<1>4. Handlers(t)' = IF obj'[w] = t /\ pc'[w] \in Handling THEN {w} ELSE {}
  BY <1>1 DEF Handlers
<1> QED
  BY <1>1, <1>2, <1>3, <1>4

(* The handler moves on, or leaves, without touching the connection.       *)
LEMMA ConnUntouched ==
  ASSUME IInv, NEW t \in Transports, NEW w \in Workers, obj[w] = t,
         pc[w] \in Handling \ {"complete"}, UNCHANGED <<port, curr, peer, inbound, asked, owed, dropped>>,
         \/ recvs' = recvs /\ life' = life /\ (Leaves(w) \/ Goto(w, "rearm"))
         \/ life' = life /\ Leaves(w)
         \/ recvs' = recvs /\ life'[t] = "deleted" /\ Goto(w, "erase")
  PROVE  Conn(t)'
<1>0. ThreadsOK
  BY TypeParts DEF IInv
<1>1. /\ \A v \in Workers \ {w} : pc'[v] = pc[v] /\ obj'[v] = obj[v]
      /\ Leaves(w) => obj'[w] = None /\ pc'[w] \in {"wait", "dead", "wild"}
      /\ ~Leaves(w) => nbytes'[w] = nbytes[w] /\ pc'[w] \in {"rearm", "erase"}
      /\ pc'[w] = "rearm" => life' = life /\ recvs' = recvs
  <2>1. "rearm" \in Labels /\ "erase" \in Labels
    BY DEF Labels
  <2>2. \A l \in {"rearm", "erase"} : Goto(w, l) => pc'[w] = l /\ nbytes'[w] = nbytes[w]
    BY <1>0 DEF Goto, ThreadsOK
  <2> QED
    BY <1>0, <2>1, <2>2, OneThread DEF Stays
<1>2. pc'[w] \notin Private
  BY <1>1 DEF Private
<1>3. /\ life[t] = "live" /\ peer[t] # "none" /\ recvs[t] = 0
      /\ Within(t, 0)
      /\ ~asked[t] => nbytes[w] = 0
      /\ PacketsOf(t)' = {} /\ ~InSetup(t, {"hello", "add", "start"})'
      /\ Handlers(t)' = IF obj'[w] = t /\ pc'[w] \in Handling THEN {w} ELSE {}
  BY <1>1, <1>2, HandlerAfter
<1>4. Within(t, 0)'
  BY <1>3, WithinSame DEF SameStock
<1>5. Handlers(t)' = {w} => pc'[w] = "rearm" /\ nbytes'[w] = nbytes[w]
  BY <1>1, <1>3 DEF Handling
<1>6. Handlers(t)' # {w} => Handlers(t)' = {}
  BY <1>3
<1>7. life'[t] # "live" => recvs'[t] = 0 /\ Handlers(t)' = {}
  BY <1>1, <1>3, <1>5, <1>6
<1>8. recvs'[t] > 0 => Handlers(t)' = {}
  BY <1>1, <1>3, <1>5, <1>6
<1> QED
  BY <1>3, <1>4, <1>5, <1>6, <1>7, <1>8, ConnHandled

(* The bytes of the packet go over into m_CurrRecived.                     *)
LEMMA ConnCounts ==
  ASSUME IInv, NEW t \in Transports, NEW w \in Workers, obj[w] = t, Complition(w),
         UNCHANGED requestVars
  PROVE  Conn(t)'
<1>0. ThreadsOK /\ HeapOK /\ NetOK
  BY TypeParts DEF IInv
<1>1. pc[w] = "complete" /\ UNCHANGED <<port, life, recvs, peer, inbound, asked, owed, dropped>>
  BY DEF Complition, Count, At, requestVars
<1>2. /\ \A v \in Workers \ {w} : pc'[v] = pc[v] /\ obj'[v] = obj[v]
      /\ obj'[w] = t /\ nbytes'[w] = nbytes[w] /\ pc'[w] \in {"callback", "remove"}
  BY <1>0 DEF Complition, Goto, ThreadsOK
<1>3. /\ life[t] = "live" /\ peer[t] # "none" /\ recvs[t] = 0
      /\ Within(t, nbytes[w])
      /\ ~asked[t] => nbytes[w] = 0
      /\ PacketsOf(t)' = {} /\ ~InSetup(t, {"hello", "add", "start"})'
      /\ Handlers(t)' = {w}
  BY <1>1, <1>2, HandlerAfter DEF Handling, Private
<1>4. PICK n \in Nat : n = nbytes[w]
  BY <1>0 DEF ThreadsOK
<1>5. curr'[t] = curr[t] + n
  <2>1. curr[t] \in Nat
    BY StockBound
  <2>2. CASE n > 0
    BY <1>0, <1>4, <2>2 DEF Complition, Count, HeapOK
  <2>3. CASE n = 0
    BY <1>4, <2>1, <2>3 DEF Complition
  <2> QED
    BY <2>2, <2>3
<1>6. Stock(t)' + 0 = Stock(t) + n
  <2>1. owed[t] \in Nat /\ dropped[t] \in Nat /\ inbound[t] \in Nat /\ curr[t] \in Nat
    BY StockBound
  <2> QED
    BY <1>1, <1>4, <1>5, <2>1 DEF Stock
<1>7. Within(t, 0)'
  BY <1>1, <1>3, <1>4, <1>6 DEF Within
<1> QED
  BY <1>1, <1>2, <1>3, <1>7, ConnHandled

(* A complete answer leaves m_CurrRecived, and the next one is owed.       *)
LEMMA ConnCallback ==
  ASSUME IInv, NEW t \in Transports, NEW w \in Workers, obj[w] = t, OnRecived(w)
  PROVE  Conn(t)'
<1>0. ThreadsOK /\ HeapOK
  BY TypeParts DEF IInv
<1>1. pc[w] = "callback" /\ UNCHANGED <<port, life, recvs, peer, inbound>>
  BY DEF OnRecived, At, netVars
<1>2. CASE UNCHANGED <<curr, requestVars>> /\ (Leaves(w) \/ Goto(w, "rearm"))
  BY <1>1, <1>2, ConnUntouched DEF Handling, requestVars
<1>3. CASE AnswerArrived(t) /\ Send(t) /\ curr' = Processed(t) /\ Goto(w, "rearm")
  <2>1. /\ \A v \in Workers \ {w} : pc'[v] = pc[v] /\ obj'[v] = obj[v]
        /\ obj'[w] = t /\ pc'[w] = "rearm"
    BY <1>0, <1>3 DEF Goto, ThreadsOK
  <2>2. /\ life[t] = "live" /\ peer[t] # "none" /\ recvs[t] = 0
        /\ PacketsOf(t)' = {} /\ ~InSetup(t, {"hello", "add", "start"})'
        /\ Handlers(t)' = {w}
    BY <1>1, <2>1, HandlerAfter DEF Handling, Private
  <2>3. curr[t] >= AnswerSize
    BY <1>3 DEF AnswerArrived
  <2>4. owed[t] = 0 /\ dropped[t] = 0 /\ inbound[t] = 0
    BY <2>3, StockBound
  <2>5. curr'[t] = 0
    BY <1>0, <1>3 DEF Processed, HeapOK
  <2>6. Within(t, 0)' /\ asked'[t]
    BY <1>1, <1>3, <2>4, <2>5, SendFills
  <2> QED
    BY <1>1, <2>1, <2>2, <2>6, ConnHandled
<1> QED
  BY <1>2, <1>3 DEF OnRecived, SendThrows, Leaves

(* Every step that may change what is known of a connection.               *)
LEMMA ConnWorker ==
  ASSUME IInv, NEW t \in Transports, NEW w \in Workers, obj[w] = t, Works(w)
  PROVE  Conn(t)'
<1>1. CASE SetupStep(w)
  <2>1. w = Setter
    BY <1>1 DEF SetupStep, Connect, SSLProcessingConnect, Add, Start, Ask, At, IInv, StackInv,
       SetupLabels
  <2> QED
    BY <1>1, <2>1, ConnConnect, ConnHello, ConnAdd, ConnStart, ConnAsk DEF SetupStep
<1>2. CASE OnRecived(w)
  BY <1>2, ConnCallback
<1>3. CASE Complition(w) /\ UNCHANGED requestVars
  BY <1>3, ConnCounts
<1>4. CASE StartReceiving(w) /\ UNCHANGED requestVars
  BY <1>4, ConnUntouched DEF StartReceiving, At, Handling, Leaves, heapVars, requestVars
<1>5. CASE RemoveTransport(w) /\ UNCHANGED requestVars
  <2>1. HeapOK
    BY TypeParts DEF IInv
  <2>2. UNCHANGED <<port, curr, recvs, peer, inbound, asked, owed, dropped>> /\ pc[w] = "remove"
    BY <1>5 DEF RemoveTransport, At, netVars, requestVars
  <2>3. \/ life' = life /\ Leaves(w)
        \/ life'[t] = "deleted" /\ Goto(w, "erase")
    <3>1. CASE obj[w] \in Registered
      <4>1. life' = [life EXCEPT ![t] = "deleted"] /\ Goto(w, "erase")
        BY <1>5, <3>1 DEF RemoveTransport
      <4> QED
        BY <2>1, <4>1 DEF HeapOK
    <3>2. CASE obj[w] \notin Registered
      BY <1>5, <3>2 DEF RemoveTransport, Leaves
    <3> QED
      BY <3>1, <3>2
  <2> QED
    BY <2>2, <2>3, ConnUntouched DEF Handling
<1> QED
  BY <1>1, <1>2, <1>3, <1>4, <1>5 DEF Works, WorkerStep

(* Every step keeps the part of every connection.                          *)
LEMMA ConnStep ==
  ASSUME IInv, Next, NEW t \in Transports
  PROVE  Conn(t)'
<1>1. TypeOK /\ Conn(t)
  BY DEF IInv
<1>2. CASE Same(t)
  BY <1>1, <1>2, SameConn
<1>3. CASE OfNetwork(t)
  BY <1>3, ConnPeer, ConnReceives DEF OfNetwork
<1> QED
  BY <1>2, <1>3, Elsewhere, ConnTake, ConnWorker

-----------------------------------------------------------------------------
(* Nothing but Add brings a connection to where the map must hold it.      *)
LEMMA ReceivingStays ==
  ASSUME IInv, Next, NEW t \in Transports, Receiving(t)', ~(Add(Setter) /\ obj[Setter] = t)
  PROVE  Receiving(t)
<1>0. ThreadsOK /\ NetOK
  BY TypeParts DEF IInv
<1>1. CASE Same(t)
  <2>1. InSetup(t, {"start"})' => InSetup(t, {"start"})
    BY <1>1 DEF Same, SetterAside, InSetup, Private
  <2> QED
    BY <1>1, <2>1 DEF Same, Quiet, SameHandlers, SamePackets, Receiving
<1>2. CASE OfNetwork(t)
  <2>1. CASE Receives(t)
    BY <2>1 DEF Receives, KernelRecv, Receiving
  <2>2. CASE ~Receives(t)
    <3>1. UNCHANGED <<port, pc, obj, recvs>>
      BY <1>2, <2>2 DEF OfNetwork, ServerAnswers, ServerDrops, PeerClose, PeerReset, threadVars
    <3> QED
      BY <3>1 DEF Receiving, PacketsOf, Handlers, InSetup
  <2> QED
    BY <2>1, <2>2
<1>3. ASSUME NEW w \in Workers, Recv(w), Head(port).io = t PROVE Receiving(t)
  <2>1. port \in Seq(Packet) /\ port # <<>>
    BY <1>0, <1>3 DEF Recv, NetOK
  <2>2. 1 \in PacketsOf(t)
    BY <1>3, <2>1 DEF PacketsOf
  <2> QED
    BY <2>2 DEF Receiving
<1>4. ASSUME NEW w \in Workers, obj[w] = t, Works(w) PROVE Receiving(t)
  <2>1. WorkerStep(w) /\ ~Recv(w) /\ ~EraseTransport(w)
    BY <1>4 DEF Works
  <2>2. CASE pc[w] \in Handling
    BY <1>4, <2>2 DEF Receiving, Handlers
  <2>3. CASE Start(w)
    <3>1. w = Setter /\ pc[w] = "start"
      BY <2>3 DEF Start, At, IInv, StackInv, SetupLabels
    <3> QED
      BY <1>4, <3>1 DEF Receiving, InSetup
  <2>4. CASE Connect(w) \/ SSLProcessingConnect(w) \/ Ask(w)
    <3>1. w = Setter /\ UNCHANGED <<port, recvs>> /\ pc[w] \notin Handling
      BY <2>4 DEF Connect, SSLProcessingConnect, Ask, At, IInv, StackInv, SetupLabels, netVars,
         Handling
    <3>2. Leaves(w) \/ NextConnection(w) \/ Goto(w, "hello") \/ Goto(w, "add")
      BY <2>4 DEF Connect, SSLProcessingConnect, Ask, SendThrows, Leaves
    <3>3. /\ \A v \in Workers \ {w} : pc'[v] = pc[v] /\ obj'[v] = obj[v]
          /\ pc'[w] \in {"hello", "add", "connect", "wait", "dead", "wild"}
      <4>1. "hello" \in Labels /\ "add" \in Labels
        BY DEF Labels
      <4>2. \A l \in {"hello", "add"} : Goto(w, l) => pc'[w] = l
        BY <1>0 DEF Goto, ThreadsOK
      <4> QED
        BY <1>0, <3>2, <4>1, <4>2, OneThread DEF Stays
    <3>4. Handlers(t)' = Handlers(t)
      BY <3>1, <3>3 DEF Handlers, Handling
    <3>5. ~InSetup(t, {"start"})'
      BY <3>1, <3>3 DEF InSetup
    <3>6. PacketsOf(t)' = PacketsOf(t)
      BY <3>1 DEF PacketsOf
    <3> QED
      BY <3>1, <3>4, <3>5, <3>6 DEF Receiving
  <2>5. pc[w] \notin Handling => SetupStep(w)
    BY <2>1 DEF WorkerStep, OnRecived, Complition, StartReceiving, RemoveTransport, At, Handling
  <2>6. ~Add(w)
    BY <1>4 DEF Add, At, IInv, StackInv, SetupLabels
  <2> QED
    BY <2>2, <2>3, <2>4, <2>5, <2>6 DEF SetupStep
<1> QED
  BY <1>1, <1>2, <1>3, <1>4, Elsewhere

(* What happens on a connection happens to one that the map holds.         *)
LEMMA RegStep ==
  ASSUME IInv, Next, NEW t \in Transports, Receiving(t)'
  PROVE  t \in Registered'
<1>0. ThreadsOK /\ HeapOK /\ StackInv' /\ SetterInv' /\ Conn(t)'
  BY TypeParts, TypeStep, StackStep, SetterStep, ConnStep DEF IInv
<1>1. life'[t] = "live"
  <2>1. InSetup(t, {"start"})' => life'[t] = "live"
    BY <1>0 DEF SetterInv, SetupLabels, Private, InSetup
  <2>2. recvs'[t] > 0 => recvs'[t] # 0
    OBVIOUS
  <2> QED
    BY <1>0, <2>1, <2>2 DEF Receiving, Conn, Resting
<1>2. CASE Add(Setter) /\ obj[Setter] = t
  <2>1. table'[sock[t]] = t /\ sock[t] \in Sockets
    BY <1>2, AddEnters
  <2> QED
    BY <2>1 DEF Registered
<1>3. CASE ~(Add(Setter) /\ obj[Setter] = t)
  <2>1. Receiving(t)
    BY <1>3, ReceivingStays
  <2>2. life[t] = "live"
    <3>1. InSetup(t, {"start"}) => life[t] = "live"
      BY DEF IInv, SetterInv, SetupLabels, Private, InSetup
    <3>2. Conn(t) /\ (recvs[t] > 0 => recvs[t] # 0)
      BY DEF IInv
    <3> QED
      BY <2>1, <3>1, <3>2 DEF Conn, Resting, Receiving
  <2> QED
    BY <2>1, <2>2, EntryStays DEF IInv, RegInv
<1> QED
  BY <1>2, <1>3

(* A stuttering step keeps the invariant.                                  *)
LEMMA Stutter == IInv /\ UNCHANGED vars => IInv'
<1> SUFFICES ASSUME IInv, UNCHANGED vars PROVE IInv'
  OBVIOUS
<1> USE DEF vars, baseVars, threadVars, heapVars, mapVars, timerVars, netVars, requestVars
<1>1. TypeOK' /\ SocketsApart' /\ SocketsHeld'
  BY DEF IInv, TypeOK, SocketsApart, SocketsHeld
<1>2. StackInv' /\ WildInv'
  BY DEF IInv, StackInv, WildInv
<1>3. SetterInv'
  BY DEF IInv, SetterInv
<1>4. TableInv'
  BY DEF IInv, TableInv, EntryOK
<1>5. ASSUME NEW t \in Transports
      PROVE  Conn(t)' /\ (Receiving(t)' => t \in Registered')
  <2>1. Quiet(t) /\ SetterAside(t) /\ SameHandlers(t) /\ SamePackets(t)
    BY PortSame DEF Quiet, SetterAside, SameHandlers, Handlers
  <2>2. Conn(t)'
    BY <2>1, SameConn DEF IInv, Same
  <2>3. Receiving(t)' => Receiving(t)
    BY DEF Receiving, PacketsOf, Handlers, InSetup
  <2>4. Registered' = Registered
    BY DEF Registered
  <2> QED
    BY <2>2, <2>3, <2>4 DEF IInv, RegInv
<1> QED
  BY <1>1, <1>2, <1>3, <1>4, <1>5 DEF IInv, RegInv

(* From the first connection on the invariant holds: who acts on each,     *)
(* what the setup, the map and the books are up to (client.cpp:34-64,      *)
(* Transport.cpp:353-380, base.cpp:34-154).                                *)
THEOREM SetupInvariant == Spec => []IInv
<1>1. IInv /\ Next => IInv'
  BY TypeStep, StackStep, SetterStep, TableStep, ApartStep, RegStep, ConnStep, WildStep
     DEF IInv, RegInv
<1>2. IInv /\ [Next]_vars => IInv'
  BY <1>1, Stutter
<1> QED
  BY <1>2, InitInv, PTL DEF Spec

(* Every variable keeps its type; m_CurrRecived never passes an answer's   *)
(* size (client.cpp:112-120, 223).                                         *)
THEOREM TypeCorrect == Spec => []TypeOK
<1>1. IInv => TypeOK
  BY DEF IInv
<1> QED
  BY <1>1, SetupInvariant, PTL

(* The setup hands a connection over without a second worker acting on it, *)
(* and harms nobody unless the server closes one before its first request  *)
(* (client.cpp:46-47, Transport.cpp:353-380).                              *)
THEOREM AlwaysHandedOver == Spec => []HandedOver
<1>1. IInv => HandedOver
  <2> SUFFICES ASSUME IInv PROVE HandedOver
    OBVIOUS
  <2>1. ASSUME NEW t \in Transports, InSetup(t, {"ask"}), NEW w \in Handlers(t)
        PROVE  nbytes[w] = 0
    <3>1. ~asked[t]
      BY <2>1 DEF InSetup, IInv, SetterInv, SetupLabels
    <3> QED
      BY <2>1, <3>1 DEF IInv, Conn
  <2> QED
    BY <2>1 DEF HandedOver, IInv, Conn, WildInv
<1> QED
  BY <1>1, SetupInvariant, PTL

(* The handler of a connection never runs on a deleted transport: only the *)
(* setup's Send after StartReceiving can (Transport.cpp:353-380).          *)
HandlersLive == \A w \in Workers : pc[w] \in Handling => life[obj[w]] = "live"

(* No handler of the client runs on a deleted transport.                   *)
THEOREM HandlersAlwaysLive == Spec => []HandlersLive
<1>1. IInv => HandlersLive
  BY HandlerAlone DEF HandlersLive
<1> QED
  BY <1>1, SetupInvariant, PTL

(* The bytes that add up are in at most one packet or handler.             *)
LEMMA AnswerAddsUp ==
  ASSUME IInv, NEW t \in Transports, peer[t] \in {"open", "closed"}
  PROVE  AnswerOf(t) + dropped[t] = IF asked[t] THEN AnswerSize ELSE 0
<1>0. NetOK /\ ThreadsOK /\ AskOK /\ HandledByOne(t) /\ Books(t)
  BY TypeParts DEF IInv, Conn
<1>1. owed[t] \in Nat /\ dropped[t] \in Nat /\ inbound[t] \in Nat /\ curr[t] \in Nat /\ asked[t] \in BOOLEAN
  BY <1>0, StockBound DEF AskOK
<1>2. ASSUME NEW n \in Nat, Within(t, n)
      PROVE  owed[t] + inbound[t] + curr[t] + dropped[t] + n = IF asked[t] THEN AnswerSize ELSE 0
  BY <1>1, <1>2 DEF Within, Stock
<1>3. CASE PacketsOf(t) # {}
  <2>1. PICK i \in PacketsOf(t) : PacketsOf(t) = {i}
    BY <1>0, <1>3 DEF HandledByOne, AtMostOne
  <2>2. port[i] \in Packet /\ PortBytes[i] = port[i].bytes
    BY <1>0 DEF PacketsOf, NetOK, PortBytes
  <2>3. PICK n \in Nat : n = port[i].bytes
    BY <2>2 DEF Packet
  <2>4. Total(PortBytes, PacketsOf(t)) = n
    BY <2>1, <2>2, <2>3, TotalOfOne
  <2>5. Uncounted(t) = {}
    BY <1>0, <1>3 DEF HandledByOne, Uncounted
  <2>6. Total(nbytes, Uncounted(t)) = 0
    BY <2>5, TotalOfNone
  <2>7. Within(t, n)
    BY <1>0, <2>3 DEF Books
  <2> QED
    BY <1>1, <1>2, <2>4, <2>6, <2>7 DEF AnswerOf
<1>4. CASE PacketsOf(t) = {} /\ Uncounted(t) # {}
  <2>1. PICK w \in Uncounted(t) : Uncounted(t) = {w}
    BY <1>0, <1>4 DEF HandledByOne, AtMostOne, Uncounted
  <2>2. PICK n \in Nat : n = nbytes[w]
    BY <1>0 DEF ThreadsOK, Uncounted, Handlers
  <2>3. Total(nbytes, Uncounted(t)) = n /\ Total(PortBytes, PacketsOf(t)) = 0
    BY <1>4, <2>1, <2>2, TotalOfOne, TotalOfNone
  <2>4. Within(t, n)
    BY <1>0, <2>2 DEF Books
  <2> QED
    BY <1>1, <1>2, <2>3, <2>4 DEF AnswerOf
<1>5. CASE PacketsOf(t) = {} /\ Uncounted(t) = {}
  <2>1. Total(nbytes, Uncounted(t)) = 0 /\ Total(PortBytes, PacketsOf(t)) = 0
    BY <1>5, TotalOfNone
  <2>2. Within(t, 0)
    BY <1>0, <1>5 DEF Books
  <2> QED
    BY <1>1, <1>2, <2>1, <2>2 DEF AnswerOf
<1> QED
  BY <1>3, <1>4, <1>5

(* Every byte of the answer a connection has asked for is in one place, or *)
(* was dropped by a send that took only a part: no answer is asked for     *)
(* twice, and the client loses no byte itself, whichever sends are cut     *)
(* (client.cpp:47, 112-120, 223, Transport.cpp:316-323).                   *)
THEOREM AnswerAlwaysAccounted == Spec => []AnswerAccounted
<1>1. IInv => AnswerAccounted
  BY AnswerAddsUp DEF AnswerAccounted
<1> QED
  BY <1>1, SetupInvariant, PTL

(* The map holds live connections under their own handles, and every one   *)
(* that receives, although a handle may be given out again before the      *)
(* entry of the closed connection is erased (client.cpp:43, 59,            *)
(* base.cpp:124, 149-150).                                                 *)
THEOREM AlwaysKnownToMap == Spec => []KnownToMap
<1>1. IInv => KnownToMap
  BY DEF IInv, TableInv, EntryOK, RegInv, Receiving, KnownToMap
<1> QED
  BY <1>1, SetupInvariant, PTL

=============================================================================
