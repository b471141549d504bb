-------------------------- MODULE DiscoveryProofs ---------------------------
(***************************************************************************)
(* What TLAPS proves of the UDP side, for every number of clients, every   *)
(* size of a block and of an array that blocks fill exactly, and any       *)
(* number of losses, duplicates and exits: client and server take turns,   *)
(* the program strands nobody, and without duplicates every client is      *)
(* handed the blocks in their order.                                       *)
(*                                                                         *)
(* The proofs look at the datagrams of a client that are under way, on the *)
(* network or in a handler.  How many there are is counted (Counted);      *)
(* which ones there may be depends on whether the client has asked for a   *)
(* block (Silent, AtEase, Turns); and that there is one at all that makes  *)
(* the two sides go on is AtWork.                                          *)
(***************************************************************************)
EXTENDS Discovery, Integers, FiniteSetTheorems, TLAPS

(* The offsets at which a block begins.                                    *)
Starts == {o \in 0 .. Size - 1 : \E j \in 0 .. Size - 1 : o = j * N}

(* The datagrams of a client that are under way.                           *)
UnderWay(c) ==
  {d \in BagToSet(net) : d.client = c}
    \cup {d \in {request} : server = "handler" /\ d.client = c}
    \cup {d \in {answer[c]} : client[c] = "handler"}

(* Those that have another one sent: a request for a block and a block.    *)
Moving(c) == {Ask(c, N)} \cup {Reply(c, "block", o) : o \in 0 .. Size - 1}

(* Where the server's next block for a client begins.                      *)
ServerStart(c) == IF remotes[c] = None THEN 0 ELSE Start(remotes[c])

(* A handler has a datagram in its buffer, and a block fills the client's. *)
InHand ==
  /\ server = "handler" => request \in Requests
  /\ \A c \in Clients :
       client[c] = "handler" =>
         /\ answer[c] \in Answers
         /\ answer[c].client = c
         /\ answer[c].kind = "block" =>
              buffer[c] = [i \in 1 .. N |-> answer[c].from + i - 1]

(* Client and server take turns.                                           *)
Counted(c) == IsFiniteSet(Copies(c)) /\ InFlight(c) <= 1 + doubled

(* A client that has not begun has sent nothing...                         *)
Silent(c) == client[c] = "off" => UnderWay(c) = {} /\ remote[c] = None

(* ...one that has not been found has asked for nothing; it is found once. *)
AtEase(c) ==
  remote[c] = None =>
    /\ remotes[c] = None
    /\ got[c] = <<>>
    /\ UnderWay(c) \cap Moving(c) = {}
    /\ found[c] => client[c] \in {"deaf", "gone"}

(* A connected client and the server keep each other going.                *)
AtWork(c) ==
  /\ remote[c] # None
  /\ lost = 0
  /\ server # "deaf"
  /\ client[c] \notin {"deaf", "gone"}
  => UnderWay(c) \cap Moving(c) # {}

(* Without duplicates, what is under way is the request for the block at   *)
(* the client's offset, with the server's offset there too, or that block, *)
(* with the server's offset one block ahead; a client that threw has not   *)
(* started its count again.                                                *)
Asked(c, d) == d = Ask(c, N) /\ ServerStart(c) = remote[c].offset
Answered(c, d) ==
  /\ d = Reply(c, "block", remote[c].offset)
  /\ remotes[c] # None
  /\ ServerStart(c) = Onward(remote[c].offset)
Turns(c) ==
  remote[c] # None =>
    /\ remote[c].offset \in Starts
    /\ doubled = 0 => /\ client[c] \notin {"deaf", "gone"} => remote[c].curr = 0
                      /\ \A d \in UnderWay(c) : Asked(c, d) \/ Answered(c, d)

ClientInv(c) == Counted(c) /\ Silent(c) /\ AtEase(c) /\ AtWork(c) /\ Turns(c)

IInv == TypeOK /\ InHand /\ \A c \in Clients : ClientInv(c)

-----------------------------------------------------------------------------
(* The sizes.                                                              *)
LEMMA Sizes == N \in Nat /\ N > 1 /\ Size \in Nat /\ Size > 0
BY DiscoveryAssumption

(* A block that begins inside g_NETDATA ends inside it, and the next       *)
(* block begins where it ends or at the beginning.                         *)
LEMMA NextStart ==
  ASSUME NEW o \in Starts
  PROVE  /\ o \in Nat /\ o < Size /\ o + N <= Size
         /\ o + N # Size => o + N \in Starts
         /\ 0 \in Starts
         /\ Onward(o) \in Starts
         /\ Onward(o) = IF o + N = Size THEN 0 ELSE o + N
<1>1. PICK j \in 0 .. Size - 1 : o = j * N
  BY DEF Starts
<1>2. PICK k \in 1 .. Size : Size = k * N
  BY DiscoveryAssumption
<1>3. N \in Nat /\ N > 0 /\ Size \in Nat /\ Size > 0 /\ j \in Nat /\ k \in Nat
  BY Sizes
<1>4. o \in Nat /\ o < Size
  BY <1>3 DEF Starts
<1>5. j < k
  <2> SUFFICES ASSUME k <= j PROVE FALSE
    BY <1>3
  <2>1. (j - k) * N >= 0
    BY <1>3
  <2>2. j * N = k * N + (j - k) * N
    BY <1>3
  <2> QED
    BY <1>1, <1>2, <1>3, <1>4, <2>1, <2>2
<1>6. o + N <= Size
  <2>1. (k - j - 1) * N >= 0
    BY <1>3, <1>5
  <2>2. k * N = j * N + N + (k - j - 1) * N
    BY <1>3
  <2> QED
    BY <1>1, <1>2, <1>3, <2>1, <2>2
<1>7. o + N # Size => o + N \in Starts
  <2> SUFFICES ASSUME o + N # Size PROVE o + N \in Starts
    OBVIOUS
  <2>1. (j + 1) * N = o + N
    BY <1>1, <1>3
  <2>2. o + N < Size
    BY <1>3, <1>4, <1>6
  <2>3. o + N >= j + 1
    <3>1. j * (N - 1) >= 0
      BY <1>3
    <3>2. j * N = j + j * (N - 1)
      BY <1>3
    <3> QED
      BY <1>1, <1>3, <3>1, <3>2
  <2>4. j + 1 \in 0 .. Size - 1 /\ o + N \in 0 .. Size - 1
    BY <1>3, <1>4, <2>2, <2>3
  <2> QED
    BY <2>1, <2>4 DEF Starts
<1>8. 0 \in Starts
  <2>1. 0 * N = 0
    BY <1>3
  <2> QED
    BY <1>3, <2>1 DEF Starts
<1>9. Onward(o) = IF o + N = Size THEN 0 ELSE o + N
  BY <1>3, <1>4, <1>6 DEF Onward
<1> QED
  BY <1>4, <1>6, <1>7, <1>8, <1>9

(* The first block begins at 0.                                            *)
LEMMA FirstStart == 0 \in Starts
<1>1. 0 * N = 0 /\ 0 \in 0 .. Size - 1
  BY Sizes
<1> QED
  BY <1>1 DEF Starts

-----------------------------------------------------------------------------
(* One more copy of a datagram.                                            *)
LEMMA Added ==
  ASSUME IsABag(net), NEW d, Send(d)
  PROVE  /\ IsABag(net')
         /\ BagToSet(net') = BagToSet(net) \cup {d}
         /\ net'[d] = IF d \in BagToSet(net) THEN net[d] + 1 ELSE 1
         /\ \A e \in BagToSet(net) \ {d} : net'[e] = net[e]
         /\ \A e \in BagToSet(net) : net[e] \in Nat /\ net[e] > 0
<1>1. \A e \in DOMAIN net : net[e] \in Nat /\ net[e] > 0
  BY DEF IsABag
<1>2. net' = [e \in DOMAIN net \cup {d} |->
             (IF e \in DOMAIN net THEN net[e] ELSE 0) + (IF e \in {d} THEN 1 ELSE 0)]
  BY DEF Send, (+), SetToBag
<1>3. DOMAIN net' = DOMAIN net \cup {d}
  BY <1>2
<1>4. net'[d] = IF d \in DOMAIN net THEN net[d] + 1 ELSE 1
  BY <1>1, <1>2
<1>5. \A e \in DOMAIN net \ {d} : net'[e] = net[e]
  BY <1>1, <1>2
<1>6. \A e \in DOMAIN net' : net'[e] \in {n \in Nat : n > 0}
  BY <1>1, <1>3, <1>4, <1>5
<1>7. IsABag(net')
  BY <1>2, <1>3, <1>6 DEF IsABag
<1> QED
  BY <1>1, <1>3, <1>4, <1>5, <1>7 DEF BagToSet

(* One copy less.                                                          *)
LEMMA Removed ==
  ASSUME IsABag(net), NEW d \in BagToSet(net), Take(d)
  PROVE  /\ IsABag(net')
         /\ BagToSet(net') = IF net[d] = 1 THEN BagToSet(net) \ {d} ELSE BagToSet(net)
         /\ net[d] # 1 => net'[d] = net[d] - 1
         /\ \A e \in BagToSet(net) \ {d} : net'[e] = net[e]
         /\ \A e \in BagToSet(net) : net[e] \in Nat /\ net[e] > 0
<1>1. d \in DOMAIN net /\ \A e \in DOMAIN net : net[e] \in Nat /\ net[e] > 0
  BY DEF IsABag, BagToSet
<1> DEFINE C == [e \in DOMAIN net |-> IF e \in {d} THEN net[e] - 1 ELSE net[e]]
<1>2. net' = [e \in {k \in DOMAIN C : C[k] > 0} |-> C[e]]
  BY DEF Take, (-), SetToBag
<1>3. /\ DOMAIN C = DOMAIN net
      /\ C[d] = net[d] - 1
      /\ \A e \in DOMAIN net \ {d} : C[e] = net[e]
  BY <1>1
<1> HIDE DEF C
<1>4. DOMAIN net' = IF net[d] = 1 THEN DOMAIN net \ {d} ELSE DOMAIN net
  <2>1. \A k \in DOMAIN net : C[k] > 0 <=> k # d \/ net[d] # 1
    BY <1>1, <1>3
  <2>2. DOMAIN net' = {k \in DOMAIN net : C[k] > 0}
    BY <1>2, <1>3
  <2> QED
    BY <1>1, <2>1, <2>2
<1>5. net[d] # 1 => net'[d] = net[d] - 1
  BY <1>1, <1>2, <1>3, <1>4
<1>6. \A e \in DOMAIN net \ {d} : net'[e] = net[e]
  BY <1>1, <1>2, <1>3, <1>4
<1>7. \A e \in DOMAIN net' : net'[e] \in {n \in Nat : n > 0}
  BY <1>1, <1>4, <1>5, <1>6
<1>8. IsABag(net')
  BY <1>2, <1>4, <1>7 DEF IsABag
<1> QED
  BY <1>1, <1>4, <1>5, <1>6, <1>8 DEF BagToSet

(* What is on its way to or from a client, copy by copy.                   *)
LEMMA CopyOf ==
  ASSUME NEW c, NEW x
  PROVE  x \in Copies(c) <=>
           \E d \in BagToSet(net) : d.client = c /\ \E i \in 1 .. net[d] : x = <<d, i>>
BY DEF Copies

(* Sending a datagram adds one copy of its client's and none of another's. *)
LEMMA Sending ==
  ASSUME IsABag(net), NEW d, Send(d)
  PROVE  /\ IsABag(net')
         /\ BagToSet(net)' = BagToSet(net) \cup {d}
         /\ \A c : c # d.client => Copies(c)' = Copies(c)
         /\ \A c : c = d.client /\ IsFiniteSet(Copies(c)) =>
              /\ IsFiniteSet(Copies(c)')
              /\ Cardinality(Copies(c)') = Cardinality(Copies(c)) + 1
<1>1. /\ IsABag(net')
      /\ BagToSet(net') = BagToSet(net) \cup {d}
      /\ net'[d] = IF d \in BagToSet(net) THEN net[d] + 1 ELSE 1
      /\ \A e \in BagToSet(net) \ {d} : net'[e] = net[e]
      /\ \A e \in BagToSet(net) : net[e] \in Nat /\ net[e] > 0
  BY Added
<1>2. ASSUME NEW c, c # d.client
      PROVE  Copies(c)' = Copies(c)
  <2>1. \A e : e \in BagToSet(net') /\ e.client = c <=> e \in BagToSet(net) /\ e.client = c
    BY <1>1, <1>2
  <2>2. \A e : e \in BagToSet(net) /\ e.client = c => net'[e] = net[e]
    BY <1>1, <1>2
  <2> QED
    BY <2>1, <2>2 DEF Copies, BagToSet
<1>3. ASSUME NEW c, c = d.client, IsFiniteSet(Copies(c))
      PROVE  /\ IsFiniteSet(Copies(c)')
             /\ Cardinality(Copies(c)') = Cardinality(Copies(c)) + 1
  <2> DEFINE x == <<d, net'[d]>>
  <2>1. x \notin Copies(c)
    <3>1. ASSUME x \in Copies(c) PROVE FALSE
      <4>1. PICK e \in BagToSet(net) : \E i \in 1 .. net[e] : x = <<e, i>>
        BY <3>1, CopyOf
      <4>2. e = d /\ net'[d] \in 1 .. net[d]
        BY <4>1
      <4> QED
        BY <1>1, <4>1, <4>2
    <3> QED
      BY <3>1
  <2>2. \A y : y \in Copies(c)' <=> y \in Copies(c) \/ y = x
    <3>1. ASSUME NEW y, y \in Copies(c)' PROVE y \in Copies(c) \/ y = x
      <4>1. PICK e \in BagToSet(net') : e.client = c /\ \E i \in 1 .. net'[e] : y = <<e, i>>
        BY <3>1 DEF Copies, BagToSet
      <4>2. PICK i \in 1 .. net'[e] : y = <<e, i>>
        BY <4>1
      <4>3. CASE e = d /\ (d \notin BagToSet(net) \/ i = net'[d])
        BY <1>1, <4>2, <4>3
      <4>4. CASE e = d /\ d \in BagToSet(net) /\ i # net'[d]
        <5>1. i \in 1 .. net[d]
          BY <1>1, <4>4
        <5> QED
          BY <1>3, <4>2, <4>4, <5>1, CopyOf
      <4>5. CASE e # d
        <5>1. e \in BagToSet(net) /\ i \in 1 .. net[e]
          BY <1>1, <4>5
        <5> QED
          BY <4>1, <4>2, <5>1, CopyOf
      <4> QED
        BY <4>3, <4>4, <4>5
    <3>2. x \in Copies(c)'
      <4>1. d \in BagToSet(net') /\ net'[d] \in 1 .. net'[d]
        BY <1>1
      <4> QED
        BY <1>3, <4>1 DEF Copies, BagToSet
    <3>3. ASSUME NEW y, y \in Copies(c) PROVE y \in Copies(c)'
      <4>1. PICK e \in BagToSet(net) : e.client = c /\ \E i \in 1 .. net[e] : y = <<e, i>>
        BY <3>3, CopyOf
      <4>2. PICK i \in 1 .. net[e] : y = <<e, i>>
        BY <4>1
      <4>3. e \in BagToSet(net') /\ i \in 1 .. net'[e]
        BY <1>1
      <4> QED
        BY <4>1, <4>2, <4>3 DEF Copies, BagToSet
    <3> QED
      BY <3>1, <3>2, <3>3
  <2>3. Copies(c)' = Copies(c) \cup {x}
    BY <2>2
  <2> HIDE DEF x
  <2> QED
    BY <1>3, <2>1, <2>3, FS_AddElement, FS_CardinalityType
<1> QED
  BY <1>1, <1>2, <1>3 DEF BagToSet

(* Taking a datagram off the network takes one copy of its client's.       *)
LEMMA Taking ==
  ASSUME IsABag(net), NEW d \in BagToSet(net), Take(d)
  PROVE  /\ IsABag(net')
         /\ BagToSet(net)' \subseteq BagToSet(net)
         /\ BagToSet(net) \subseteq BagToSet(net)' \cup {d}
         /\ \A c : c # d.client => Copies(c)' = Copies(c)
         /\ \A c : c = d.client /\ IsFiniteSet(Copies(c)) =>
              /\ IsFiniteSet(Copies(c)')
              /\ Cardinality(Copies(c)') = Cardinality(Copies(c)) - 1
<1>1. /\ IsABag(net')
      /\ BagToSet(net') = IF net[d] = 1 THEN BagToSet(net) \ {d} ELSE BagToSet(net)
      /\ net[d] # 1 => net'[d] = net[d] - 1
      /\ \A e \in BagToSet(net) \ {d} : net'[e] = net[e]
      /\ \A e \in BagToSet(net) : net[e] \in Nat /\ net[e] > 0
  BY Removed
<1>2. ASSUME NEW c, c # d.client
      PROVE  Copies(c)' = Copies(c)
  <2>1. \A e : e \in BagToSet(net') /\ e.client = c <=> e \in BagToSet(net) /\ e.client = c
    BY <1>1, <1>2
  <2>2. \A e : e \in BagToSet(net) /\ e.client = c => net'[e] = net[e]
    BY <1>1, <1>2
  <2> QED
    BY <2>1, <2>2 DEF Copies, BagToSet
<1>3. ASSUME NEW c, c = d.client, IsFiniteSet(Copies(c))
      PROVE  /\ IsFiniteSet(Copies(c)')
             /\ Cardinality(Copies(c)') = Cardinality(Copies(c)) - 1
  <2> DEFINE x == <<d, net[d]>>
  <2>1. x \in Copies(c)
    <3>1. net[d] \in 1 .. net[d]
      BY <1>1
    <3> QED
      BY <1>3, <3>1, CopyOf
  <2>2. \A y : y \in Copies(c)' <=> y \in Copies(c) /\ y # x
    <3>1. ASSUME NEW y, y \in Copies(c)' PROVE y \in Copies(c) /\ y # x
      <4>1. PICK e \in BagToSet(net') : e.client = c /\ \E i \in 1 .. net'[e] : y = <<e, i>>
        BY <3>1 DEF Copies, BagToSet
      <4>2. PICK i \in 1 .. net'[e] : y = <<e, i>>
        BY <4>1
      <4>3. e \in BagToSet(net) /\ i \in 1 .. net[e] /\ ~(e = d /\ i = net[d])
        BY <1>1
      <4> QED
        BY <4>1, <4>2, <4>3, CopyOf
    <3>2. ASSUME NEW y, y \in Copies(c), y # x PROVE y \in Copies(c)'
      <4>1. PICK e \in BagToSet(net) : e.client = c /\ \E i \in 1 .. net[e] : y = <<e, i>>
        BY <3>2, CopyOf
      <4>2. PICK i \in 1 .. net[e] : y = <<e, i>>
        BY <4>1
      <4>3. e = d => i # net[d]
        BY <3>2, <4>2
      <4>4. e \in BagToSet(net') /\ i \in 1 .. net'[e]
        BY <1>1, <4>3
      <4> QED
        BY <4>1, <4>2, <4>4 DEF Copies, BagToSet
    <3> QED
      BY <3>1, <3>2
  <2>3. Copies(c)' = Copies(c) \ {x}
    BY <2>2
  <2> HIDE DEF x
  <2> QED
    BY <1>3, <2>1, <2>3, FS_RemoveElement, FS_CardinalityType
<1> QED
  BY <1>1, <1>2, <1>3 DEF BagToSet

(* A client has a copy on its way exactly when it has a datagram there.    *)
LEMMA SomeCopy ==
  ASSUME IsABag(net), NEW c, IsFiniteSet(Copies(c))
  PROVE  /\ Cardinality(Copies(c)) \in Nat
         /\ Cardinality(Copies(c)) = 0 <=> \A d \in BagToSet(net) : d.client # c
<1>1. Cardinality(Copies(c)) \in Nat /\ (Cardinality(Copies(c)) = 0 <=> Copies(c) = {})
  BY FS_CardinalityType, FS_EmptySet
<1>2. \A d \in BagToSet(net) : 1 \in 1 .. net[d]
  BY DEF IsABag, BagToSet
<1>3. Copies(c) = {} <=> \A d \in BagToSet(net) : d.client # c
  BY <1>2, CopyOf
<1> QED
  BY <1>1, <1>3

-----------------------------------------------------------------------------
(* What is sent is a datagram.                                             *)
LEMMA Datagrams ==
  ASSUME NEW c \in Clients
  PROVE  /\ \A n \in {0, N} : Ask(c, n) \in Requests /\ Ask(c, n).client = c
         /\ \A k \in {"echo", "empty", "block"}, o \in 0 .. Size - 1 :
              /\ Reply(c, k, o) \in Answers
              /\ Reply(c, k, o).client = c
              /\ Reply(c, k, o).kind = k
              /\ Reply(c, k, o).from = o
BY DEF Ask, Reply, Requests, Answers

(* Requests and answers are told apart, and so are those that move.        *)
LEMMA WhatMoves ==
  ASSUME NEW c \in Clients
  PROVE  /\ \A d \in Requests : d \in Moving(c) <=> d = Ask(c, N)
         /\ \A d \in Requests : d = Ask(c, N) <=> d.client = c /\ d.num # 0
         /\ \A d \in Answers : d \in Moving(c) <=> d.client = c /\ d.kind = "block"
         /\ \A d \in Requests : \A k, o : d # Reply(c, k, o)
         /\ \A d \in Answers : d # Ask(c, N)
         /\ \A o \in 0 .. Size - 1 : Reply(c, "block", o) \in Moving(c)
         /\ Ask(c, N) \in Moving(c)
         /\ Moving(c)' = Moving(c)
<1>1. \A d \in Requests : d.to = "server" /\ d.num \in {0, N}
                          /\ d = [to |-> "server", client |-> d.client, num |-> d.num]
  BY DEF Requests
<1>2. \A d \in Answers : /\ d.to = "client" /\ d.from \in 0 .. Size - 1
                         /\ d = [to |-> "client", client |-> d.client,
                                 kind |-> d.kind, from |-> d.from]
  BY DEF Answers
<1>3. /\ Ask(c, N).to = "server" /\ Ask(c, N).client = c /\ Ask(c, N).num = N
      /\ \A k, o : /\ Reply(c, k, o).to = "client" /\ Reply(c, k, o).client = c
                   /\ Reply(c, k, o).kind = k /\ Reply(c, k, o).from = o
  BY DEF Ask, Reply
<1>4. \A d \in Requests : d = Ask(c, N) <=> d.client = c /\ d.num # 0
  BY <1>1, <1>3, Sizes DEF Ask
<1>5. \A d \in Requests : \A k, o : d # Reply(c, k, o)
  BY <1>1, <1>3
<1>6. \A d \in Answers : d # Ask(c, N)
  BY <1>2, <1>3
<1>7. \A d \in Answers : d.client = c /\ d.kind = "block" => d = Reply(c, "block", d.from)
  BY <1>2 DEF Reply
<1>8. Moving(c)' = Moving(c)
  BY DEF Moving, Ask, Reply
<1>9. \A d \in Answers : d \in Moving(c) <=> d.client = c /\ d.kind = "block"
  BY <1>2, <1>3, <1>6, <1>7 DEF Moving
<1> QED
  BY <1>4, <1>5, <1>6, <1>8, <1>9 DEF Moving

(* The server's next block begins inside g_NETDATA.                        *)
LEMMA StartInside ==
  ASSUME NEW t \in Transport
  PROVE  /\ Start(t) \in 0 .. Size - 1
         /\ \A n \in Nat : Served(t, n) \in Transport /\ Served(t, n).offset = Start(t) + n
<1>1. t.curr \in Nat /\ t.offset \in Nat
  BY DEF Transport
<1>2. Start(t) \in 0 .. Size - 1
  BY <1>1, Sizes DEF Start
<1>3. ASSUME NEW n \in Nat
      PROVE  Served(t, n) \in Transport /\ Served(t, n).offset = Start(t) + n
  <2>1. Start(t) + n \in Nat
    BY <1>2, Sizes
  <2> QED
    BY <2>1 DEF Served, Transport
<1> QED
  BY <1>2, <1>3

(* A new transport is one, and no null pointer.                            *)
LEMMA Transports ==
  /\ NewTransport \in Transport
  /\ NewTransport.curr = 0
  /\ NewTransport.offset = 0
  /\ NewTransport # None
BY DiscoveryAssumption DEF NewTransport, Transport

(* How many words an answer brings.                                        *)
LEMMA WordsIn ==
  ASSUME NEW d \in Answers
  PROVE  /\ Words(d) \in Nat
         /\ d.kind = "block" => Words(d) = N
         /\ d.from \in Nat
BY Sizes DEF Answers, Words

(* The client's next offset is a number.                                   *)
LEMMA OnwardType ==
  ASSUME NEW o \in Nat
  PROVE  Onward(o) \in Nat
BY Sizes DEF Onward

-----------------------------------------------------------------------------
(* What is on the network stays a bag of datagrams.                        *)
LEMMA SendingTypes ==
  ASSUME TypeOK, NEW d \in Requests \cup Answers, Send(d)
  PROVE  IsABag(net') /\ BagToSet(net') \subseteq Requests \cup Answers
<1>1. IsABag(net) /\ BagToSet(net) \subseteq Requests \cup Answers
  BY DEF TypeOK
<1>2. IsABag(net') /\ BagToSet(net') = BagToSet(net) \cup {d}
  BY <1>1, Added
<1> QED
  BY <1>1, <1>2

(* Every variable keeps its type.                                          *)
LEMMA StartUDPTypes ==
  ASSUME TypeOK, StartUDP \/ ServerFails
  PROVE  TypeOK'
BY DEF TypeOK, StartUDP, ServerFails, netVars, clientVars

(* A datagram arrives at the server.                                       *)
LEMMA ServerReceivesTypes ==
  ASSUME TypeOK, NEW c \in Clients, ServerReceives(c)
  PROVE  TypeOK'
<1>1. PICK d \in BagToSet(net) : d.to = "server" /\ Take(d) /\ request' = d
  BY DEF ServerReceives
<1>2. IsABag(net') /\ BagToSet(net') \subseteq Requests \cup Answers
  BY <1>1, Taking DEF TypeOK, BagToSet
<1>3. d \in Requests
  BY <1>1 DEF TypeOK, Answers
<1> QED
  BY <1>1, <1>2, <1>3 DEF TypeOK, ServerReceives, clientVars, BagToSet

(* The server's handler sends one datagram.                                *)
LEMMA ServerComplitionTypes ==
  ASSUME TypeOK, InHand, ServerComplition
  PROVE  TypeOK'
<1>1. PICK c \in Clients : c = request.client
  BY DEF InHand, ServerComplition, Requests
<1>2. PICK n \in {0, N} : n = request.num
  BY DEF InHand, ServerComplition, Requests
<1> DEFINE t == IF remotes[c] = None THEN NewTransport ELSE remotes[c]
<1>3. t \in Transport
  BY Transports DEF TypeOK
<1>4. Reply(c, "echo", 0) \in Answers /\ Block(c, t, n) \in Answers
  <2>1. 0 \in 0 .. Size - 1 /\ (t \in Transport => Start(t) \in 0 .. Size - 1)
    <3> HIDE DEF t
    <3> QED
      BY StartInside, Sizes
  <2>2. Start(t) \in 0 .. Size - 1
    BY <1>3, <2>1
  <2> HIDE DEF t
  <2> QED
    BY <2>1, <2>2, Datagrams DEF Block
<1>5. Served(t, n) \in Transport
  BY <1>3, StartInside, Sizes
<1>6. server' = "armed"
  BY DEF ServerComplition
<1>7. CASE Send(Reply(c, "echo", 0)) /\ UNCHANGED <<remotes, listed>>
  <2>1. IsABag(net') /\ BagToSet(net') \subseteq Requests \cup Answers
    BY <1>4, <1>7, SendingTypes
  <2> QED
    BY <1>6, <1>7, <2>1 DEF TypeOK, ServerComplition, clientVars, BagToSet
<1>8. CASE /\ Send(Block(c, t, n))
           /\ remotes' = [remotes EXCEPT ![c] = Served(t, n)]
           /\ listed' = IF listed = None THEN c ELSE listed
  <2>1. IsABag(net') /\ BagToSet(net') \subseteq Requests \cup Answers
    BY <1>4, <1>8, SendingTypes
  <2>2. remotes' \in [Clients -> Transport \cup {None}] /\ listed' \in Clients \cup {None}
    BY <1>5, <1>8 DEF TypeOK
  <2> QED
    BY <1>6, <2>1, <2>2 DEF TypeOK, ServerComplition, clientVars, BagToSet
<1> QED
  BY <1>1, <1>2, <1>7, <1>8 DEF ServerComplition, Echo

(* The server's handler throws.                                            *)
LEMMA ServerThrowsTypes ==
  ASSUME TypeOK, InHand, ServerThrows
  PROVE  TypeOK'
<1>1. PICK c \in Clients, n \in {0, N} : c = request.client /\ n = request.num
  BY DEF InHand, ServerThrows, Requests
<1>2. remotes' \in [Clients -> Transport \cup {None}]
  <2>1. CASE remotes[c] = None /\ UNCHANGED remotes
    BY <2>1 DEF TypeOK
  <2>2. CASE remotes[c] # None /\ remotes' = [remotes EXCEPT ![c] = Served(@, n)]
    <3>1. remotes[c] \in Transport
      BY <2>2 DEF TypeOK
    <3>2. Served(remotes[c], n) \in Transport
      BY <3>1, StartInside, Sizes
    <3> QED
      BY <2>2, <3>2 DEF TypeOK
  <2> QED
    BY <1>1, <2>1, <2>2 DEF ServerThrows
<1> QED
  BY <1>2 DEF TypeOK, ServerThrows, netVars, clientVars

(* A client's broadcast.                                                   *)
LEMMA BroadcastTypes ==
  ASSUME TypeOK, NEW c \in Clients, Broadcast(c)
  PROVE  TypeOK'
<1>1. IsABag(net') /\ BagToSet(net') \subseteq Requests \cup Answers
  <2>1. CASE server = "off"
    BY <2>1 DEF TypeOK, Broadcast
  <2>2. CASE server # "off"
    <3>1. Send(Ask(c, 0)) /\ Ask(c, 0) \in Requests
      BY <2>2, Datagrams DEF Broadcast
    <3> QED
      BY <3>1, SendingTypes
  <2> QED
    BY <2>1, <2>2
<1>2. client' \in [Clients -> {"off", "armed", "handler", "deaf", "gone"}]
  BY DEF TypeOK, Broadcast
<1> QED
  BY <1>1, <1>2 DEF TypeOK, Broadcast, serverVars, BagToSet

(* A datagram arrives at a client.                                         *)
LEMMA ClientReceivesTypes ==
  ASSUME TypeOK, NEW c \in Clients, ClientReceives(c)
  PROVE  TypeOK'
<1>1. PICK d \in BagToSet(net) :
        /\ d.to = "client" /\ d.client = c /\ Take(d)
        /\ answer' = [answer EXCEPT ![c] = d]
        /\ buffer' = [buffer EXCEPT ![c] =
             [i \in 1 .. N |-> IF i <= Words(d) THEN d.from + i - 1 ELSE @[i]]]
  BY DEF ClientReceives
<1>2. IsABag(net') /\ BagToSet(net') \subseteq Requests \cup Answers
  BY <1>1, Taking DEF TypeOK, BagToSet
<1>3. d \in Answers
  BY <1>1 DEF TypeOK, Requests
<1>4. answer' \in [Clients -> Answers \cup {None}]
  BY <1>1, <1>3 DEF TypeOK
<1>5. buffer' \in [Clients -> [1 .. N -> Nat]]
  <2>1. buffer[c] \in [1 .. N -> Nat]
    BY DEF TypeOK
  <2>2. [i \in 1 .. N |-> IF i <= Words(d) THEN d.from + i - 1 ELSE buffer[c][i]] \in [1 .. N -> Nat]
    <3>1. Words(d) \in Nat /\ d.from \in Nat /\ N \in Nat
      BY <1>3, WordsIn, Sizes
    <3> QED
      BY <2>1, <3>1
  <2>3. buffer' = [buffer EXCEPT ![c] =
             [i \in 1 .. N |-> IF i <= Words(d) THEN d.from + i - 1 ELSE buffer[c][i]]]
    BY <1>1 DEF TypeOK
  <2> QED
    BY <2>2, <2>3 DEF TypeOK
<1>6. client' \in [Clients -> {"off", "armed", "handler", "deaf", "gone"}]
  BY DEF TypeOK, ClientReceives
<1> QED
  BY <1>2, <1>4, <1>5, <1>6 DEF TypeOK, ClientReceives, serverVars, BagToSet

(* The client finds the server.                                            *)
LEMMA NewRemoteAddressTypes ==
  ASSUME TypeOK, NEW c \in Clients, NewRemoteAddress(c)
  PROVE  TypeOK'
<1>1. IsABag(net') /\ BagToSet(net') \subseteq Requests \cup Answers
  <2>1. CASE AskNext(c)
    <3>1. Send(Ask(c, N)) /\ Ask(c, N) \in Requests
      BY <2>1, Datagrams DEF AskNext
    <3> QED
      BY <3>1, SendingTypes
  <2>2. CASE UNCHANGED net
    BY <2>2 DEF TypeOK
  <2> QED
    BY <2>1, <2>2 DEF NewRemoteAddress
<1>2. /\ client' \in [Clients -> {"off", "armed", "handler", "deaf", "gone"}]
      /\ found' \in [Clients -> BOOLEAN]
      /\ remote' \in [Clients -> Transport \cup {None}]
  BY Transports DEF TypeOK, NewRemoteAddress
<1> QED
  BY <1>1, <1>2 DEF TypeOK, NewRemoteAddress, serverVars, BagToSet

(* A connected client's handler.                                           *)
LEMMA ComplitionTypes ==
  ASSUME TypeOK, InHand, NEW c \in Clients, Complition(c)
  PROVE  TypeOK'
<1>1. IsABag(net') /\ BagToSet(net') \subseteq Requests \cup Answers
  <2>1. CASE AskNext(c)
    <3>1. Send(Ask(c, N)) /\ Ask(c, N) \in Requests
      BY <2>1, Datagrams DEF AskNext
    <3> QED
      BY <3>1, SendingTypes
  <2>2. CASE UNCHANGED net
    BY <2>2 DEF TypeOK
  <2> QED
    BY <2>1, <2>2 DEF Complition
<1>2. /\ client' \in [Clients -> {"off", "armed", "handler", "deaf", "gone"}]
      /\ got' \in [Clients -> [1 .. N -> Nat] \cup {<<>>}]
  BY DEF TypeOK, Complition
<1>3. remote' \in [Clients -> Transport \cup {None}]
  <2> DEFINE curr == remote[c].curr + Words(answer[c])
  <2>1. remote[c] \in Transport /\ remote[c].curr \in Nat /\ remote[c].offset \in Nat
    BY DEF TypeOK, Complition, Transport
  <2>2. curr \in Nat
    <3>1. answer[c] \in Answers
      BY DEF InHand, Complition
    <3>2. Words(answer[c]) \in Nat
      BY <3>1, WordsIn
    <3> QED
      BY <2>1, <3>2
  <2>3. CASE remote' = [remote EXCEPT ![c].curr = curr]
    <3> HIDE DEF curr
    <3>1. [remote[c] EXCEPT !.curr = curr] \in Transport
      BY <2>1, <2>2 DEF Transport
    <3> QED
      BY <2>3, <3>1 DEF TypeOK
  <2>4. CASE remote' = [remote EXCEPT ![c] = [curr |-> 0, offset |-> Onward(remote[c].offset)]]
    <3>1. [curr |-> 0, offset |-> Onward(remote[c].offset)] \in Transport
      BY <2>1, OnwardType DEF Transport
    <3> QED
      BY <2>4, <3>1 DEF TypeOK
  <2> QED
    BY <2>3, <2>4 DEF Complition
<1> QED
  BY <1>1, <1>2, <1>3 DEF TypeOK, Complition, serverVars, BagToSet

(* A client's handler throws.                                              *)
LEMMA ClientThrowsTypes ==
  ASSUME TypeOK, InHand, NEW c \in Clients, ClientThrows(c)
  PROVE  TypeOK'
<1>1. /\ client' \in [Clients -> {"off", "armed", "handler", "deaf", "gone"}]
      /\ found' \in [Clients -> BOOLEAN]
      /\ got' \in [Clients -> [1 .. N -> Nat] \cup {<<>>}]
  BY DEF TypeOK, ClientThrows
<1>2. remote' \in [Clients -> Transport \cup {None}]
  <2> DEFINE curr == remote[c].curr + Words(answer[c])
  <2>1. CASE UNCHANGED remote
    BY <2>1 DEF TypeOK
  <2>2. CASE /\ remote[c] # None
             /\ remote' = [remote EXCEPT ![c] = [curr |-> curr, offset |-> Onward(remote[c].offset)]]
    <3>1. /\ remote[c] \in Transport /\ remote[c].curr \in Nat /\ remote[c].offset \in Nat
          /\ answer[c] \in Answers
      BY <2>2 DEF TypeOK, InHand, ClientThrows, Transport
    <3>2. curr \in Nat /\ Onward(remote[c].offset) \in Nat
      BY <3>1, WordsIn, OnwardType
    <3> HIDE DEF curr
    <3>3. [curr |-> curr, offset |-> Onward(remote[c].offset)] \in Transport
      BY <3>2 DEF Transport
    <3> QED
      BY <2>2, <3>3 DEF TypeOK
  <2> QED
    BY <2>1, <2>2 DEF ClientThrows
<1> QED
  BY <1>1, <1>2 DEF TypeOK, ClientThrows, netVars, serverVars

(* A client ends, or the network acts.                                     *)
LEMMA NetworkTypes ==
  ASSUME TypeOK, (\E c \in Clients : Exit(c)) \/ Unreachable \/ Lose \/ Duplicate
  PROVE  TypeOK'
<1>1. CASE \E c \in Clients : Exit(c)
  BY <1>1 DEF TypeOK, Exit, netVars, serverVars
<1>2. CASE Unreachable \/ Lose
  <2>1. PICK d \in BagToSet(net) : Take(d)
    BY <1>2 DEF Unreachable, Lose
  <2>2. IsABag(net') /\ BagToSet(net') \subseteq Requests \cup Answers
    BY <2>1, Taking DEF TypeOK, BagToSet
  <2>3. lost' \in 0 .. MaxLoss
    BY <1>2, DiscoveryAssumption DEF TypeOK, Unreachable, Lose
  <2> QED
    BY <1>2, <2>2, <2>3 DEF TypeOK, Unreachable, Lose, serverVars, clientVars, BagToSet
<1>3. CASE Duplicate
  <2>1. PICK d \in Requests \cup Answers : Send(d)
    BY <1>3 DEF Duplicate, TypeOK
  <2>2. IsABag(net') /\ BagToSet(net') \subseteq Requests \cup Answers
    BY <2>1, SendingTypes
  <2>3. doubled' \in 0 .. MaxDup
    BY <1>3, DiscoveryAssumption DEF TypeOK, Duplicate
  <2> QED
    BY <1>3, <2>2, <2>3 DEF TypeOK, Duplicate, serverVars, clientVars, BagToSet
<1> QED
  BY <1>1, <1>2, <1>3

(* Every step keeps the types.                                             *)
LEMMA TypesNext ==
  ASSUME TypeOK, InHand, Next
  PROVE  TypeOK'
BY StartUDPTypes, ServerReceivesTypes, ServerComplitionTypes, BroadcastTypes,
   ClientReceivesTypes, NewRemoteAddressTypes, ComplitionTypes, NetworkTypes,
   ServerThrowsTypes, ClientThrowsTypes
   DEF Next, Server, Client

(* The buffers hold what was received.                                     *)
LEMMA InHandNext ==
  ASSUME TypeOK, InHand, Next
  PROVE  InHand'
<1>1. CASE StartUDP \/ ServerFails \/ ServerComplition \/ ServerThrows
  BY <1>1 DEF InHand, StartUDP, ServerFails, ServerComplition, ServerThrows, clientVars
<1>2. CASE \E c \in Clients : ServerReceives(c)
  <2>1. PICK c \in Clients, d \in BagToSet(net) : ServerReceives(c) /\ d.to = "server" /\ request' = d
    BY <1>2 DEF ServerReceives
  <2>2. request' \in Requests
    BY <2>1 DEF TypeOK, Answers
  <2> QED
    BY <2>1, <2>2 DEF InHand, ServerReceives, clientVars
<1>3. CASE \E c \in Clients : \/ Broadcast(c) \/ Exit(c) \/ NewRemoteAddress(c)
                               \/ Complition(c) \/ ClientThrows(c)
  <2>1. /\ UNCHANGED <<server, request, answer, buffer>>
        /\ \A k \in Clients : client'[k] = "handler" => client[k] = "handler"
    BY <1>3 DEF TypeOK, Broadcast, Exit, NewRemoteAddress, Complition, ClientThrows, serverVars
  <2> QED
    BY <2>1 DEF InHand
<1>4. CASE \E c \in Clients : ClientReceives(c)
  <2>1. PICK c \in Clients : ClientReceives(c)
    BY <1>4
  <2>2. PICK d \in BagToSet(net) :
          /\ d.to = "client" /\ d.client = c
          /\ answer' = [answer EXCEPT ![c] = d]
          /\ buffer' = [buffer EXCEPT ![c] =
               [i \in 1 .. N |-> IF i <= Words(d) THEN d.from + i - 1 ELSE @[i]]]
    BY <2>1 DEF ClientReceives
  <2>3. d \in Answers
    BY <2>2 DEF TypeOK, Requests
  <2>4. answer'[c] = d
    BY <2>2 DEF TypeOK
  <2>5. d.kind = "block" => buffer'[c] = [i \in 1 .. N |-> d.from + i - 1]
    <3>1. HAVE d.kind = "block"
    <3>2. \A i \in 1 .. N : i <= Words(d)
      BY <2>3, <3>1, WordsIn, Sizes
    <3>3. buffer'[c] = [i \in 1 .. N |-> IF i <= Words(d) THEN d.from + i - 1 ELSE buffer[c][i]]
      BY <2>2 DEF TypeOK
    <3> QED
      BY <3>2, <3>3
  <2>6. \A k \in Clients \ {c} :
          answer'[k] = answer[k] /\ buffer'[k] = buffer[k] /\ client'[k] = client[k]
    BY <2>1, <2>2 DEF TypeOK, ClientReceives
  <2>7. server' = server /\ request' = request
    BY <2>1 DEF ClientReceives, serverVars
  <2>8. \A k \in Clients \ {c} :
          client'[k] = "handler" =>
            /\ answer'[k] \in Answers
            /\ answer'[k].client = k
            /\ answer'[k].kind = "block" =>
                 buffer'[k] = [i \in 1 .. N |-> answer'[k].from + i - 1]
    BY <2>6 DEF InHand
  <2>9. /\ answer'[c] \in Answers
        /\ answer'[c].client = c
        /\ answer'[c].kind = "block" =>
             buffer'[c] = [i \in 1 .. N |-> answer'[c].from + i - 1]
    BY <2>2, <2>3, <2>4, <2>5
  <2> QED
    BY <2>7, <2>8, <2>9 DEF InHand
<1>5. CASE Unreachable \/ Lose \/ Duplicate
  BY <1>5 DEF InHand, Unreachable, Lose, Duplicate, serverVars, clientVars
<1> QED
  BY <1>1, <1>2, <1>3, <1>4, <1>5 DEF Next, Server, Client

-----------------------------------------------------------------------------
(* What a step does not do to a client: nothing new is under way to or     *)
(* from it, and what was goes only with the one or the other of the two    *)
(* sides, or with a loss.                                                  *)
LEMMA Aside ==
  ASSUME NEW c \in Clients, ClientInv(c), Counted(c)',
         UnderWay(c)' \subseteq UnderWay(c),
         \/ UnderWay(c)' = UnderWay(c)
         \/ lost' # 0 \/ server' = "deaf" \/ client'[c] \in {"deaf", "gone"},
         lost' = 0 => lost = 0,
         doubled' = 0 => doubled = 0,
         server = "deaf" => server' = "deaf",
         client'[c] = "off" => client[c] = "off",
         client[c] \in {"deaf", "gone"} => client'[c] \in {"deaf", "gone"},
         remote'[c] = remote[c], remotes'[c] = remotes[c],
         got'[c] = got[c], found'[c] = found[c]
  PROVE  ClientInv(c)'
<1>1. Moving(c)' = Moving(c)
  BY WhatMoves
<1>2. Silent(c)'
  BY DEF ClientInv, Silent
<1>3. AtEase(c)'
  BY <1>1 DEF ClientInv, AtEase
<1>4. AtWork(c)'
  BY <1>1 DEF ClientInv, AtWork
<1>5. Turns(c)'
  BY DEF ClientInv, Turns, Asked, Answered, ServerStart, Ask, Reply
<1> QED
  BY <1>2, <1>3, <1>4, <1>5 DEF ClientInv

(* Without duplicates a datagram in a handler is the only one under way.   *)
LEMMA Alone ==
  ASSUME TypeOK, NEW c \in Clients, Counted(c), doubled = 0
  PROVE  /\ server = "handler" /\ request.client = c =>
              UnderWay(c) = {request} /\ client[c] # "handler"
         /\ client[c] = "handler" =>
              UnderWay(c) = {answer[c]} /\ ~(server = "handler" /\ request.client = c)
         /\ (server = "handler" /\ request.client = c) \/ client[c] = "handler" =>
              \A d \in BagToSet(net) : d.client # c
<1>1. /\ Cardinality(Copies(c)) \in Nat
      /\ Cardinality(Copies(c)) = 0 => \A d \in BagToSet(net) : d.client # c
  BY SomeCopy DEF TypeOK, Counted
<1>2. CASE server = "handler" /\ request.client = c
  <2>1. Cardinality(Copies(c)) = 0 /\ client[c] # "handler"
    BY <1>1, <1>2 DEF Counted, InFlight
  <2> QED
    BY <1>1, <1>2, <2>1 DEF UnderWay
<1>3. CASE client[c] = "handler"
  <2>1. Cardinality(Copies(c)) = 0 /\ ~(server = "handler" /\ request.client = c)
    BY <1>1, <1>3 DEF Counted, InFlight
  <2> QED
    BY <1>1, <1>3, <2>1 DEF UnderWay
<1> QED
  BY <1>2, <1>3

(* A datagram arrives at the server.                                       *)
LEMMA ServerReceivesKeeps ==
  ASSUME IInv, NEW c \in Clients, ServerReceives(c), NEW k \in Clients
  PROVE  ClientInv(k)'
<1>1. PICK d \in BagToSet(net) : d.client = c /\ Take(d) /\ request' = d
  BY DEF ServerReceives
<1>2. /\ server = "armed" /\ server' = "handler" /\ request' = d
      /\ UNCHANGED <<lost, doubled, remotes, client, answer, found, remote, got>>
  BY <1>1 DEF ServerReceives, clientVars
<1>3. /\ BagToSet(net)' \subseteq BagToSet(net)
      /\ BagToSet(net) \subseteq BagToSet(net)' \cup {d}
      /\ k # c => Copies(k)' = Copies(k)
      /\ k = c /\ IsFiniteSet(Copies(k)) =>
           /\ IsFiniteSet(Copies(k)')
           /\ Cardinality(Copies(k)') = Cardinality(Copies(k)) - 1
  BY <1>1, Taking DEF IInv, TypeOK
<1>4. UnderWay(k)' = UnderWay(k)
  BY <1>1, <1>2, <1>3 DEF UnderWay
<1>5. ClientInv(k) /\ IsFiniteSet(Copies(k)) /\ Cardinality(Copies(k)) \in Nat /\ doubled \in Nat
  BY SomeCopy DEF IInv, ClientInv, Counted, TypeOK
<1>6. Counted(k)'
  BY <1>1, <1>2, <1>3, <1>5 DEF ClientInv, Counted, InFlight
<1> QED
  BY <1>2, <1>4, <1>5, <1>6, Aside

(* A datagram arrives at a client.                                         *)
LEMMA ClientReceivesKeeps ==
  ASSUME IInv, NEW c \in Clients, ClientReceives(c), NEW k \in Clients
  PROVE  ClientInv(k)'
<1>1. PICK d \in BagToSet(net) : d.client = c /\ Take(d) /\ answer' = [answer EXCEPT ![c] = d]
  BY DEF ClientReceives
<1>2. /\ client[c] = "armed" /\ client' = [client EXCEPT ![c] = "handler"]
      /\ UNCHANGED <<lost, doubled, server, request, remotes, found, remote, got>>
  BY <1>1 DEF ClientReceives, serverVars
<1>3. /\ BagToSet(net)' \subseteq BagToSet(net)
      /\ BagToSet(net) \subseteq BagToSet(net)' \cup {d}
      /\ k # c => Copies(k)' = Copies(k)
      /\ k = c /\ IsFiniteSet(Copies(k)) =>
           /\ IsFiniteSet(Copies(k)')
           /\ Cardinality(Copies(k)') = Cardinality(Copies(k)) - 1
  BY <1>1, Taking DEF IInv, TypeOK
<1>4. /\ k = c => client'[k] = "handler" /\ answer'[k] = d
      /\ k # c => client'[k] = client[k] /\ answer'[k] = answer[k]
  BY <1>1, <1>2 DEF IInv, TypeOK
<1>5. UnderWay(k)' = UnderWay(k)
  BY <1>1, <1>2, <1>3, <1>4 DEF UnderWay
<1>6. ClientInv(k) /\ IsFiniteSet(Copies(k)) /\ Cardinality(Copies(k)) \in Nat /\ doubled \in Nat
  BY SomeCopy DEF IInv, ClientInv, Counted, TypeOK
<1>7. Counted(k)'
  BY <1>2, <1>3, <1>4, <1>6 DEF ClientInv, Counted, InFlight
<1> QED
  BY <1>2, <1>4, <1>5, <1>6, <1>7, Aside

(* Neither side starts or ends a handler, and nothing is sent.             *)
LEMMA EndsKeep ==
  ASSUME IInv, StartUDP \/ ServerFails \/ (\E c \in Clients : Exit(c)), NEW k \in Clients
  PROVE  ClientInv(k)'
<1>1. /\ UNCHANGED <<net, lost, doubled, request, remotes, answer, found, remote, got>>
      /\ server = "deaf" => server' = "deaf"
      /\ server = "handler" <=> server' = "handler"
      /\ client'[k] = client[k] \/ client'[k] = "gone"
  BY DEF IInv, TypeOK, StartUDP, ServerFails, Exit, netVars, serverVars, clientVars
<1>2. Copies(k)' = Copies(k)
  BY <1>1 DEF Copies, BagToSet
<1>3. UnderWay(k)' \subseteq UnderWay(k) /\ (client'[k] = client[k] => UnderWay(k)' = UnderWay(k))
  BY <1>1 DEF UnderWay, BagToSet
<1>4. ClientInv(k) /\ IsFiniteSet(Copies(k)) /\ Cardinality(Copies(k)) \in Nat /\ doubled \in Nat
  BY SomeCopy DEF IInv, ClientInv, Counted, TypeOK
<1>5. Counted(k)'
  BY <1>1, <1>2, <1>4 DEF ClientInv, Counted, InFlight
<1> QED
  BY <1>1, <1>3, <1>4, <1>5, Aside

(* The network loses a datagram, returns it or makes two of it.            *)
LEMMA NetworkKeeps ==
  ASSUME IInv, Unreachable \/ Lose \/ Duplicate, NEW k \in Clients
  PROVE  ClientInv(k)'
<1>1. UNCHANGED <<server, request, remotes, client, answer, found, remote, got>>
  BY DEF Unreachable, Lose, Duplicate, serverVars, clientVars
<1>2. ClientInv(k) /\ IsFiniteSet(Copies(k)) /\ Cardinality(Copies(k)) \in Nat
      /\ doubled \in Nat /\ lost \in Nat
  BY SomeCopy DEF IInv, ClientInv, Counted, TypeOK
<1>3. CASE Unreachable \/ Lose
  <2>1. PICK d \in BagToSet(net) : Take(d) /\ (client[d.client] = "gone" \/ Lose)
    BY <1>3 DEF Unreachable, Lose
  <2>2. doubled' = doubled /\ (lost' = lost \/ (Lose /\ lost' = lost + 1))
    BY <1>3 DEF Unreachable, Lose
  <2>3. /\ BagToSet(net)' \subseteq BagToSet(net)
        /\ BagToSet(net) \subseteq BagToSet(net)' \cup {d}
        /\ k # d.client => Copies(k)' = Copies(k)
        /\ k = d.client /\ IsFiniteSet(Copies(k)) =>
             /\ IsFiniteSet(Copies(k)')
             /\ Cardinality(Copies(k)') = Cardinality(Copies(k)) - 1
    BY <2>1, Taking DEF IInv, TypeOK
  <2>4. UnderWay(k)' \subseteq UnderWay(k) /\ (k # d.client => UnderWay(k)' = UnderWay(k))
    BY <1>1, <2>1, <2>3 DEF UnderWay
  <2>5. Counted(k)'
    BY <1>1, <1>2, <2>2, <2>3 DEF ClientInv, Counted, InFlight
  <2>6. k # d.client \/ client'[k] = "gone" \/ lost' # 0
    <3>1. CASE client[d.client] = "gone"
      BY <1>1, <3>1
    <3>2. CASE Lose
      BY <1>2, <3>2 DEF Lose
    <3> QED
      BY <2>1, <3>1, <3>2
  <2>7. lost' = 0 => lost = 0
    BY <1>2, <2>2
  <2> QED
    BY <1>1, <1>2, <2>2, <2>4, <2>5, <2>6, <2>7, Aside
<1>4. CASE Duplicate
  <2>1. PICK d \in BagToSet(net) : Send(d)
    BY <1>4 DEF Duplicate
  <2>2. doubled' = doubled + 1 /\ lost' = lost
    BY <1>4 DEF Duplicate
  <2>3. /\ BagToSet(net)' = BagToSet(net)
        /\ k # d.client => Copies(k)' = Copies(k)
        /\ k = d.client /\ IsFiniteSet(Copies(k)) =>
             /\ IsFiniteSet(Copies(k)')
             /\ Cardinality(Copies(k)') = Cardinality(Copies(k)) + 1
    <3>1. /\ BagToSet(net)' = BagToSet(net) \cup {d}
          /\ k # d.client => Copies(k)' = Copies(k)
          /\ k = d.client /\ IsFiniteSet(Copies(k)) =>
               /\ IsFiniteSet(Copies(k)')
               /\ Cardinality(Copies(k)') = Cardinality(Copies(k)) + 1
      BY <2>1, Sending, Zenon DEF IInv, TypeOK
    <3> QED
      BY <3>1
  <2>4. UnderWay(k)' = UnderWay(k)
    BY <1>1, <2>3 DEF UnderWay
  <2>5. Counted(k)'
    BY <1>1, <1>2, <2>2, <2>3 DEF ClientInv, Counted, InFlight
  <2>6. doubled' # 0
    BY <1>2, <2>2
  <2> QED
    BY <1>1, <1>2, <2>2, <2>4, <2>5, <2>6, Aside
<1> QED
  BY <1>3, <1>4

-----------------------------------------------------------------------------
(* The server's handler sends one datagram for the one it has received.    *)
LEMMA ServerComplitionKeeps ==
  ASSUME IInv, ServerComplition, NEW k \in Clients
  PROVE  ClientInv(k)'
<1>1. TypeOK /\ server = "handler" /\ request \in Requests
  BY DEF IInv, InHand, ServerComplition
<1>2. PICK c \in Clients, n \in {0, N} : request.client = c /\ request.num = n
  BY <1>1 DEF Requests
<1> DEFINE t == IF remotes[c] = None THEN NewTransport ELSE remotes[c]
           r == IF remotes[c] = None /\ n = 0 THEN Reply(c, "echo", 0) ELSE Block(c, t, n)
<1>3. t \in Transport
  BY <1>1, Transports DEF TypeOK
<1>4. Start(t) \in 0 .. Size - 1 /\ Served(t, n) \in Transport
      /\ Served(t, n).offset = Start(t) + n
  <2>1. n \in Nat
    BY Sizes
  <2> HIDE DEF t
  <2> QED
    BY <1>3, <2>1, StartInside
<1>5. Start(t) = ServerStart(c)
  BY Transports, Sizes DEF ServerStart, Start
<1>6. /\ server' = "armed"
      /\ UNCHANGED <<lost, doubled, request, client, answer, found, remote, got>>
      /\ Send(r)
      /\ remotes[c] = None /\ n = 0 => remotes' = remotes
      /\ ~(remotes[c] = None /\ n = 0) => remotes' = [remotes EXCEPT ![c] = Served(t, n)]
  BY <1>2 DEF ServerComplition, Echo, clientVars
<1>7. /\ r \in Answers
      /\ r.client = c
      /\ r.kind = (IF remotes[c] = None /\ n = 0 THEN "echo" ELSE IF n = 0 THEN "empty" ELSE "block")
      /\ n # 0 => r = Reply(c, "block", Start(t))
  <2>1. 0 \in 0 .. Size - 1
    BY Sizes
  <2> HIDE DEF t
  <2> QED
    BY <1>4, <2>1, Datagrams DEF Block
<1>8. ClientInv(k) /\ IsFiniteSet(Copies(k)) /\ Cardinality(Copies(k)) \in Nat /\ doubled \in Nat
  BY <1>1, SomeCopy DEF IInv, ClientInv, Counted, TypeOK
<1> HIDE DEF r
<1>9. /\ BagToSet(net)' = BagToSet(net) \cup {r}
      /\ k # c => Copies(k)' = Copies(k)
      /\ k = c => /\ IsFiniteSet(Copies(k)')
                  /\ Cardinality(Copies(k)') = Cardinality(Copies(k)) + 1
  <2>1. IsABag(net)
    BY <1>1 DEF TypeOK
  <2> QED
    BY <1>6, <1>7, <1>8, <2>1, Sending
<1>10. Counted(k)'
  BY <1>1, <1>2, <1>6, <1>8, <1>9 DEF ClientInv, Counted, InFlight
<1>11. CASE k # c
  <2>1. UnderWay(k)' = UnderWay(k)
    BY <1>1, <1>2, <1>6, <1>7, <1>9, <1>11 DEF UnderWay
  <2>2. remotes'[k] = remotes[k]
    BY <1>1, <1>6, <1>11 DEF TypeOK
  <2> QED
    BY <1>1, <1>6, <1>8, <1>10, <2>1, <2>2, Aside
<1>12. CASE k = c
  <2>1. /\ request \in UnderWay(c)
        /\ UnderWay(c)' \subseteq UnderWay(c) \cup {r}
        /\ UnderWay(c) \subseteq UnderWay(c)' \cup {request}
        /\ r \in UnderWay(c)'
    BY <1>1, <1>2, <1>6, <1>7, <1>9 DEF UnderWay
  <2>2. Silent(c)'
    BY <1>6, <1>8, <1>12, <2>1 DEF ClientInv, Silent
  <2>3. Moving(c)' = Moving(c)
    BY WhatMoves
  <2>4. request \in Moving(c) <=> n # 0
    BY <1>1, <1>2, WhatMoves
  <2>5. r \in Moving(c) <=> n # 0
    BY <1>7, Sizes, WhatMoves
  <2>6. AtEase(c)'
    <3> SUFFICES ASSUME remote[c] = None PROVE AtEase(c)'
      BY <1>6 DEF AtEase
    <3>1. remotes[c] = None /\ UnderWay(c) \cap Moving(c) = {} /\ got[c] = <<>>
          /\ (found[c] => client[c] \in {"deaf", "gone"})
      BY <1>8, <1>12 DEF ClientInv, AtEase
    <3>2. n = 0 /\ r \notin Moving(c) /\ remotes' = remotes
      BY <1>6, <2>1, <2>4, <2>5, <3>1
    <3>3. UnderWay(c)' \cap Moving(c)' = {}
      BY <2>1, <2>3, <3>1, <3>2
    <3> QED
      BY <1>6, <3>1, <3>2, <3>3 DEF AtEase
  <2>7. AtWork(c)'
    <3> SUFFICES ASSUME remote[c] # None, lost = 0, client[c] \notin {"deaf", "gone"}
                 PROVE  UnderWay(c)' \cap Moving(c) # {}
      BY <1>6, <2>3 DEF AtWork
    <3>1. PICK d \in UnderWay(c) : d \in Moving(c)
      BY <1>1, <1>8, <1>12 DEF ClientInv, AtWork
    <3>2. CASE n # 0
      BY <2>1, <2>5, <3>2
    <3>3. CASE n = 0
      BY <2>1, <2>4, <3>1, <3>3
    <3> QED
      BY <3>2, <3>3
  <2>8. Turns(c)'
    <3> SUFFICES ASSUME remote[c] # None
                 PROVE  /\ remote[c].offset \in Starts
                        /\ doubled = 0 =>
                             /\ client[c] \notin {"deaf", "gone"} => remote[c].curr = 0
                             /\ \A d \in UnderWay(c)' : Asked(c, d)' \/ Answered(c, d)'
      BY <1>6 DEF Turns
    <3>1. /\ remote[c].offset \in Starts
          /\ doubled = 0 => /\ client[c] \notin {"deaf", "gone"} => remote[c].curr = 0
                            /\ \A d \in UnderWay(c) : Asked(c, d) \/ Answered(c, d)
      BY <1>8, <1>12 DEF ClientInv, Turns
    <3>2. SUFFICES ASSUME doubled = 0
                   PROVE  \A d \in UnderWay(c)' : Asked(c, d)' \/ Answered(c, d)'
      BY <3>1
    <3>3. UnderWay(c) = {request} /\ client[c] # "handler"
          /\ \A d \in BagToSet(net) : d.client # c
      BY <1>1, <1>2, <1>8, <1>12, <3>2, Alone DEF ClientInv
    <3>4. UnderWay(c)' = {r}
      BY <1>1, <1>2, <1>6, <1>7, <1>9, <3>3 DEF UnderWay
    <3>5. Asked(c, request)
      <4>1. Asked(c, request) \/ Answered(c, request)
        BY <2>1, <3>1, <3>2
      <4>2. ~Answered(c, request)
        BY <1>1, WhatMoves DEF Answered
      <4> QED
        BY <4>1, <4>2
    <3>6. n # 0 /\ Start(t) = remote[c].offset
      BY <1>5, <2>4, <3>5, WhatMoves DEF Asked
    <3>7. remotes'[c] = Served(t, n) /\ Served(t, n) # None
      <4>1. Served(t, n) # None
        BY <1>4, DiscoveryAssumption
      <4>2. remotes' = [remotes EXCEPT ![c] = Served(t, n)]
        BY <1>6, <3>6
      <4> HIDE DEF t
      <4> QED
        BY <1>1, <4>1, <4>2 DEF TypeOK
    <3>8. ServerStart(c)' = Onward(remote[c].offset)
      <4>1. Served(t, n).offset = remote[c].offset + N
        BY <1>4, <3>6
      <4>2. ServerStart(c)' = Start(Served(t, n))
        BY <3>7 DEF ServerStart
      <4>3. Start(Served(t, n)) = IF Served(t, n).offset >= Size THEN 0 ELSE Served(t, n).offset
        BY DEF Start
      <4> HIDE DEF t
      <4> QED
        BY <4>1, <4>2, <4>3 DEF Onward
    <3>9. ASSUME NEW d, d \in UnderWay(c)'
          PROVE  Answered(c, d)'
      <4>1. d = Reply(c, "block", remote[c].offset) /\ remote' = remote
        BY <1>6, <1>7, <3>4, <3>6, <3>9
      <4>2. remotes'[c] # None
        BY <3>7
      <4> QED
        BY <3>8, <4>1, <4>2 DEF Answered, Onward, Reply
    <3> QED
      BY <3>9
  <2> QED
    BY <1>10, <1>12, <2>2, <2>6, <2>7, <2>8 DEF ClientInv
<1> QED
  BY <1>11, <1>12

(* The server's handler throws: nothing follows the request, and the       *)
(* server is deaf.                                                         *)
LEMMA ServerThrowsKeeps ==
  ASSUME IInv, ServerThrows, NEW k \in Clients
  PROVE  ClientInv(k)'
<1>1. TypeOK /\ InHand /\ server = "handler" /\ request \in Requests
  BY DEF IInv, InHand, ServerThrows
<1>2. PICK c \in Clients, n \in {0, N} : request.client = c /\ request.num = n
  BY <1>1 DEF Requests
<1>3. /\ server' = "deaf"
      /\ UNCHANGED <<net, lost, doubled, request, client, answer, found, remote, got>>
      /\ \/ remotes[c] = None /\ UNCHANGED remotes
         \/ remotes[c] # None /\ remotes' = [remotes EXCEPT ![c] = Served(@, n)]
  BY <1>2 DEF ServerThrows, netVars, clientVars
<1>4. ClientInv(k) /\ IsFiniteSet(Copies(k)) /\ Cardinality(Copies(k)) \in Nat /\ doubled \in Nat
  BY <1>1, SomeCopy DEF IInv, ClientInv, Counted, TypeOK
<1>5. Copies(k)' = Copies(k)
  BY <1>3 DEF Copies, BagToSet
<1>6. Counted(k)'
  BY <1>1, <1>3, <1>4, <1>5 DEF ClientInv, Counted, InFlight
<1>7. UnderWay(k)' \subseteq UnderWay(k)
  BY <1>3 DEF UnderWay, BagToSet
<1>8. CASE remotes'[k] = remotes[k]
  BY <1>1, <1>3, <1>4, <1>6, <1>7, <1>8, Aside
<1>9. CASE remotes'[k] # remotes[k]
  <2>1. k = c /\ remotes[c] # None
    BY <1>1, <1>3, <1>9 DEF TypeOK
  <2>2. remote[c] # None
    BY <1>4, <2>1 DEF ClientInv, AtEase
  <2>3. Silent(c)' /\ AtEase(c)' /\ AtWork(c)'
    BY <1>3, <1>4, <2>1, <2>2 DEF ClientInv, Silent, AtEase, AtWork
  <2>4. doubled = 0 => UnderWay(c)' = {}
    <3> SUFFICES ASSUME doubled = 0 PROVE UnderWay(c)' = {}
      OBVIOUS
    <3>1. client[c] # "handler" /\ \A d \in BagToSet(net) : d.client # c
      BY <1>1, <1>2, <1>4, <2>1, Alone DEF ClientInv
    <3> QED
      BY <1>3, <3>1 DEF UnderWay, BagToSet
  <2>5. Turns(c)'
    BY <1>3, <1>4, <2>1, <2>2, <2>4 DEF ClientInv, Turns
  <2> QED
    BY <1>6, <2>1, <2>3, <2>5 DEF ClientInv
<1> QED
  BY <1>8, <1>9

-----------------------------------------------------------------------------
(* A client's broadcast.                                                   *)
LEMMA BroadcastKeeps ==
  ASSUME IInv, NEW c \in Clients, Broadcast(c), NEW k \in Clients
  PROVE  ClientInv(k)'
<1>1. /\ client[c] = "off" /\ client' = [client EXCEPT ![c] = "armed"]
      /\ UNCHANGED <<lost, doubled, server, request, remotes, answer, found, remote, got>>
  BY DEF Broadcast, serverVars
<1>2. /\ client'[c] = "armed"
      /\ k # c => client'[k] = client[k]
  BY <1>1 DEF IInv, TypeOK
<1>3. ClientInv(k) /\ IsFiniteSet(Copies(k)) /\ Cardinality(Copies(k)) \in Nat /\ doubled \in Nat
      /\ IsABag(net)
  BY SomeCopy DEF IInv, ClientInv, Counted, TypeOK
<1>4. CASE net' = net
  <2>1. Copies(k)' = Copies(k)
    BY <1>4 DEF Copies, BagToSet
  <2>2. UnderWay(k)' = UnderWay(k)
    BY <1>1, <1>2, <1>4 DEF UnderWay, BagToSet
  <2>3. Counted(k)'
    BY <1>1, <1>2, <1>3, <2>1 DEF ClientInv, Counted, InFlight
  <2> QED
    BY <1>1, <1>2, <1>3, <2>2, <2>3, Aside
<1>5. CASE Send(Ask(c, 0))
  <2>1. Ask(c, 0) \in Requests /\ Ask(c, 0).client = c /\ Ask(c, 0).num = 0
    BY Datagrams DEF Ask
  <2>2. PICK d \in Requests : d = Ask(c, 0)
    BY <2>1
  <2>3. /\ BagToSet(net)' = BagToSet(net) \cup {d}
        /\ k # c => Copies(k)' = Copies(k)
        /\ k = c => /\ IsFiniteSet(Copies(k)')
                    /\ Cardinality(Copies(k)') = Cardinality(Copies(k)) + 1
    BY <1>3, <1>5, <2>1, <2>2, Sending
  <2>4. CASE k # c
    <3>1. UnderWay(k)' = UnderWay(k)
      BY <1>1, <1>2, <2>1, <2>2, <2>3, <2>4 DEF UnderWay
    <3>2. Counted(k)'
      BY <1>1, <1>2, <1>3, <2>3, <2>4 DEF ClientInv, Counted, InFlight
    <3> QED
      BY <1>1, <1>2, <1>3, <2>4, <3>1, <3>2, Aside
  <2>5. CASE k = c
    <3>1. UnderWay(c) = {} /\ remote[c] = None
      BY <1>1, <1>3, <2>5 DEF ClientInv, Silent
    <3>2. Cardinality(Copies(c)) = 0 /\ ~(server = "handler" /\ request.client = c)
      <4>1. \A e \in BagToSet(net) : e.client # c
        BY <3>1 DEF UnderWay
      <4>2. ~(server = "handler" /\ request.client = c)
        BY <3>1 DEF UnderWay
      <4> QED
        BY <1>3, <2>5, <4>1, <4>2, SomeCopy
    <3>3. Counted(c)'
      BY <1>1, <1>2, <1>3, <2>3, <2>5, <3>2 DEF Counted, InFlight
    <3>4. UnderWay(c)' \subseteq {d}
      BY <1>1, <1>2, <2>3, <3>1 DEF UnderWay
    <3>5. Silent(c)'
      BY <1>2 DEF Silent
    <3>6. AtEase(c)'
      <4>1. d \notin Moving(c)
        BY <2>1, <2>2, WhatMoves
      <4>2. Moving(c)' = Moving(c)
        BY WhatMoves
      <4>3. remotes[c] = None /\ got[c] = <<>> /\ ~found[c]
        BY <1>1, <1>3, <2>5, <3>1 DEF ClientInv, AtEase
      <4> QED
        BY <1>1, <3>4, <4>1, <4>2, <4>3 DEF AtEase
    <3>7. AtWork(c)' /\ Turns(c)'
      BY <1>1, <3>1 DEF AtWork, Turns
    <3> QED
      BY <2>5, <3>3, <3>5, <3>6, <3>7 DEF ClientInv
  <2> QED
    BY <2>4, <2>5
<1> QED
  BY <1>4, <1>5 DEF Broadcast

(* The client's handlers touch nothing of another client.                  *)
LEMMA OthersKeep ==
  ASSUME IInv, NEW c \in Clients,
         NewRemoteAddress(c) \/ Complition(c) \/ ClientThrows(c),
         NEW k \in Clients, k # c
  PROVE  ClientInv(k)'
<1>1. /\ UNCHANGED <<lost, doubled, server, request, remotes, answer>>
      /\ client'[k] = client[k] /\ found'[k] = found[k]
      /\ remote'[k] = remote[k] /\ got'[k] = got[k]
  BY DEF IInv, TypeOK, NewRemoteAddress, Complition, ClientThrows, netVars, serverVars
<1>2. ClientInv(k) /\ IsABag(net)
  BY DEF IInv, TypeOK
<1>3. Copies(k)' = Copies(k) /\ UnderWay(k)' = UnderWay(k)
  <2>1. CASE net' = net
    BY <1>1, <2>1 DEF Copies, UnderWay, BagToSet
  <2>2. CASE AskNext(c)
    <3>1. PICK d : d = Ask(c, N)
      OBVIOUS
    <3>2. d.client = c /\ Send(d)
      BY <2>2, <3>1 DEF AskNext, Ask
    <3>3. BagToSet(net)' = BagToSet(net) \cup {d} /\ Copies(k)' = Copies(k)
      BY <1>2, <3>2, Sending
    <3> QED
      BY <1>1, <3>2, <3>3 DEF UnderWay
  <2> QED
    BY <2>1, <2>2 DEF NewRemoteAddress, Complition, ClientThrows, netVars
<1>4. Counted(k)'
  BY <1>1, <1>2, <1>3 DEF ClientInv, Counted, InFlight
<1> QED
  BY <1>1, <1>2, <1>3, <1>4, Aside

(* A client's handler ends with a request for the next block.              *)
LEMMA AskNextKeeps ==
  ASSUME IInv, NEW c \in Clients, client[c] = "handler", AskNext(c),
         client'[c] = "armed", UNCHANGED <<lost, doubled, server, request, remotes>>
  PROVE  /\ Counted(c)'
         /\ Ask(c, N) \in UnderWay(c)'
         /\ doubled = 0 => UnderWay(c)' = {Ask(c, N)}
<1>1. PICK d \in Requests : d = Ask(c, N)
  BY Datagrams
<1>2. d.client = c /\ Send(d)
  BY <1>1, Datagrams DEF AskNext
<1>3. TypeOK /\ ClientInv(c) /\ IsFiniteSet(Copies(c)) /\ Cardinality(Copies(c)) \in Nat
      /\ doubled \in Nat /\ IsABag(net)
  BY SomeCopy DEF IInv, ClientInv, Counted, TypeOK
<1>4. /\ BagToSet(net)' = BagToSet(net) \cup {d}
      /\ IsFiniteSet(Copies(c)')
      /\ Cardinality(Copies(c)') = Cardinality(Copies(c)) + 1
  BY <1>2, <1>3, Sending
<1>5. Counted(c)'
  BY <1>3, <1>4 DEF ClientInv, Counted, InFlight
<1>6. d \in UnderWay(c)'
  BY <1>2, <1>4 DEF UnderWay
<1>7. ASSUME doubled = 0 PROVE UnderWay(c)' = {d}
  <2>1. ~(server = "handler" /\ request.client = c) /\ \A e \in BagToSet(net) : e.client # c
    BY <1>3, <1>7, Alone DEF ClientInv
  <2> QED
    BY <1>2, <1>4, <2>1 DEF UnderWay
<1> QED
  BY <1>1, <1>5, <1>6, <1>7

(* The client finds the server.                                            *)
LEMMA NewRemoteAddressKeeps ==
  ASSUME IInv, NEW c \in Clients, NewRemoteAddress(c)
  PROVE  ClientInv(c)'
<1>1. /\ client[c] = "handler" /\ remote[c] = None /\ found'[c]
      /\ UNCHANGED <<lost, doubled, server, request, remotes, answer, got>>
  BY DEF IInv, TypeOK, NewRemoteAddress, serverVars
<1>2. TypeOK /\ ClientInv(c) /\ Cardinality(Copies(c)) \in Nat /\ doubled \in Nat
  BY SomeCopy DEF IInv, ClientInv, Counted, TypeOK
<1>3. remotes[c] = None /\ UnderWay(c) \cap Moving(c) = {} /\ got[c] = <<>>
  BY <1>1, <1>2 DEF ClientInv, AtEase
<1>4. Moving(c)' = Moving(c)
  BY WhatMoves
<1>5. CASE /\ remote' = [remote EXCEPT ![c] = NewTransport]
           /\ AskNext(c)
           /\ client' = [client EXCEPT ![c] = "armed"]
  <2>1. remote'[c] = NewTransport /\ client'[c] = "armed"
    BY <1>2, <1>5 DEF TypeOK
  <2>2. /\ Counted(c)'
        /\ Ask(c, N) \in UnderWay(c)'
        /\ doubled = 0 => UnderWay(c)' = {Ask(c, N)}
    BY <1>1, <1>5, <2>1, AskNextKeeps
  <2>3. remote'[c] # None /\ remote'[c].curr = 0 /\ remote'[c].offset = 0
    BY <2>1, Transports
  <2>4. Silent(c)' /\ AtEase(c)'
    BY <2>1, <2>3 DEF Silent, AtEase
  <2>5. AtWork(c)'
    BY <1>4, <2>2, WhatMoves DEF AtWork
  <2>6. Turns(c)'
    <3>1. ServerStart(c)' = 0
      BY <1>1, <1>3 DEF ServerStart
    <3>2. ASSUME NEW d, d = Ask(c, N) PROVE Asked(c, d)'
      BY <2>3, <3>1, <3>2 DEF Asked, Ask
    <3> QED
      BY <1>1, <2>2, <2>3, <3>2, FirstStart DEF Turns
  <2> QED
    BY <2>2, <2>4, <2>5, <2>6 DEF ClientInv
<1>6. CASE client' = [client EXCEPT ![c] = "deaf"] /\ UNCHANGED <<net, remote>>
  <2>1. client'[c] = "deaf" /\ remote'[c] = None
    BY <1>1, <1>2, <1>6 DEF TypeOK
  <2>2. Copies(c)' = Copies(c) /\ UnderWay(c)' \subseteq UnderWay(c)
    BY <1>1, <1>6, <2>1 DEF Copies, UnderWay, BagToSet
  <2>3. Counted(c)'
    BY <1>1, <1>2, <2>1, <2>2 DEF ClientInv, Counted, InFlight
  <2>4. AtEase(c)'
    BY <1>1, <1>3, <1>4, <2>1, <2>2 DEF AtEase
  <2>5. Silent(c)' /\ AtWork(c)' /\ Turns(c)'
    BY <2>1 DEF Silent, AtWork, Turns
  <2> QED
    BY <2>3, <2>4, <2>5 DEF ClientInv
<1> QED
  BY <1>5, <1>6 DEF NewRemoteAddress

(* A handler of a connected client: a block, or what a duplicate brought.  *)
LEMMA ComplitionKeeps ==
  ASSUME IInv, NEW c \in Clients, Complition(c)
  PROVE  ClientInv(c)'
<1> DEFINE curr == remote[c].curr + Words(answer[c])
<1>1. /\ client[c] = "handler" /\ remote[c] # None
      /\ UNCHANGED <<lost, doubled, server, request, remotes, answer, found>>
      /\ client'[c] = "armed"
  BY DEF IInv, TypeOK, Complition, serverVars
<1>2. TypeOK /\ ClientInv(c) /\ Cardinality(Copies(c)) \in Nat /\ doubled \in Nat
      /\ answer[c] \in Answers /\ answer[c].client = c
  BY <1>1, SomeCopy DEF IInv, InHand, ClientInv, Counted, TypeOK
<1>3. remote[c] \in Transport /\ remote[c].curr \in Nat /\ remote[c].offset \in Starts
  BY <1>1, <1>2 DEF TypeOK, ClientInv, Turns, Transport
<1>4. answer[c].kind = "block" => BlockArrived(curr)
  BY <1>2, <1>3, WordsIn, Sizes DEF BlockArrived
<1>5. Moving(c)' = Moving(c)
  BY WhatMoves
<1>6. answer[c] \in UnderWay(c)
  BY <1>1, <1>2 DEF UnderWay
<1>7. ASSUME doubled = 0
      PROVE  /\ answer[c].kind = "block"
             /\ ServerStart(c) = Onward(remote[c].offset)
  <2>1. Asked(c, answer[c]) \/ Answered(c, answer[c])
    BY <1>1, <1>2, <1>6, <1>7 DEF ClientInv, Turns
  <2>2. ~Asked(c, answer[c])
    BY <1>2, WhatMoves DEF Asked
  <2> QED
    BY <2>1, <2>2 DEF Answered, Reply
<1>8. CASE /\ ~BlockArrived(curr)
           /\ remote' = [remote EXCEPT ![c].curr = curr]
           /\ UNCHANGED <<net, got>>
  <2>1. answer[c] \notin Moving(c)
    BY <1>2, <1>4, <1>8, WhatMoves
  <2>2. Copies(c)' = Copies(c)
        /\ UnderWay(c)' \subseteq UnderWay(c)
        /\ UnderWay(c) \subseteq UnderWay(c)' \cup {answer[c]}
    BY <1>1, <1>8 DEF Copies, UnderWay, BagToSet
  <2>3. Counted(c)'
    BY <1>1, <1>2, <2>2 DEF ClientInv, Counted, InFlight
  <2>4. doubled # 0
    BY <1>4, <1>7, <1>8
  <2>5. remote'[c] # None /\ remote'[c].offset = remote[c].offset
    <3>1. remote'[c] = [remote[c] EXCEPT !.curr = curr]
      BY <1>2, <1>8 DEF TypeOK
    <3>2. curr \in Nat
      BY <1>2, <1>3, WordsIn
    <3> HIDE DEF curr
    <3>3. [remote[c] EXCEPT !.curr = curr] \in Transport
          /\ [remote[c] EXCEPT !.curr = curr].offset = remote[c].offset
      BY <1>3, <3>2 DEF Transport
    <3> QED
      BY <3>1, <3>3, DiscoveryAssumption
  <2>6. AtWork(c)'
    BY <1>1, <1>2, <1>5, <2>1, <2>2 DEF ClientInv, AtWork
  <2>7. Silent(c)' /\ AtEase(c)' /\ Turns(c)'
    BY <1>1, <1>3, <2>4, <2>5 DEF Silent, AtEase, Turns
  <2> QED
    BY <2>3, <2>6, <2>7 DEF ClientInv
<1>9. CASE /\ remote' = [remote EXCEPT ![c] = [curr |-> 0, offset |-> Onward(remote[c].offset)]]
           /\ AskNext(c)
  <2>1. /\ remote'[c] # None
        /\ remote'[c].curr = 0
        /\ remote'[c].offset = Onward(remote[c].offset)
        /\ remote'[c].offset \in Starts
    <3>1. remote'[c] = [curr |-> 0, offset |-> Onward(remote[c].offset)]
      BY <1>2, <1>9 DEF TypeOK
    <3>2. Onward(remote[c].offset) \in Starts /\ Onward(remote[c].offset) \in Nat
      BY <1>3, NextStart
    <3> QED
      BY <3>1, <3>2, DiscoveryAssumption DEF Transport
  <2>2. /\ Counted(c)'
        /\ Ask(c, N) \in UnderWay(c)'
        /\ doubled = 0 => UnderWay(c)' = {Ask(c, N)}
    BY <1>1, <1>9, AskNextKeeps
  <2>3. Silent(c)' /\ AtEase(c)'
    BY <1>1, <2>1 DEF Silent, AtEase
  <2>4. AtWork(c)'
    BY <1>5, <2>2, WhatMoves DEF AtWork
  <2>5. Turns(c)'
    <3>1. ServerStart(c)' = ServerStart(c)
      BY <1>1 DEF ServerStart, Start
    <3>2. ASSUME NEW d, d = Ask(c, N), doubled = 0 PROVE Asked(c, d)'
      BY <1>7, <2>1, <3>1, <3>2 DEF Asked, Ask
    <3> QED
      BY <1>1, <2>1, <2>2, <3>2 DEF Turns
  <2> QED
    BY <2>2, <2>3, <2>4, <2>5 DEF ClientInv
<1> QED
  BY <1>8, <1>9 DEF Complition

(* A client's handler throws: nothing follows what it received, and the    *)
(* client is deaf.                                                         *)
LEMMA ClientThrowsKeeps ==
  ASSUME IInv, NEW c \in Clients, ClientThrows(c)
  PROVE  ClientInv(c)'
<1>1. /\ client[c] = "handler" /\ client'[c] = "deaf"
      /\ UNCHANGED <<net, lost, doubled, server, request, remotes, answer>>
  BY DEF IInv, TypeOK, ClientThrows, netVars, serverVars
<1>2. TypeOK /\ ClientInv(c) /\ Cardinality(Copies(c)) \in Nat /\ doubled \in Nat
      /\ answer[c] \in Answers
  BY <1>1, SomeCopy DEF IInv, InHand, ClientInv, Counted, TypeOK
<1>3. Copies(c)' = Copies(c) /\ UnderWay(c)' \subseteq UnderWay(c)
  BY <1>1 DEF Copies, UnderWay, BagToSet
<1>4. Counted(c)'
  BY <1>1, <1>2, <1>3 DEF ClientInv, Counted, InFlight
<1>5. Silent(c)' /\ AtWork(c)'
  BY <1>1 DEF Silent, AtWork
<1>6. CASE remote[c] = None /\ UNCHANGED <<remote, got>>
  <2>1. Moving(c)' = Moving(c)
    BY WhatMoves
  <2>2. AtEase(c)'
    BY <1>1, <1>2, <1>3, <1>6, <2>1 DEF ClientInv, AtEase
  <2>3. Turns(c)'
    BY <1>6 DEF Turns
  <2> QED
    BY <1>4, <1>5, <2>2, <2>3 DEF ClientInv
<1>7. CASE remote[c] # None
  <2> DEFINE curr == remote[c].curr + Words(answer[c])
  <2>1. remote[c].curr \in Nat /\ remote[c].offset \in Starts
    BY <1>2, <1>7 DEF TypeOK, ClientInv, Turns, Transport
  <2>2. curr \in Nat /\ Onward(remote[c].offset) \in Starts /\ Onward(remote[c].offset) \in Nat
    BY <1>2, <2>1, WordsIn, NextStart
  <2>3. remote'[c] = [curr |-> curr, offset |-> Onward(remote[c].offset)]
    BY <1>2, <1>7 DEF TypeOK, ClientThrows
  <2> HIDE DEF curr
  <2>4. remote'[c] # None /\ remote'[c].offset \in Starts
    BY <2>2, <2>3, DiscoveryAssumption DEF Transport
  <2>5. doubled = 0 => UnderWay(c)' = {}
    <3> SUFFICES ASSUME doubled = 0 PROVE UnderWay(c)' = {}
      OBVIOUS
    <3>1. ~(server = "handler" /\ request.client = c) /\ \A d \in BagToSet(net) : d.client # c
      BY <1>1, <1>2, Alone DEF ClientInv
    <3> QED
      BY <1>1, <3>1 DEF UnderWay, BagToSet
  <2>6. AtEase(c)' /\ Turns(c)'
    BY <1>1, <2>4, <2>5 DEF AtEase, Turns
  <2> QED
    BY <1>4, <1>5, <2>6 DEF ClientInv
<1> QED
  BY <1>6, <1>7 DEF ClientThrows

-----------------------------------------------------------------------------
(* The invariant holds initially...                                        *)
LEMMA InvInit == Init => IInv
<1> SUFFICES ASSUME Init PROVE IInv
  OBVIOUS
<1>1. BagToSet(net) = {} /\ IsABag(net)
  BY DEF Init, EmptyBag, SetToBag, BagToSet, IsABag
<1>2. [i \in 1 .. N |-> 0] \in [1 .. N -> Nat]
  OBVIOUS
<1>3. TypeOK
  <2>1. lost \in 0 .. MaxLoss /\ doubled \in 0 .. MaxDup
    BY DiscoveryAssumption DEF Init
  <2> QED
    BY <1>1, <1>2, <2>1 DEF Init, TypeOK
<1>4. InHand
  BY DEF Init, InHand
<1>5. ASSUME NEW c \in Clients PROVE ClientInv(c)
  <2>1. Copies(c) = {}
    BY <1>1 DEF Copies
  <2>2. Counted(c)
    BY <2>1, FS_EmptySet DEF Init, Counted, InFlight
  <2>3. UnderWay(c) = {}
    BY <1>1 DEF Init, UnderWay
  <2> QED
    BY <2>2, <2>3 DEF Init, ClientInv, Silent, AtEase, AtWork, Turns
<1> QED
  BY <1>3, <1>4, <1>5 DEF IInv

(* ...every step keeps it...                                               *)
LEMMA InvNext ==
  ASSUME IInv, Next
  PROVE  IInv'
<1>1. TypeOK' /\ InHand'
  BY TypesNext, InHandNext DEF IInv
<1>2. ASSUME NEW k \in Clients PROVE ClientInv(k)'
  <2>1. CASE StartUDP \/ ServerFails \/ (\E c \in Clients : Exit(c))
    BY <2>1, EndsKeep
  <2>2. CASE ServerComplition \/ ServerThrows
    BY <2>2, ServerComplitionKeeps, ServerThrowsKeeps
  <2>3. CASE \E c \in Clients : ServerReceives(c) \/ Broadcast(c) \/ ClientReceives(c)
    BY <2>3, ServerReceivesKeeps, BroadcastKeeps, ClientReceivesKeeps
  <2>4. CASE \E c \in Clients : NewRemoteAddress(c) \/ Complition(c) \/ ClientThrows(c)
    <3>1. PICK c \in Clients : NewRemoteAddress(c) \/ Complition(c) \/ ClientThrows(c)
      BY <2>4
    <3>2. CASE k = c
      BY <3>1, <3>2, NewRemoteAddressKeeps, ComplitionKeeps, ClientThrowsKeeps
    <3>3. CASE k # c
      BY <3>1, <3>3, OthersKeep
    <3> QED
      BY <3>2, <3>3
  <2>5. CASE Unreachable \/ Lose \/ Duplicate
    BY <2>5, NetworkKeeps
  <2> QED
    BY <2>1, <2>2, <2>3, <2>4, <2>5 DEF Next, Server, Client
<1> QED
  BY <1>1, <1>2 DEF IInv

(* ...and so does a step of something else.                                *)
LEMMA InvStutter ==
  ASSUME IInv, UNCHANGED vars
  PROVE  IInv'
<1>1. /\ UNCHANGED <<net, lost, doubled, server, request, remotes, listed, unheard>>
      /\ UNCHANGED <<client, answer, buffer, found, remote, got>>
  BY DEF vars, netVars, serverVars, clientVars
<1>2. TypeOK' /\ InHand'
  BY <1>1 DEF IInv, TypeOK, InHand
<1>3. ASSUME NEW c \in Clients PROVE ClientInv(c)'
  <2>1. Copies(c)' = Copies(c) /\ UnderWay(c)' = UnderWay(c)
    BY <1>1 DEF Copies, UnderWay, BagToSet
  <2>2. ClientInv(c)
    BY DEF IInv
  <2>3. Counted(c)'
    BY <1>1, <2>1, <2>2 DEF ClientInv, Counted, InFlight
  <2> QED
    BY <1>1, <2>1, <2>2, <2>3, Aside
<1> QED
  BY <1>2, <1>3 DEF IInv

(* The inductive invariant of the UDP side: what is under way for a client *)
(* is counted, and is nothing, or what finds the server, or what keeps     *)
(* client and server going, in step unless the network doubled a datagram. *)
THEOREM DiscoveryInvariant == Spec => []IInv
<1>1. IInv /\ [Next]_vars => IInv'
  BY InvNext, InvStutter
<1> QED
  BY InvInit, <1>1, PTL DEF Spec

(* Every variable of the UDP side keeps its type.                          *)
THEOREM TypeCorrect == Spec => []TypeOK
<1>1. IInv => TypeOK
  BY DEF IInv
<1> QED
  BY <1>1, DiscoveryInvariant, PTL

(* There are never more of a client's datagrams in flight than one and     *)
(* what the network has doubled, for any number of clients that share the  *)
(* server's buffer.                                                        *)
THEOREM AlwaysTakeTurns == Spec => []TakeTurns
<1>1. IInv => TakeTurns
  BY DEF IInv, ClientInv, Counted, TakeTurns
<1> QED
  BY <1>1, DiscoveryInvariant, PTL

(* The program itself strands no client: as long as nothing is lost and    *)
(* both sides are there, a datagram is on its way to one of them, whatever *)
(* was doubled or overtaken.                                               *)
THEOREM StallsNever == Spec => []NeverStalls
<1>1. ASSUME IInv PROVE NeverStalls
  <2> SUFFICES ASSUME NEW c \in Clients, Heard(c), lost = 0, server # "deaf",
                      client[c] \notin {"deaf", "gone"}
               PROVE  InFlight(c) > 0
    BY DEF NeverStalls
  <2>1. ClientInv(c) /\ IsABag(net)
    BY <1>1 DEF IInv, TypeOK
  <2>2. remote[c] # None
    BY <2>1 DEF ClientInv, AtEase, Heard
  <2>3. PICK d \in UnderWay(c) : TRUE
    BY <2>1, <2>2 DEF ClientInv, AtWork
  <2>4. /\ Cardinality(Copies(c)) \in Nat
        /\ Cardinality(Copies(c)) = 0 => \A e \in BagToSet(net) : e.client # c
    BY <2>1, SomeCopy DEF ClientInv, Counted
  <2> QED
    BY <2>3, <2>4 DEF UnderWay, InFlight
<1> QED
  BY <1>1, DiscoveryInvariant, PTL

-----------------------------------------------------------------------------
(* A connected client's step with a block is BlockService's Deliver, its   *)
(* first request is BlockService's Ask, and no other step is seen there.   *)
LEMMA BlocksStep ==
  ASSUME IInv, Next, NEW c \in Clients, doubled = 0
  PROVE  Blocks(c)!Next \/ UNCHANGED Blocks(c)!vars
<1>1. TypeOK /\ InHand /\ ClientInv(c)
  BY DEF IInv
<1>2. CASE UNCHANGED <<remote, got>>
  BY <1>2 DEF Blocks!vars, NextBlock
<1>3. CASE NewRemoteAddress(c) /\ remote' = [remote EXCEPT ![c] = NewTransport]
  <2>1. remote[c] = None /\ remote'[c] = NewTransport /\ got' = got
    BY <1>1, <1>3 DEF TypeOK, NewRemoteAddress
  <2>2. Blocks(c)!Ask
    BY <2>1, Transports DEF Blocks!Ask, NextBlock
  <2> QED
    BY <2>2 DEF Blocks!Next
<1>4. CASE Complition(c) \/ (ClientThrows(c) /\ remote[c] # None)
  <2> DEFINE curr == remote[c].curr + Words(answer[c])
  <2>1. /\ client[c] = "handler" /\ remote[c] # None
        /\ answer[c] \in Answers /\ answer[c].client = c
        /\ answer[c].kind = "block" => buffer[c] = [i \in 1 .. N |-> answer[c].from + i - 1]
    BY <1>1, <1>4 DEF Complition, ClientThrows, InHand
  <2>2. /\ remote[c] \in Transport /\ remote[c].curr = 0 /\ remote[c].offset \in Starts
        /\ \A d \in UnderWay(c) : Asked(c, d) \/ Answered(c, d)
    BY <1>1, <2>1 DEF TypeOK, ClientInv, Turns
  <2>3. answer[c] \in UnderWay(c) /\ ~Asked(c, answer[c])
    BY <2>1, WhatMoves DEF UnderWay, Asked
  <2>4. answer[c].kind = "block" /\ answer[c].from = remote[c].offset
    BY <2>2, <2>3 DEF Answered, Reply
  <2>5. BlockArrived(curr)
    BY <2>1, <2>2, <2>4, WordsIn, Sizes DEF BlockArrived
  <2>6. PICK m \in {0, curr} :
          /\ got' = [got EXCEPT ![c] = buffer[c]]
          /\ remote' = [remote EXCEPT ![c] = [curr |-> m, offset |-> Onward(remote[c].offset)]]
    BY <1>4, <2>5 DEF Complition, ClientThrows
  <2>7. /\ got'[c] = [i \in 1 .. N |-> remote[c].offset + i - 1]
        /\ remote'[c] = [curr |-> m, offset |-> Onward(remote[c].offset)]
        /\ m \in Nat
    BY <1>1, <2>1, <2>2, <2>4, <2>6, WordsIn DEF TypeOK, Transport
  <2>8. /\ remote[c].offset \in Nat
        /\ Onward(remote[c].offset) = IF remote[c].offset + N = Size THEN 0 ELSE remote[c].offset + N
        /\ Onward(remote[c].offset) \in Nat
    BY <2>2, NextStart
  <2>9. remote'[c] # None /\ remote'[c].offset = Onward(remote[c].offset)
    BY <2>7, <2>8, DiscoveryAssumption DEF Transport
  <2>10. Blocks(c)!Netdata(NextBlock(c), N * 1) = [i \in 1 .. N |-> remote[c].offset + i - 1]
    <3>1. NextBlock(c) = remote[c].offset /\ N * 1 = N
      BY <2>1, Sizes DEF NextBlock
    <3>2. remote[c].offset * 1 = remote[c].offset
      BY <2>8
    <3> QED
      BY <3>1, <3>2 DEF Blocks!Netdata
  <2>11. Blocks(c)!Deliver
    BY <2>1, <2>7, <2>8, <2>9, <2>10 DEF Blocks!Deliver, NextBlock
  <2> QED
    BY <2>11 DEF Blocks!Next
<1>5. CASE \E k \in Clients :
              k # c /\ (NewRemoteAddress(k) \/ Complition(k) \/ ClientThrows(k))
  <2>1. remote'[c] = remote[c] /\ got'[c] = got[c]
    BY <1>1, <1>5 DEF TypeOK, NewRemoteAddress, Complition, ClientThrows
  <2> QED
    BY <2>1 DEF Blocks!vars, NextBlock
<1> QED
  BY <1>2, <1>3, <1>4, <1>5
     DEF Next, Server, Client, StartUDP, ServerFails, ServerComplition, ServerThrows,
         ServerReceives, Broadcast, ClientReceives, NewRemoteAddress, ClientThrows, Exit, Unreachable, Lose, Duplicate, clientVars

(* Until the network doubles a datagram, every client is handed the blocks *)
(* of g_NETDATA in their order: the UDP side implements BlockService,      *)
(* whatever is lost and whoever ends (client.cpp:180-187, server.cpp:70).  *)
THEOREM DiscoveryImplementsBlocks == Spec => BlocksInOrder
<1>1. Init => \A c \in Clients : Blocks(c)!Init
  <2> SUFFICES ASSUME Init, NEW c \in Clients PROVE Blocks(c)!Init
    OBVIOUS
  <2>1. remote[c] = None /\ got[c] = <<>>
    BY DEF Init
  <2> QED
    BY <2>1 DEF Blocks!Init, NextBlock
<1>2. IInv /\ [Next]_vars =>
        [\A c \in Clients : doubled = 0 => Blocks(c)!Next \/ UNCHANGED Blocks(c)!vars]_vars
  BY BlocksStep
<1> QED
  BY <1>1, <1>2, DiscoveryInvariant, PTL DEF Spec, BlocksInOrder

=============================================================================
