----------------------------- MODULE SSLStream ------------------------------
(***************************************************************************)
(* One SSL connection from end to end: an SSLTransport on either side, its *)
(* two memory BIOs, the handshake, and above it the requests and answers   *)
(* of Client::OnRecived and Server::OnRecived.                             *)
(*                                                                         *)
(* OpenSSL is modelled by what the code relies on: SSL_read consumes the   *)
(* whole records in Bio[RECV], answers those of the handshake into         *)
(* Bio[SEND] and hands out the data of one record at a time; it fails on   *)
(* bytes that are not a record it expects.  The handshake is that of TLS   *)
(* up to 1.2, which is what the libraries of dep/readme.txt speak: the     *)
(* client has finished only after the server has.                          *)
(*                                                                         *)
(* A record travels in two parts, so that TCP can cut it and a send can    *)
(* truncate it.  Sizes of data are counted in words of g_NETDATA.          *)
(***************************************************************************)
EXTENDS Naturals, Sequences

CONSTANTS
  N,            (* words of an answer, g_NumUInt32ForRecv                  *)
  Size,         (* words of g_NETDATA, g_NETDATA_SIZE                      *)
  RecordWords,  (* words in the longest record of TLS                      *)
  Truncate      (* TRUE when a non-blocking send may take less than it is given *)

ASSUME SSLAssumption ==
  /\ {N, Size, RecordWords} \subseteq Nat \ {0}
  /\ \E k \in 1 .. Size : Size = k * N
  /\ Truncate \in BOOLEAN

Sides == {"client", "server"}
Other(s) == CHOOSE o \in Sides : o # s

VARIABLES
  pc,            (* each side's handler: "read" is the loop of             *)
                 (* SSLProcessingRecv, "dead" an exception out of it       *)
  tls,           (* the handshake state of each side's OpenSSL             *)
  handshaked,    (* m_Handshaked of each side                              *)
  bioRecv,       (* Bio[RECV] of each side                                 *)
  bioSend,       (* Bio[SEND] of each side                                 *)
  wire,          (* what is on its way to each side                        *)
  serverCurr,    (* the server's m_CurrRecived                             *)
  serverOffset,  (* the server's m_CurrentNumOffset                        *)
  clientBuf,     (* the first m_CurrRecived words of m_DecryptedRecvData   *)
  clientOffset,  (* the client's m_CurrentNumOffset                        *)
  got,           (* history: the words the last FastValidate accepted      *)
  cut            (* history: some send was truncated                       *)

sslVars == <<pc, tls, handshaked, bioRecv, bioSend, wire, cut>>
serverVars == <<serverCurr, serverOffset>>
clientVars == <<clientBuf, clientOffset, got>>
vars == <<sslVars, serverVars, clientVars>>

(* Records: the flights of the handshake, a request, a stretch of an answer. *)
Flight(kind) == [kind |-> kind, from |-> 0, len |-> 0]
Request == [kind |-> "data", from |-> 0, len |-> 1]

Min2(a, b) == IF a < b THEN a ELSE b

(* SSL_write cuts an answer into records.                                  *)
AnswerFrom(o) ==
  [i \in 1 .. (N + RecordWords - 1) \div RecordWords |->
     [kind |-> "data",
      from |-> o + (i - 1) * RecordWords,
      len  |-> Min2(RecordWords, N - (i - 1) * RecordWords)]]

Records ==
  {Flight(k) : k \in {"hello", "serverHello", "clientFinished", "finished"}}
    \cup [kind : {"data"}, from : Nat, len : Nat]

Part == [rec : Records, part : {1, 2}]

(* The bytes of a sequence of records.                                     *)
Bytes(rs) ==
  [i \in 1 .. 2 * Len(rs) |-> [rec |-> rs[(i + 1) \div 2], part |-> 2 - (i % 2)]]

TypeOK ==
  /\ pc \in [Sides -> {"off", "wait", "read", "callback", "dead"}]
  /\ tls \in [Sides -> {"off", "hello", "finish", "open"}]
  /\ handshaked \in [Sides -> BOOLEAN]
  /\ bioRecv \in [Sides -> Seq(Part)]
  /\ bioSend \in [Sides -> Seq(Part)]
  /\ wire \in [Sides -> Seq(Part)]
  /\ serverCurr \in Nat
  /\ serverOffset \in 0 .. Size
  /\ clientBuf \in Seq(Nat)
  /\ clientOffset \in 0 .. Size - 1
  /\ got \in Seq(Nat)
  /\ cut \in BOOLEAN

Init ==
  /\ pc = [s \in Sides |-> "off"]
  /\ tls = [s \in Sides |-> "off"]
  /\ handshaked = [s \in Sides |-> FALSE]
  /\ bioRecv = [s \in Sides |-> <<>>]
  /\ bioSend = [s \in Sides |-> <<>>]
  /\ wire = [s \in Sides |-> <<>>]
  /\ serverCurr = 0
  /\ serverOffset = 0
  /\ clientBuf = <<>>
  /\ clientOffset = 0
  /\ got = <<>>
  /\ cut = FALSE

-----------------------------------------------------------------------------
(* How much of n parts TCPTransport::Send puts on the stream; the rest is  *)
(* dropped.                                                                *)
Sent(n) == IF Truncate THEN 0 .. n ELSE {n}

(* What BIO_read leaves in Bio[SEND].                                      *)
LeftWhole(all) == all  (* slip: the data is looked at and not taken *)
Left(all) == <<>>

(* SSLTransport::SSLProcessingSend empties Bio[SEND], behind which SSL_write *)
(* may just have put more, in a single TCPTransport::Send.                 *)
SSLProcessingSend(s, new) ==
  LET all == bioSend[s] \o new IN
  \E n \in Sent(Len(all)) :
    /\ bioSend' = [bioSend EXCEPT ![s] = Left(all)]
    /\ wire' = [wire EXCEPT ![Other(s)] = @ \o SubSeq(all, 1, n)]
    /\ cut' = (cut \/ n < Len(all))

(* SSLTransport::Connect: SSL_read finds nothing to read and begins the    *)
(* handshake.  The first WSARecv follows.                                  *)
Connect ==
  /\ pc["client"] = "off"
  /\ pc' = [pc EXCEPT !["client"] = "wait"]
  /\ tls' = [tls EXCEPT !["client"] = "hello"]
  /\ SSLProcessingSend("client", Bytes(<<Flight("hello")>>))
  /\ UNCHANGED <<handshaked, bioRecv, serverVars, clientVars>>

(* Some of what is on its way arrives in m_RecvBuffer and goes to Bio[RECV]. *)
Receive(s) ==
  /\ \E n \in 1 .. Len(wire[s]) :
       /\ bioRecv' = [bioRecv EXCEPT ![s] = @ \o SubSeq(wire[s], 1, n)]
       /\ wire' = [wire EXCEPT ![s] = SubSeq(@, n + 1, Len(@))]
  /\ pc' = [pc EXCEPT ![s] = "read"]
  /\ UNCHANGED <<handshaked, bioSend, cut, serverVars, clientVars>>

(* SSLServer::Complition: Accept, whose SSL_read finds nothing and has     *)
(* nothing to say, then SSLTransport::Complition with what AcceptEx read.  *)
Accept ==
  /\ pc["server"] = "off"
  /\ tls' = [tls EXCEPT !["server"] = "hello"]
  /\ Receive("server")

(* SSLTransport::Complition after a WSARecv.                               *)
Complition(s) ==
  /\ pc[s] = "wait"
  /\ Receive(s)
  /\ UNCHANGED tls

-----------------------------------------------------------------------------
(* What OpenSSL does with the flights of the handshake.                    *)
Handshake ==
  [client |->
     {[in |-> "hello",  got |-> "serverHello", say |-> <<Flight("clientFinished")>>, out |-> "finish"],
      [in |-> "finish", got |-> "finished",    say |-> <<>>,                         out |-> "open"]},
   server |->
     {[in |-> "hello",  got |-> "hello",          say |-> <<Flight("serverHello")>>, out |-> "finish"],
      [in |-> "finish", got |-> "clientFinished", say |-> <<Flight("finished")>>,    out |-> "open"]}]

RecordArrived(s) == Len(bioRecv[s]) >= 2

(* A whole record whose bytes belong together.                             *)
Sound(s) ==
  /\ bioRecv[s][1].part = 1
  /\ bioRecv[s][2] = [bioRecv[s][1] EXCEPT !.part = 2]

RecordOf(s) == bioRecv[s][1].rec
Steps(s) == {h \in Handshake[s] : h.in = tls[s] /\ h.got = RecordOf(s).kind}
Consume(s) == bioRecv' = [bioRecv EXCEPT ![s] = SubSeq(@, 3, Len(@))]

(* SSL_read goes on with the handshake.                                    *)
ReadHandshake(s) ==
  /\ \E h \in Steps(s) :
       /\ tls' = [tls EXCEPT ![s] = h.out]
       /\ bioSend' = [bioSend EXCEPT ![s] = @ \o Bytes(h.say)]
  /\ Consume(s)
  /\ UNCHANGED <<pc, handshaked, wire, cut, serverVars, clientVars>>

HasData(s) == tls[s] = "open" /\ RecordOf(s).kind = "data"

(* SSL_read returns the data of a record; the callback follows only once   *)
(* m_Handshaked is set.                                                    *)
ReadData(s) ==
  /\ HasData(s)
  /\ Consume(s)
  /\ LET r == RecordOf(s) IN
       IF s = "server"
       THEN serverCurr' = serverCurr + r.len /\ UNCHANGED clientBuf
       ELSE /\ clientBuf' = clientBuf \o [i \in 1 .. r.len |-> r.from + i - 1]
            /\ UNCHANGED serverCurr
  /\ pc' = [pc EXCEPT ![s] = IF handshaked[s] THEN "callback" ELSE "read"]
  /\ UNCHANGED <<tls, handshaked, bioSend, wire, cut, serverOffset,
                 clientOffset, got>>

(* SSL_read fails, and the exception ends the worker.                      *)
ReadFails(s) ==
  /\ pc' = [pc EXCEPT ![s] = "dead"]
  /\ UNCHANGED <<tls, handshaked, bioRecv, bioSend, wire, cut, serverVars,
                 clientVars>>

(* One turn of the loop of SSLProcessingRecv that finds a record.          *)
ReadRecord(s) ==
  /\ pc[s] = "read"
  /\ RecordArrived(s)
  /\ IF Sound(s) /\ (Steps(s) # {} \/ HasData(s))
     THEN ReadHandshake(s) \/ ReadData(s)
     ELSE ReadFails(s)

(* Client::OnTransportConnected sends the first request, the server's does *)
(* nothing.                                                                *)
OnTransportConnected(s) == IF s = "client" THEN Bytes(<<Request>>) ELSE <<>>

(* m_Handshaked after the loop.                                            *)
MarkedNever(s) == FALSE  (* slip: it is not set *)
Marked(s) == tls[s] = "open"

(* SSL_read wants more: the loop ends, the end of the handshake is noticed, *)
(* Bio[SEND] is sent, and the next WSARecv follows.                        *)
ReadEnds(s) ==
  /\ pc[s] = "read"
  /\ ~RecordArrived(s)
  /\ pc' = [pc EXCEPT ![s] = "wait"]
  /\ handshaked' = [handshaked EXCEPT ![s] = Marked(s)]
  /\ SSLProcessingSend(s, IF tls[s] = "open" /\ ~handshaked[s]
                          THEN OnTransportConnected(s) ELSE <<>>)
  /\ UNCHANGED <<tls, bioRecv, serverVars, clientVars>>

-----------------------------------------------------------------------------
(* m_CurrentNumOffset wraps before the answer that no longer fits.         *)
ServerStartLate == IF serverOffset > Size THEN 0 ELSE serverOffset  (* slip *)
ServerStart == IF serverOffset >= Size THEN 0 ELSE serverOffset

(* Server::OnRecived; its Send is SSL_write and SSLProcessingSend.  The    *)
(* loop of SSLProcessingRecv goes on whatever it returns.                  *)
ServerOnRecived ==
  /\ pc["server"] = "callback"
  /\ pc' = [pc EXCEPT !["server"] = "read"]
  /\ IF serverCurr >= 1
     THEN /\ serverCurr' = serverCurr - 1
          /\ serverOffset' = ServerStart + N
          /\ SSLProcessingSend("server", Bytes(AnswerFrom(ServerStart)))
     ELSE UNCHANGED <<serverVars, bioSend, wire, cut>>
  /\ UNCHANGED <<tls, handshaked, bioRecv, clientVars>>

(* Client::OnRecived: a complete answer is checked, the next one is asked  *)
(* for, and m_CurrRecived starts again.                                    *)
ClientOnRecived ==
  /\ pc["client"] = "callback"
  /\ pc' = [pc EXCEPT !["client"] = "read"]
  /\ IF Len(clientBuf) >= N
     THEN /\ got' = SubSeq(clientBuf, 1, N)
          /\ clientOffset' = IF clientOffset + N >= Size THEN 0 ELSE clientOffset + N
          /\ clientBuf' = <<>>
          /\ SSLProcessingSend("client", Bytes(<<Request>>))
     ELSE UNCHANGED <<clientVars, bioSend, wire, cut>>
  /\ UNCHANGED <<tls, handshaked, bioRecv, serverVars>>

SSLProcessingRecv(s) == ReadRecord(s) \/ ReadEnds(s)

Server == Accept \/ Complition("server") \/ SSLProcessingRecv("server") \/ ServerOnRecived
Client == Complition("client") \/ SSLProcessingRecv("client") \/ ClientOnRecived

Next == Connect \/ Server \/ Client

Spec == Init /\ [][Next]_vars

(* TCP delivers, and each side's workers keep serving the connection.      *)
FairSpec == Spec /\ WF_vars(Server) /\ WF_vars(Client)

-----------------------------------------------------------------------------
(* A truncated send never makes OpenSSL read a mutilated record, which     *)
(* would end a worker (Transport.cpp:618): after it nobody sends again.    *)
NoBadRecord == \A s \in Sides : pc[s] # "dead"

(* When a handler is done, nothing it decrypted is left undelivered for    *)
(* want of m_Handshaked (Transport.cpp:609): the server has answered every *)
(* request, the client holds less than a block.                            *)
NothingStuck ==
  /\ pc["server"] = "wait" => serverCurr = 0
  /\ pc["client"] = "wait" => Len(clientBuf) < N

(* The same promise as of a TCP connection: once it has asked, the client  *)
(* is handed block after block, in order (BlockService).                   *)
Blocks == INSTANCE BlockService
            WITH asked <- handshaked["client"], next <- clientOffset,
                 block <- got, W <- 1
BlocksInOrder == Blocks!Spec

(* A connection on which no send is truncated ends its handshake on both   *)
(* sides (Transport.cpp:624-634) and is handed every block again and again *)
(* (client.cpp:104-130).                                                   *)
Delivers ==
  \A o \in {p \in 0 .. Size - 1 : p % N = 0} :
    pc["client"] # "off" ~>
      (clientOffset = o /\ \A s \in Sides : handshaked[s]) \/ cut

=============================================================================
