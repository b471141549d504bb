------------------------------- MODULE Stream -------------------------------
(***************************************************************************)
(* One TCP connection from end to end: Client::OnRecived on one side,      *)
(* Server::OnRecived on the other, and between them two byte streams that  *)
(* TCP cuts where it likes.  Each side runs TCPTransport::Complition for   *)
(* the bytes of one WSARecv, then the callback, then the next WSARecv; a   *)
(* connection has one handler at a time on each side (TCPServer!Exclusive).*)
(*                                                                         *)
(* A byte of g_NETDATA is named by its position in the array, so a word    *)
(* is right exactly when its bytes are.  All requests hold the number N;   *)
(* of a request only the number of bytes is kept.                          *)
(***************************************************************************)
EXTENDS Naturals, Sequences

CONSTANTS
  N,        (* words of an answer, g_NumUInt32ForRecv                      *)
  Size,     (* words of g_NETDATA, g_NETDATA_SIZE                          *)
  W,        (* sizeof(uint32_t)                                            *)
  Truncate  (* TRUE when a non-blocking send may take less than it is given *)

(* client.cpp:52 asserts N <= Size; the code relies on the stronger fact   *)
(* that whole answers fill the array, true of 15000 and 30000.             *)
ASSUME StreamAssumption ==
  /\ N \in Nat \ {0}
  /\ Size \in Nat \ {0}
  /\ W \in Nat \ {0}
  /\ \E k \in 1 .. Size : Size = k * N
  /\ Truncate \in BOOLEAN

VARIABLES
  started,       (* SetupAdditionalConnections has sent the first request  *)
  up,            (* bytes of requests on their way                         *)
  serverPc,      (* "wait" for a WSARecv or in the "callback"              *)
  serverCurr,    (* the server's m_CurrRecived                             *)
  serverOffset,  (* the server's m_CurrentNumOffset                        *)
  down,          (* bytes of answers on their way                          *)
  clientPc,
  clientBuf,     (* the first m_CurrRecived bytes of the client's buffer   *)
  clientOffset,  (* the client's m_CurrentNumOffset                        *)
  errors,        (* what the last FastValidate added to m_ErrorCounter     *)
  got            (* history: the bytes the last FastValidate accepted      *)

serverVars == <<serverPc, serverCurr, serverOffset>>
clientVars == <<clientPc, clientBuf, clientOffset, errors, got>>
vars == <<started, up, down, serverVars, clientVars>>

Answer == N * W             (* bytes of an answer                          *)
BufferSize == 5 * Size * W  (* m_RecvBuffer.size()                         *)

Netdata(word, n) == [i \in 1 .. n |-> word * W + i - 1]

TypeOK ==
  /\ started \in BOOLEAN
  /\ up \in Nat
  /\ serverPc \in {"wait", "callback"}
  /\ serverCurr \in Nat
  /\ serverOffset \in Nat
  /\ down \in Seq(Nat)
  /\ clientPc \in {"wait", "callback"}
  /\ clientBuf \in Seq(Nat)
  /\ clientOffset \in Nat
  /\ errors \in Nat
  /\ got \in Seq(Nat)

Init ==
  /\ started = FALSE
  /\ up = 0
  /\ serverPc = "wait"
  /\ serverCurr = 0
  /\ serverOffset = 0
  /\ down = <<>>
  /\ clientPc = "wait"
  /\ clientBuf = <<>>
  /\ clientOffset = 0
  /\ errors = 0
  /\ got = <<>>

-----------------------------------------------------------------------------
(* How many of n bytes TCPTransport::Send puts on the stream: send() may   *)
(* return less, or nothing with WSAEWOULDBLOCK, and the rest is dropped.   *)
Sent(n) == IF Truncate THEN 0 .. n ELSE {n}

SendRequestTwice == \E n \in Sent(2 * W) : up' = up + n  (* slip *)
SendRequest == \E n \in Sent(W) : up' = up + n

(* SetupAdditionalConnections: the first WSARecv is outstanding already.   *)
Setup ==
  /\ ~started
  /\ started' = TRUE
  /\ SendRequest
  /\ UNCHANGED <<down, serverVars, clientVars>>

(* TCPTransport::Complition on the server: some bytes of a request.        *)
ServerRecv ==
  /\ serverPc = "wait"
  /\ \E n \in 1 .. up :
       /\ n <= BufferSize - serverCurr
       /\ up' = up - n
       /\ serverCurr' = serverCurr + n
  /\ serverPc' = "callback"
  /\ UNCHANGED <<started, down, serverOffset, clientVars>>

(* m_CurrentNumOffset wraps before the answer that no longer fits.         *)
ServerStartLate == IF serverOffset > Size THEN 0 ELSE serverOffset  (* slip *)
ServerStart == IF serverOffset >= Size THEN 0 ELSE serverOffset

(* A whole request is there.                                               *)
RequestArrivedAlways == TRUE            (* slip: no test                   *)
RequestArrivedBeyond == serverCurr > W  (* slip: off by one                *)
RequestArrived == serverCurr >= W

(* Server::OnRecived, then StartReceiving.                                 *)
ServerOnRecived ==
  /\ serverPc = "callback"
  /\ serverPc' = "wait"
  /\ \/ /\ ~RequestArrived
        /\ UNCHANGED <<serverCurr, serverOffset, down>>
     \/ /\ RequestArrived
        /\ serverOffset' = ServerStart + N
        /\ serverCurr' = serverCurr - W
        /\ \E n \in Sent(Answer) : down' = down \o Netdata(ServerStart, n)
  /\ UNCHANGED <<started, up, clientVars>>

(* TCPTransport::Complition on the client: some bytes of an answer, placed *)
(* behind those already in the buffer.                                     *)
ClientRecv ==
  /\ clientPc = "wait"
  /\ \E n \in 1 .. Len(down) :
       /\ n <= BufferSize - Len(clientBuf)
       /\ clientBuf' = clientBuf \o SubSeq(down, 1, n)
       /\ down' = SubSeq(down, n + 1, Len(down))
  /\ clientPc' = "callback"
  /\ UNCHANGED <<started, up, serverVars, clientOffset, errors, got>>

(* Word i of the client's buffer holds the value v.                        *)
Holds(i, v) == \A k \in 1 .. W : clientBuf[i * W + k] = v * W + k - 1

(* Where the block after the client's next one begins.                     *)
NextOffsetOnward == clientOffset + N  (* slip: no wrap *)
NextOffset == IF clientOffset + N >= Size THEN 0 ELSE clientOffset + N

(* Client::FastValidate looks at the first and the last word.              *)
FastValidate ==
  /\ errors' = (IF Holds(0, clientOffset) THEN 0 ELSE 1)
                 + (IF Holds(N - 1, N + clientOffset - 1) THEN 0 ELSE 1)
  /\ clientOffset' = NextOffset
  /\ got' = SubSeq(clientBuf, 1, Answer)

(* Client::OnRecived, then StartReceiving: a complete answer is checked,   *)
(* the next request is sent, and whatever the buffer holds is dropped.     *)
ClientOnRecived ==
  /\ clientPc = "callback"
  /\ clientPc' = "wait"
  /\ \/ /\ Len(clientBuf) < Answer
        /\ UNCHANGED <<up, clientBuf, clientOffset, errors, got>>
     \/ /\ Len(clientBuf) >= Answer
        /\ FastValidate
        /\ SendRequest
        /\ clientBuf' = <<>>
  /\ UNCHANGED <<started, down, serverVars>>

Server == ServerRecv \/ ServerOnRecived
Client == ClientRecv \/ ClientOnRecived

Next == Setup \/ Server \/ Client

Spec == Init /\ [][Next]_vars

(* TCP delivers, and each side's workers keep serving the connection.      *)
FairSpec == Spec /\ WF_vars(Server) /\ WF_vars(Client)

-----------------------------------------------------------------------------
(* server.cpp:64 asserts that the server's buffer never holds more than    *)
(* one request, as the client sends the next one only when it has the      *)
(* whole answer (client.cpp:112, 223); server.cpp:77, that an answer lies  *)
(* within g_NETDATA.                                                       *)
ServerAsserts ==
  serverPc = "callback" => serverCurr <= W /\ N <= Size - ServerStart

(* The client drops nothing when it sets m_CurrRecived to zero             *)
(* (client.cpp:114, 120): no byte of a later answer is ever in its buffer. *)
NoExcess == Len(clientBuf) <= Answer

(* However TCP cuts the streams and however much of a send is lost, the    *)
(* client's offset and the server's agree and FastValidate counts no error *)
(* (client.cpp:180-187, server.cpp:73-79).                                 *)
NoErrors == errors = 0

(* What the client is handed are the blocks of g_NETDATA in their order,   *)
(* every byte in its place, whatever is lost (BlockService).               *)
Blocks == INSTANCE BlockService
            WITH asked <- started, next <- clientOffset, block <- got

BlocksInOrder == Blocks!Spec

(* And it is handed blocks for ever as long as no send is truncated: then  *)
(* the request or the answer under way is whole (Transport.cpp:316-323).   *)
Whole == up + serverCurr = W \/ Len(clientBuf) + Len(down) = Answer
BlocksForEver == [](started => Whole) => Blocks!Service

=============================================================================
