---------------------------- MODULE StreamProofs ----------------------------
(***************************************************************************)
(* Proofs about Stream: for every word size, answer size, array size that  *)
(* answers fill exactly, and every way the streams are cut or truncated,   *)
(* the asserts of Server::OnRecived hold, FastValidate counts no error,    *)
(* and the connection implements BlockService.                             *)
(*                                                                         *)
(* The invariant says that client and server take turns.  While a request  *)
(* is on its way (Asking) nothing else is; while an answer is (Answering), *)
(* the client's buffer followed by the bytes still on the stream is a      *)
(* beginning of the block at the client's offset.                          *)
(***************************************************************************)
EXTENDS Stream, Integers, SequenceTheorems, TLAPS

(* The offsets at which a block begins.                                    *)
Starts == {j * N : j \in {i \in Nat : i * N < Size}}

(* The bytes of s are those of g_NETDATA from position p on.               *)
From(s, p) == \A i \in 1 .. Len(s) : s[i] = p + i - 1

Asking ==
  /\ clientPc = "wait"
  /\ clientBuf = <<>>
  /\ down = <<>>
  /\ up + serverCurr <= W
  /\ ServerStart = clientOffset

Answering ==
  /\ started
  /\ up = 0
  /\ serverPc = "wait"
  /\ serverCurr = 0
  /\ serverOffset = clientOffset + N
  /\ Len(clientBuf) + Len(down) <= Answer
  /\ From(clientBuf, clientOffset * W)
  /\ From(down, clientOffset * W + Len(clientBuf))

Turns ==
  /\ ~started => up = 0 /\ serverCurr = 0 /\ serverPc = "wait" /\ Asking
  /\ Asking \/ Answering

IInv == TypeOK /\ clientOffset \in Starts /\ errors = 0 /\ Turns

-----------------------------------------------------------------------------
(* The sizes in bytes and words.                                           *)
LEMMA Sizes ==
  /\ N \in Nat /\ N > 0 /\ W \in Nat /\ W > 0 /\ Size \in Nat /\ Size > 0
  /\ Answer \in Nat /\ Answer >= W
<1>1. N \in Nat /\ N > 0 /\ W \in Nat /\ W > 0 /\ Size \in Nat /\ Size > 0
  BY StreamAssumption
<1>2. Answer \in Nat /\ Answer >= W
  <2>1. (N - 1) * W >= 0 /\ N * W = (N - 1) * W + W
    BY <1>1
  <2> QED
    BY <1>1, <2>1 DEF Answer
<1> QED
  BY <1>1, <1>2

(* A send puts no more on the stream than it is given.                     *)
LEMMA SentBound ==
  ASSUME NEW n \in Nat, NEW k \in Sent(n)
  PROVE  k \in Nat /\ k <= n
BY DEF Sent

(* A block that begins inside g_NETDATA ends inside it, and the next       *)
(* block begins where it ends or at the beginning.                         *)
LEMMA NextStart ==
  ASSUME NEW o \in Starts
  PROVE  /\ o \in Nat /\ o < Size /\ o + N <= Size
         /\ o + N # Size => o + N \in Starts
         /\ 0 \in Starts
<1>1. PICK j \in Nat : o = j * N /\ j * N < Size
  BY DEF Starts
<1>2. PICK k \in Nat : Size = k * N
  BY StreamAssumption
<1>3. N \in Nat /\ N > 0 /\ Size \in Nat /\ Size > 0
  BY Sizes
<1>4. j < k
  <2> SUFFICES ASSUME k <= j PROVE FALSE
    BY <1>1, <1>2
  <2>1. (j - k) * N >= 0
    BY <1>3
  <2>2. j * N = k * N + (j - k) * N
    BY <1>3
  <2> QED
    BY <1>1, <1>2, <1>3, <2>1, <2>2
<1>5. j * N + N <= k * N
  <2>1. (k - j - 1) * N >= 0
    BY <1>3, <1>4
  <2>2. k * N = j * N + N + (k - j - 1) * N
    BY <1>3
  <2> QED
    BY <1>3, <2>1, <2>2
<1>6. o \in Nat /\ o < Size /\ o + N <= Size
  BY <1>1, <1>2, <1>3, <1>5
<1>7. o + N # Size => o + N \in Starts
  <2> SUFFICES ASSUME o + N # Size PROVE o + N \in Starts
    OBVIOUS
  <2>1. PICK i \in Nat : i = j + 1
    OBVIOUS
  <2>2. i * N = o + N
    BY <1>1, <1>3, <2>1
  <2>3. i * N < Size
    BY <1>3, <1>6, <2>2
  <2> QED
    BY <2>2, <2>3 DEF Starts
<1>8. 0 \in Starts
  <2>1. 0 * N = 0
    BY <1>3
  <2> QED
    BY <1>3, <2>1 DEF Starts
<1> QED
  BY <1>6, <1>7, <1>8

(* What the server sends is a beginning of the block it is at.             *)
LEMMA NetdataFrom ==
  ASSUME NEW word \in Nat, NEW n \in Nat
  PROVE  /\ Netdata(word, n) \in Seq(Nat)
         /\ Len(Netdata(word, n)) = n
         /\ From(Netdata(word, n), word * W)
<1>1. word * W \in Nat
  BY Sizes
<1>2. \A i \in 1 .. n : word * W + i - 1 \in Nat
  BY <1>1
<1>3. Netdata(word, n) \in [1 .. n -> Nat]
  BY <1>2 DEF Netdata
<1>4. Netdata(word, n) \in Seq(Nat) /\ Len(Netdata(word, n)) = n
  BY <1>3
<1> QED
  BY <1>4 DEF Netdata, From

(* Moving bytes from the stream to the buffer keeps them in their places.  *)
LEMMA Move ==
  ASSUME NEW b \in Seq(Nat), NEW d \in Seq(Nat), NEW n \in 1 .. Len(d), NEW p \in Nat,
         From(b, p), From(d, p + Len(b))
  PROVE  /\ b \o SubSeq(d, 1, n) \in Seq(Nat)
         /\ SubSeq(d, n + 1, Len(d)) \in Seq(Nat)
         /\ Len(b \o SubSeq(d, 1, n)) = Len(b) + n
         /\ Len(SubSeq(d, n + 1, Len(d))) = Len(d) - n
         /\ From(b \o SubSeq(d, 1, n), p)
         /\ From(SubSeq(d, n + 1, Len(d)), p + Len(b) + n)
<1>0. PICK c, e : c = b \o SubSeq(d, 1, n) /\ e = SubSeq(d, n + 1, Len(d))
  OBVIOUS
<1>1. Len(b) \in Nat /\ Len(d) \in Nat
  OBVIOUS
<1> DEFINE f == SubSeq(d, 1, n)
<1>2. /\ f \in Seq(Nat) /\ Len(f) = n
      /\ \A i \in 1 .. n : f[i] = d[i]
  BY <1>1
<1>3. /\ e \in Seq(Nat) /\ Len(e) = Len(d) - n
      /\ \A i \in 1 .. Len(e) : e[i] = d[n + i]
  BY <1>0, <1>1
<1>4. /\ c \in Seq(Nat) /\ Len(c) = Len(b) + n
      /\ \A i \in 1 .. Len(b) : c[i] = b[i]
      /\ \A i \in 1 .. Len(c) : i > Len(b) => c[i] = f[i - Len(b)]
  BY <1>0, <1>1, <1>2
<1>5. From(c, p)
  <2> SUFFICES ASSUME NEW i \in 1 .. Len(c) PROVE c[i] = p + i - 1
    BY DEF From
  <2>1. CASE i <= Len(b)
    BY <1>1, <1>4, <2>1 DEF From
  <2>2. CASE i > Len(b)
    <3>1. i - Len(b) \in 1 .. n /\ c[i] = d[i - Len(b)]
      BY <1>1, <1>2, <1>4, <2>2
    <3>2. d[i - Len(b)] = p + Len(b) + (i - Len(b)) - 1
      BY <1>1, <3>1 DEF From
    <3> QED
      BY <1>1, <3>1, <3>2
  <2> QED
    BY <1>1, <1>4, <2>1, <2>2
<1>6. From(e, p + Len(b) + n)
  <2> SUFFICES ASSUME NEW i \in 1 .. Len(e)
               PROVE  e[i] = p + Len(b) + n + i - 1
    BY DEF From
  <2>1. n + i \in 1 .. Len(d)
    <3>1. i \in Nat /\ 1 <= i /\ i <= Len(d) - n
      BY <1>1, <1>3
    <3> QED
      BY <1>1, <3>1
  <2>2. e[i] = d[n + i]
    BY <1>3
  <2>3. d[n + i] = p + Len(b) + (n + i) - 1
    BY <2>1 DEF From
  <2> QED
    BY <1>1, <1>4, <2>1, <2>2, <2>3
<1> QED
  BY Zenon, <1>0, <1>3, <1>4, <1>5, <1>6

-----------------------------------------------------------------------------
(* The invariant holds before the first request.                           *)
LEMMA StreamInit == Init => IInv
<1> SUFFICES ASSUME Init PROVE IInv
  OBVIOUS
<1>1. TypeOK
  <2>1. started \in BOOLEAN
    BY Zenon DEF Init
  <2>2. up \in Nat /\ serverCurr \in Nat /\ serverOffset \in Nat
    BY DEF Init
  <2>3. down \in Seq(Nat) /\ clientBuf \in Seq(Nat) /\ got \in Seq(Nat)
    BY DEF Init
  <2>4. clientOffset \in Nat /\ errors \in Nat
    BY DEF Init
  <2> QED
    BY <2>1, <2>2, <2>3, <2>4 DEF Init, TypeOK
<1>2. 0 \in Starts
  <2>1. 0 * N = 0
    BY Sizes
  <2> QED
    BY Sizes, <2>1 DEF Starts
<1>3. Asking
  <2>1. up + serverCurr <= W
    BY Sizes DEF Init
  <2>2. ServerStart = clientOffset
    BY Sizes DEF Init, ServerStart
  <2> QED
    BY <2>1, <2>2 DEF Init, Asking
<1> QED
  BY <1>1, <1>2, <1>3 DEF Init, IInv, Turns

(* The first request starts the client's turn to wait.                     *)
LEMMA SetupStep == IInv /\ Setup => IInv'
<1> SUFFICES ASSUME IInv, Setup PROVE IInv'
  OBVIOUS
<1>1. /\ ~started /\ started' = TRUE
      /\ UNCHANGED <<down, serverPc, serverCurr, serverOffset>>
      /\ UNCHANGED <<clientPc, clientBuf, clientOffset, errors, got>>
  BY DEF Setup, serverVars, clientVars
<1>2. TypeOK /\ clientOffset \in Starts /\ errors = 0
  BY DEF IInv
<1>3. up = 0 /\ serverCurr = 0 /\ Asking
  BY <1>1 DEF IInv, Turns
<1>4. PICK n \in Nat : up' = n /\ n <= W
  <2>1. PICK n \in Sent(W) : up' = up + n
    BY DEF Setup, SendRequest
  <2>2. n \in Nat /\ n <= W
    BY Sizes, SentBound
  <2> QED
    BY <1>3, <2>1, <2>2
<1>5. TypeOK'
  BY <1>1, <1>2, <1>4 DEF TypeOK
<1>6. Asking'
  <2>1. up' + serverCurr' <= W
    <3>1. serverCurr' = 0
      BY <1>1, <1>3
    <3> QED
      BY Sizes, <1>4, <3>1
  <2>2. ServerStart' = clientOffset'
    BY <1>1, <1>3 DEF Asking, ServerStart
  <2>3. clientPc' = "wait" /\ clientBuf' = <<>> /\ down' = <<>>
    BY <1>1, <1>3 DEF Asking
  <2> QED
    BY <2>1, <2>2, <2>3 DEF Asking
<1> QED
  BY <1>1, <1>2, <1>5, <1>6 DEF IInv, Turns

(* Bytes of the one request move from the stream to the server's buffer.   *)
LEMMA ServerRecvStep == IInv /\ ServerRecv => IInv'
<1> SUFFICES ASSUME IInv, ServerRecv PROVE IInv'
  OBVIOUS
<1>1. /\ serverPc' = "callback"
      /\ UNCHANGED <<started, down, serverOffset>>
      /\ UNCHANGED <<clientPc, clientBuf, clientOffset, errors, got>>
  BY DEF ServerRecv, clientVars
<1>2. TypeOK /\ clientOffset \in Starts /\ errors = 0
  BY DEF IInv
<1>3. PICK n \in 1 .. up : up' = up - n /\ serverCurr' = serverCurr + n
  BY DEF ServerRecv
<1>4. up \in Nat /\ serverCurr \in Nat
  BY <1>2 DEF TypeOK
<1>5. up > 0
  BY <1>3, <1>4
<1>6. started /\ Asking
  BY <1>5 DEF IInv, Turns, Answering
<1>7. up' \in Nat /\ serverCurr' \in Nat /\ up' + serverCurr' = up + serverCurr
  BY <1>3, <1>4
<1>8. TypeOK'
  BY <1>1, <1>2, <1>7 DEF TypeOK
<1>9. Asking'
  BY <1>1, <1>6, <1>7 DEF Asking, ServerStart
<1> QED
  BY <1>1, <1>2, <1>6, <1>8, <1>9 DEF IInv, Turns

(* A complete request ends the server's wait: the answer is the block at   *)
(* the client's offset, or a beginning of it.                              *)
LEMMA ServerOnRecivedStep == IInv /\ ServerOnRecived => IInv'
<1> SUFFICES ASSUME IInv, ServerOnRecived PROVE IInv'
  OBVIOUS
<1>1. /\ serverPc = "callback" /\ serverPc' = "wait"
      /\ UNCHANGED <<started, up>>
      /\ UNCHANGED <<clientPc, clientBuf, clientOffset, errors, got>>
  BY DEF ServerOnRecived, clientVars
<1>2. TypeOK /\ clientOffset \in Starts /\ errors = 0
  BY DEF IInv
<1>3. started /\ Asking
  BY <1>1 DEF IInv, Turns, Answering
<1>4. /\ up \in Nat /\ serverCurr \in Nat /\ serverOffset \in Nat
      /\ clientOffset \in Nat
  BY <1>2 DEF TypeOK
<1>5. CASE UNCHANGED <<serverCurr, serverOffset, down>>
  <2>1. TypeOK'
    BY <1>1, <1>2, <1>5 DEF TypeOK
  <2>2. Asking'
    BY <1>1, <1>3, <1>5 DEF Asking, ServerStart
  <2> QED
    BY <1>1, <1>2, <1>3, <2>1, <2>2 DEF IInv, Turns
<1>6. CASE /\ serverCurr >= W
           /\ serverOffset' = ServerStart + N
           /\ serverCurr' = serverCurr - W
           /\ \E n \in Sent(Answer) : down' = down \o Netdata(ServerStart, n)
  <2>1. serverCurr = W /\ up = 0
    BY Sizes, <1>3, <1>4, <1>6 DEF Asking
  <2>2. serverCurr' = 0 /\ serverOffset' = clientOffset + N
    BY Sizes, <1>3, <1>6, <2>1 DEF Asking
  <2>3. PICK n \in Sent(Answer) : down' = <<>> \o Netdata(clientOffset, n)
    BY <1>3, <1>6 DEF Asking
  <2>4. n \in Nat /\ n <= Answer
    BY Sizes, SentBound
  <2>5. /\ Netdata(clientOffset, n) \in Seq(Nat)
        /\ Len(Netdata(clientOffset, n)) = n
        /\ From(Netdata(clientOffset, n), clientOffset * W)
    BY <1>4, <2>4, NetdataFrom
  <2>6. down' = Netdata(clientOffset, n)
    BY <2>3, <2>5
  <2>7. clientBuf = <<>> /\ Len(clientBuf) = 0
    BY <1>3 DEF Asking
  <2>8. clientOffset * W \in Nat
    BY Sizes, <1>4
  <2>9. From(clientBuf', (clientOffset * W)')
    BY <1>1, <2>7 DEF From
  <2>10. From(down', (clientOffset * W + Len(clientBuf))')
    BY <1>1, <2>5, <2>6, <2>7, <2>8
  <2>11. Len(clientBuf') + Len(down') <= Answer
    BY <1>1, <2>4, <2>5, <2>6, <2>7
  <2>12. Answering'
    BY <1>1, <1>3, <2>1, <2>2, <2>9, <2>10, <2>11 DEF Answering, Answer, From
  <2>13. TypeOK'
    BY Sizes, <1>1, <1>2, <1>4, <2>2, <2>5, <2>6 DEF TypeOK
  <2> QED
    BY <1>1, <1>2, <1>3, <2>12, <2>13 DEF IInv, Turns
<1> QED
  BY Zenon, <1>5, <1>6 DEF ServerOnRecived, RequestArrived

(* Bytes of the answer move from the stream to the client's buffer.        *)
LEMMA ClientRecvStep == IInv /\ ClientRecv => IInv'
<1> SUFFICES ASSUME IInv, ClientRecv PROVE IInv'
  OBVIOUS
<1>1. /\ clientPc' = "callback"
      /\ UNCHANGED <<started, up, serverPc, serverCurr, serverOffset>>
      /\ UNCHANGED <<clientOffset, errors, got>>
  BY DEF ClientRecv, serverVars
<1>2. TypeOK /\ clientOffset \in Starts /\ errors = 0
  BY DEF IInv
<1>3. /\ clientBuf \in Seq(Nat) /\ down \in Seq(Nat) /\ clientOffset \in Nat
      /\ Len(clientBuf) \in Nat /\ Len(down) \in Nat
  BY <1>2 DEF TypeOK
<1>4. PICK n \in 1 .. Len(down) :
        /\ clientBuf' = clientBuf \o SubSeq(down, 1, n)
        /\ down' = SubSeq(down, n + 1, Len(down))
  BY DEF ClientRecv
<1>5. down # <<>>
  BY <1>3, <1>4
<1>6. Answering
  BY <1>5 DEF IInv, Turns, Asking
<1>7. PICK p \in Nat : p = clientOffset * W
  BY Sizes, <1>3
<1>8. From(clientBuf, p) /\ From(down, p + Len(clientBuf))
  BY <1>6, <1>7 DEF Answering
<1>9. /\ clientBuf \o SubSeq(down, 1, n) \in Seq(Nat)
      /\ SubSeq(down, n + 1, Len(down)) \in Seq(Nat)
      /\ Len(clientBuf \o SubSeq(down, 1, n)) = Len(clientBuf) + n
      /\ Len(SubSeq(down, n + 1, Len(down))) = Len(down) - n
      /\ From(clientBuf \o SubSeq(down, 1, n), p)
      /\ From(SubSeq(down, n + 1, Len(down)), p + Len(clientBuf) + n)
  BY <1>3, <1>8, Move
<1>10. PICK c \in Seq(Nat), e \in Seq(Nat) :
         /\ clientBuf' = c /\ down' = e
         /\ Len(c) = Len(clientBuf) + n /\ Len(e) = Len(down) - n
         /\ From(c, p) /\ From(e, p + Len(clientBuf) + n)
  BY Zenon, <1>4, <1>9
<1>11. p + Len(clientBuf) + n = p + Len(c)
  BY <1>3, <1>10
<1>12. TypeOK'
  BY <1>1, <1>2, <1>10 DEF TypeOK
<1>13. Len(c) + Len(e) <= Answer
  BY Sizes, <1>3, <1>6, <1>10 DEF Answering
<1>14. /\ Len(clientBuf') + Len(down') <= Answer
       /\ From(clientBuf', clientOffset' * W)
       /\ From(down', clientOffset' * W + Len(clientBuf'))
  <2>1. clientOffset' * W = p
    BY <1>1, <1>7
  <2>2. clientOffset' * W + Len(clientBuf') = p + Len(c)
    BY Zenon, <1>10, <2>1
  <2>3. Len(clientBuf') + Len(down') = Len(c) + Len(e)
    BY Zenon, <1>10
  <2> QED
    BY Zenon, <1>10, <1>11, <1>13, <2>1, <2>2, <2>3
<1>15. /\ started' /\ up' = 0 /\ serverPc' = "wait" /\ serverCurr' = 0
       /\ serverOffset' = clientOffset' + N
  BY <1>1, <1>6 DEF Answering
<1>16. Answering'
  BY <1>14, <1>15 DEF Answering, Answer, From
<1> QED
  BY <1>1, <1>2, <1>12, <1>15, <1>16 DEF IInv, Turns

(* A complete answer in the client's buffer is the whole block at the      *)
(* client's offset and nothing else, FastValidate finds both words it      *)
(* looks at, and the offset moves as the server's will.                    *)
LEMMA CompleteAnswer ==
  ASSUME IInv, ClientOnRecived, Len(clientBuf) >= Answer
  PROVE  /\ Answering
         /\ Len(clientBuf) = Answer /\ down = <<>>
         /\ got' = Netdata(clientOffset, Answer)
         /\ errors' = 0
         /\ clientOffset' = IF clientOffset + N = Size THEN 0 ELSE clientOffset + N
<1>1. TypeOK /\ clientOffset \in Starts
  BY DEF IInv
<1>2. /\ clientBuf \in Seq(Nat) /\ down \in Seq(Nat) /\ clientOffset \in Nat
      /\ Len(clientBuf) \in Nat /\ Len(down) \in Nat
  BY <1>1 DEF TypeOK
<1>3. clientBuf # <<>>
  BY Sizes, <1>2
<1>4. Answering
  BY <1>3 DEF IInv, Turns, Asking
<1>5. Len(clientBuf) = Answer /\ Len(down) = 0
  BY Sizes, <1>2, <1>4 DEF Answering
<1>6. down = <<>>
  BY <1>2, <1>5
<1>7. FastValidate
  BY Sizes, <1>5 DEF ClientOnRecived
<1>8. PICK p \in Nat : p = clientOffset * W
  BY Sizes, <1>2
<1>9. \A i \in 1 .. Answer : clientBuf[i] = p + i - 1
  BY <1>4, <1>5, <1>8 DEF Answering, From
<1>10. got' = Netdata(clientOffset, Answer)
  <2>1. got' = SubSeq(clientBuf, 1, Answer)
    BY <1>7 DEF FastValidate
  <2>2. SubSeq(clientBuf, 1, Answer) = [i \in 1 .. Answer |-> clientBuf[i]]
    BY Sizes, <1>2, <1>5
  <2> QED
    BY <1>8, <1>9, <2>1, <2>2 DEF Netdata
<1>11. Holds(0, clientOffset)
  <2> SUFFICES ASSUME NEW k \in 1 .. W
               PROVE  clientBuf[0 * W + k] = clientOffset * W + k - 1
    BY DEF Holds
  <2>1. 0 * W = 0 /\ k \in 1 .. Answer /\ 0 * W + k = k
    BY Sizes
  <2> QED
    BY <1>8, <1>9, <2>1
<1>12. Holds(N - 1, N + clientOffset - 1)
  <2> SUFFICES ASSUME NEW k \in 1 .. W
               PROVE  clientBuf[(N - 1) * W + k]
                        = (N + clientOffset - 1) * W + k - 1
    BY DEF Holds
  <2>1. PICK q \in Nat : q = (N - 1) * W
    BY Sizes
  <2>2. Answer = q + W
    BY Sizes, <2>1 DEF Answer
  <2>3. (N + clientOffset - 1) * W = q + p
    BY Sizes, <1>2, <1>8, <2>1
  <2>4. q + k \in 1 .. Answer
    BY Sizes, <2>2
  <2> QED
    BY Sizes, <1>9, <2>1, <2>3, <2>4
<1>13. errors' = 0
  BY <1>7, <1>11, <1>12 DEF FastValidate
<1>14. clientOffset + N >= Size <=> clientOffset + N = Size
  BY Sizes, <1>1, <1>2, NextStart
<1>15. clientOffset' = IF clientOffset + N = Size THEN 0 ELSE clientOffset + N
  BY <1>7, <1>14 DEF FastValidate, NextOffset
<1> QED
  BY <1>4, <1>5, <1>6, <1>10, <1>13, <1>15

(* A complete answer ends the client's wait and the next request is all    *)
(* there is on the streams.                                                *)
LEMMA ClientOnRecivedStep == IInv /\ ClientOnRecived => IInv'
<1> SUFFICES ASSUME IInv, ClientOnRecived PROVE IInv'
  OBVIOUS
<1>1. /\ clientPc = "callback" /\ clientPc' = "wait"
      /\ UNCHANGED <<started, down, serverPc, serverCurr, serverOffset>>
  BY DEF ClientOnRecived, serverVars
<1>2. TypeOK /\ clientOffset \in Starts /\ errors = 0
  BY DEF IInv
<1>3. Len(clientBuf) \in Nat /\ clientOffset \in Nat
  BY <1>2 DEF TypeOK
<1>4. Answering
  BY <1>1 DEF IInv, Turns, Asking
<1>5. CASE Len(clientBuf) < Answer
  <2>1. UNCHANGED <<up, clientBuf, clientOffset, errors, got>>
    BY Sizes, <1>3, <1>5 DEF ClientOnRecived
  <2>2. TypeOK'
    BY <1>1, <1>2, <2>1 DEF TypeOK
  <2>3. Answering'
    BY <1>1, <1>4, <2>1 DEF Answering, Answer, From
  <2> QED
    BY <1>1, <1>2, <1>4, <2>1, <2>2, <2>3 DEF IInv, Turns, Answering
<1>6. CASE Len(clientBuf) >= Answer
  <2>1. /\ down = <<>>
        /\ got' = Netdata(clientOffset, Answer)
        /\ errors' = 0
        /\ clientOffset' = IF clientOffset + N = Size THEN 0 ELSE clientOffset + N
    BY <1>6, CompleteAnswer
  <2>2. clientBuf' = <<>> /\ \E n \in Sent(W) : up' = up + n
    BY Sizes, <1>3, <1>6 DEF ClientOnRecived, SendRequest
  <2>3. PICK n \in Nat : up' = n /\ n <= W
    <3>1. PICK n \in Sent(W) : up' = up + n
      BY <2>2
    <3>2. n \in Nat /\ n <= W
      BY Sizes, SentBound
    <3> QED
      BY <1>4, <3>1, <3>2 DEF Answering
  <2>4. serverCurr' = 0 /\ serverOffset' = clientOffset + N
    BY <1>1, <1>4 DEF Answering
  <2>5. up' + serverCurr' <= W
    BY Sizes, <2>3, <2>4
  <2>6. clientOffset + N >= Size <=> clientOffset + N = Size
    BY Sizes, <1>2, <1>3, NextStart
  <2>7. ServerStart' = clientOffset'
    BY <2>1, <2>4, <2>6 DEF ServerStart
  <2>8. clientOffset' \in Starts /\ clientOffset' \in Nat
    <3>1. 0 \in Starts /\ (clientOffset + N # Size => clientOffset + N \in Starts)
      BY <1>2, NextStart
    <3> QED
      BY Sizes, <1>3, <2>1, <3>1
  <2>9. Asking'
    BY <1>1, <2>1, <2>2, <2>5, <2>7 DEF Asking
  <2>10. Netdata(clientOffset, Answer) \in Seq(Nat)
    BY Sizes, <1>3, NetdataFrom
  <2>11. TypeOK'
    BY <1>1, <1>2, <2>1, <2>2, <2>3, <2>8, <2>10 DEF TypeOK
  <2>12. started'
    BY <1>1, <1>4 DEF Answering
  <2> QED
    BY <2>1, <2>8, <2>9, <2>11, <2>12 DEF IInv, Turns
<1> QED
  BY Sizes, <1>3, <1>5, <1>6

(* Every step of Stream keeps the inductive invariant.                     *)
LEMMA StreamStep == IInv /\ [Next]_vars => IInv'
<1>1. ASSUME IInv, UNCHANGED vars PROVE IInv'
  BY <1>1 DEF IInv, TypeOK, Turns, Asking, Answering, Answer, From, ServerStart,
              vars, serverVars, clientVars
<1> QED
  BY <1>1, SetupStep, ServerRecvStep, ServerOnRecivedStep, ClientRecvStep,
     ClientOnRecivedStep DEF Next, Server, Client

(* Client and server take turns, whatever the sizes and the network.       *)
THEOREM StreamInvariant == Spec => []IInv
  BY StreamInit, StreamStep, PTL DEF Spec

(* The buffers, counters and offsets of both sides keep their types.       *)
THEOREM StreamTypeCorrect == Spec => []TypeOK
<1>1. IInv => TypeOK
  BY DEF IInv
<1> QED
  BY <1>1, StreamInvariant, PTL

(* The asserts of Server::OnRecived: never more than one request in the    *)
(* buffer (server.cpp:64), no answer past g_NETDATA (server.cpp:77).       *)
THEOREM AssertsHold == Spec => []ServerAsserts
<1>1. IInv => ServerAsserts
  <2> SUFFICES ASSUME IInv, serverPc = "callback"
               PROVE  serverCurr <= W /\ N <= Size - ServerStart
    BY DEF ServerAsserts
  <2>1. Asking
    BY DEF IInv, Turns, Answering
  <2>2. up \in Nat /\ serverCurr \in Nat
    BY DEF IInv, TypeOK
  <2>3. serverCurr <= W
    BY Sizes, <2>1, <2>2 DEF Asking
  <2>4. clientOffset \in Nat /\ clientOffset + N <= Size
    BY NextStart DEF IInv
  <2> QED
    BY Sizes, <2>1, <2>3, <2>4 DEF Asking
<1> QED
  BY <1>1, StreamInvariant, PTL

(* Client::OnRecived drops no byte when it sets m_CurrRecived to zero.     *)
THEOREM NothingDropped == Spec => []NoExcess
<1>1. IInv => NoExcess
  <2> SUFFICES ASSUME IInv PROVE Len(clientBuf) <= Answer
    BY DEF NoExcess
  <2>1. Len(clientBuf) \in Nat /\ Len(down) \in Nat
    BY DEF IInv, TypeOK
  <2>2. CASE Asking
    BY Sizes, <2>2 DEF Asking
  <2>3. CASE Answering
    BY Sizes, <2>1, <2>3 DEF Answering
  <2> QED
    BY <2>2, <2>3 DEF IInv, Turns
<1> QED
  BY <1>1, StreamInvariant, PTL

(* FastValidate never counts an error.                                     *)
THEOREM ErrorFree == Spec => []NoErrors
<1>1. IInv => NoErrors
  BY DEF IInv, NoErrors
<1> QED
  BY <1>1, StreamInvariant, PTL

(* The connection implements BlockService: the first request is its Ask,   *)
(* a complete answer its Deliver, every other step leaves the blocks alone. *)
THEOREM StreamImplementsBlocks == Spec => BlocksInOrder
<1>1. Init => Blocks!Init
  BY DEF Init, Blocks!Init
<1>2. ASSUME IInv, [Next]_vars PROVE [Blocks!Next]_(Blocks!vars)
  <2>1. CASE Setup
    BY <2>1 DEF Setup, clientVars, Blocks!Next, Blocks!Ask
  <2>2. CASE ServerRecv \/ ServerOnRecived
    BY <2>2 DEF ServerRecv, ServerOnRecived, clientVars, Blocks!vars
  <2>3. CASE ClientRecv
    BY <2>3 DEF ClientRecv, Blocks!vars
  <2>4. CASE ClientOnRecived /\ Len(clientBuf) < Answer
    <3>1. Len(clientBuf) \in Nat
      BY <1>2 DEF IInv, TypeOK
    <3> QED
      BY Sizes, <2>4, <3>1 DEF ClientOnRecived, Blocks!vars
  <2>5. CASE ClientOnRecived /\ Len(clientBuf) >= Answer
    <3>1. /\ started /\ got' = Netdata(clientOffset, Answer)
          /\ clientOffset' = IF clientOffset + N = Size THEN 0 ELSE clientOffset + N
      BY <1>2, <2>5, CompleteAnswer DEF Answering
    <3>2. started' = started
      BY <2>5 DEF ClientOnRecived
    <3>3. Netdata(clientOffset, Answer) = Blocks!Netdata(clientOffset, N * W)
      BY DEF Netdata, Answer, Blocks!Netdata
    <3> QED
      BY <3>1, <3>2, <3>3 DEF Blocks!Next, Blocks!Deliver
  <2>6. CASE UNCHANGED vars
    BY <2>6 DEF vars, clientVars, Blocks!vars
  <2>7. ClientOnRecived => Len(clientBuf) < Answer \/ Len(clientBuf) >= Answer
    BY DEF ClientOnRecived
  <2> QED
    BY <1>2, <2>1, <2>2, <2>3, <2>4, <2>5, <2>6, <2>7 DEF Next, Server, Client
<1> QED
  BY <1>1, <1>2, StreamInvariant, PTL DEF Spec, BlocksInOrder, Blocks!Spec

=============================================================================
