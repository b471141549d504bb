-------------------------- MODULE SSLStreamProofs ---------------------------
(***************************************************************************)
(* Proofs about SSLStream: for every size of an answer, of a record and of *)
(* the array, and wherever TCP cuts the records or a send truncates them,  *)
(* OpenSSL never reads a mutilated record, nothing decrypted is left       *)
(* undelivered, and the connection implements BlockService.                *)
(*                                                                         *)
(* The two sides take turns from the first flight of the handshake on: one *)
(* of them has said something, the other has read a part of it, and there  *)
(* is nothing else in the BIOs and on the wire.  Follows says which part   *)
(* is still to be read.                                                    *)
(***************************************************************************)
EXTENDS SSLStream, Integers, SequenceTheorems, TLAPS

(* The offsets at which a block begins.                                    *)
Starts == {j * N : j \in {i \in Nat : i * N < Size}}

(* What side s has still to read.                                          *)
Rest(s) == bioRecv[s] \o wire[s]

(* A beginning of what follows the first k records of rs.                  *)
Follows(x, rs, k) ==
  /\ 2 * k + Len(x) <= 2 * Len(rs)
  /\ \A i \in 1 .. Len(x) : x[i] = Bytes(rs)[2 * k + i]

AtEase(s) == pc[s] \in {"wait", "read"}

(* Only side s has something to read, of rs and behind k records of it.    *)
Toward(s, rs, k) ==
  /\ AtEase(Other(s))
  /\ \A t \in Sides : bioSend[t] = <<>>
  /\ Rest(Other(s)) = <<>>
  /\ Follows(Rest(s), rs, k)

(* OpenSSL has put rs into the Bio[SEND] of side s, and that is all.       *)
Said(s, rs) ==
  /\ pc[s] = "read" /\ AtEase(Other(s))
  /\ bioSend[s] = Bytes(rs) /\ bioSend[Other(s)] = <<>>
  /\ \A t \in Sides : Rest(t) = <<>>

(* The four flights of the handshake: what each is, who reads it, and      *)
(* where the two sides stand until it is read.                             *)
Kind(k) == CASE k = 1 -> "hello" [] k = 2 -> "serverHello"
             [] k = 3 -> "clientFinished" [] k = 4 -> "finished"
Reader(k) == IF k \in {1, 3} THEN "server" ELSE "client"
ClientAt(k) == IF k <= 2 THEN "hello" ELSE "finish"
ServerAt(k) == CASE k = 1 -> "hello" [] k \in {2, 3} -> "finish" [] k = 4 -> "open"

Shaking(k) ==
  /\ tls["client"] = ClientAt(k)
  /\ tls["server"] = ServerAt(k) \/ (k = 1 /\ tls["server"] = "off")
  /\ pc[Reader(k)] \in {"wait", "read", "off"}
  /\ ~handshaked["client"]
  /\ \/ ~handshaked["server"] /\ Said(Other(Reader(k)), <<Flight(Kind(k))>>)
     \/ /\ handshaked["server"] <=> k = 4
        /\ Toward(Reader(k), <<Flight(Kind(k))>>, 0)

(* Neither side has anything to say or to read.                            *)
Silent == \A t \in Sides : bioSend[t] = <<>> /\ Rest(t) = <<>>

Off ==
  /\ \A t \in Sides : tls[t] = "off"
  /\ \A t \in Sides : ~handshaked[t]
  /\ Silent

(* Both handshakes are over; the client has still to notice.               *)
Ready ==
  /\ \A t \in Sides : tls[t] = "open"
  /\ handshaked["server"] /\ ~handshaked["client"]
  /\ pc["client"] = "read" /\ AtEase("server")
  /\ Silent

Open == \A t \in Sides : tls[t] = "open" /\ handshaked[t]

(* No block has been begun, and the server is where the client expects it. *)
Level == clientBuf = <<>> /\ ServerStart = clientOffset

(* The request is the server's, or being answered...                       *)
Asking ==
  /\ Level
  /\ \/ AtEase("server") /\ serverCurr = 0 /\ Toward("server", <<Request>>, 0)
     \/ pc["server"] = "callback" /\ serverCurr = 1 /\ AtEase("client") /\ Silent

(* ...or k records of the answer from o on are read.                       *)
Answering(o, k) ==
  /\ clientOffset = o /\ serverOffset = o + N /\ serverCurr = 0
  /\ Toward("client", AnswerFrom(o), k)
  /\ Len(clientBuf) = Min2(k * RecordWords, N)
  /\ \A i \in 1 .. Len(clientBuf) : clientBuf[i] = o + i - 1
  /\ IF Len(clientBuf) = N THEN pc["client"] = "callback"
                           ELSE pc["client"] \in {"wait", "read", "callback"}

Before ==
  /\ Off \/ Ready \/ \E k \in 1 .. 4 : Shaking(k)
  /\ Level /\ serverCurr = 0

After == Open /\ (Asking \/ \E o \in Starts, k \in Nat : Answering(o, k))

IInv ==
  /\ TypeOK
  /\ clientOffset \in Starts
  /\ \A s \in Sides : pc[s] = "off" <=> tls[s] = "off"
  /\ Before \/ After

-----------------------------------------------------------------------------
(* The sizes are positive.                                                 *)
LEMMA Sizes ==
  /\ N \in Nat /\ N > 0 /\ Size \in Nat /\ Size > 0
  /\ RecordWords \in Nat /\ RecordWords > 0
BY SSLAssumption

(* There are two sides.                                                    *)
LEMMA TwoSides ==
  /\ Sides = {"client", "server"}
  /\ Other("client") = "server" /\ Other("server") = "client"
<1>1. \A s \in Sides : Other(s) \in Sides /\ Other(s) # s
  <2> SUFFICES ASSUME NEW s \in Sides PROVE Other(s) \in Sides /\ Other(s) # s
    OBVIOUS
  <2>1. \E o \in Sides : o # s
    BY DEF Sides
  <2> QED
    BY <2>1 DEF Other
<1> QED
  BY <1>1 DEF Sides

(* A block that begins inside g_NETDATA ends inside it, and the next       *)
(* block begins where it ends or at the beginning.                         *)
LEMMA NextStart ==
  ASSUME NEW o \in Starts
  PROVE  /\ o \in Nat /\ o < Size /\ o + N <= Size
         /\ o + N # Size => o + N \in Starts
         /\ 0 \in Starts
<1>1. PICK j \in Nat : o = j * N /\ j * N < Size
  BY DEF Starts
<1>2. PICK k \in Nat : Size = k * N
  BY SSLAssumption
<1>3. j < k
  <2> SUFFICES ASSUME k <= j PROVE FALSE
    BY <1>1, <1>2
  <2>1. (j - k) * N >= 0 /\ j * N = k * N + (j - k) * N
    BY Sizes
  <2> QED
    BY <1>1, <1>2, Sizes, <2>1
<1>4. j * N + N <= k * N
  <2>1. (k - j - 1) * N >= 0 /\ k * N = j * N + N + (k - j - 1) * N
    BY Sizes, <1>3
  <2> QED
    BY Sizes, <2>1
<1>5. o + N # Size => o + N \in Starts
  <2> SUFFICES ASSUME o + N # Size PROVE o + N \in Starts
    OBVIOUS
  <2>1. PICK i \in Nat : i = j + 1
    OBVIOUS
  <2>2. i * N = o + N
    BY <1>1, Sizes, <2>1
  <2> QED
    BY Sizes, <1>1, <1>2, <1>4, <2>2 DEF Starts
<1>6. 0 \in Starts
  <2>1. 0 * N = 0
    BY Sizes
  <2> QED
    BY Sizes, <2>1 DEF Starts
<1> QED
  BY Sizes, <1>1, <1>2, <1>4, <1>5, <1>6

(* The two parts of each record, in order.                                 *)
LEMMA BytesOfRecords ==
  ASSUME NEW rs \in Seq(Records)
  PROVE  /\ Bytes(rs) \in Seq(Part) /\ Len(Bytes(rs)) = 2 * Len(rs)
         /\ \A j \in 1 .. Len(rs) :
              /\ Bytes(rs)[2 * j - 1] = [rec |-> rs[j], part |-> 1]
              /\ Bytes(rs)[2 * j] = [rec |-> rs[j], part |-> 2]
<1>1. Len(rs) \in Nat
  OBVIOUS
<1>2. ASSUME NEW i \in 1 .. 2 * Len(rs)
      PROVE  [rec |-> rs[(i + 1) \div 2], part |-> 2 - (i % 2)] \in Part
  <2>1. (i + 1) \div 2 \in 1 .. Len(rs)
    BY <1>1
  <2>2. 2 - (i % 2) \in {1, 2}
    BY <1>1
  <2> QED
    BY <2>1, <2>2 DEF Part
<1>3. Bytes(rs) \in [1 .. 2 * Len(rs) -> Part]
  BY <1>2 DEF Bytes
<1>4. Bytes(rs) \in Seq(Part) /\ Len(Bytes(rs)) = 2 * Len(rs)
  BY <1>1, <1>3
<1>5. ASSUME NEW j \in 1 .. Len(rs)
      PROVE  /\ Bytes(rs)[2 * j - 1] = [rec |-> rs[j], part |-> 1]
             /\ Bytes(rs)[2 * j] = [rec |-> rs[j], part |-> 2]
  <2>1. /\ 2 * j - 1 \in 1 .. 2 * Len(rs) /\ 2 * j \in 1 .. 2 * Len(rs)
        /\ (2 * j - 1 + 1) \div 2 = j /\ (2 * j + 1) \div 2 = j
        /\ (2 * j - 1) % 2 = 1 /\ (2 * j) % 2 = 0
    BY <1>1
  <2> QED
    BY <2>1 DEF Bytes
<1> QED
  BY <1>4, <1>5

(* A record is one of the kinds there are.                                 *)
LEMMA RecordTypes ==
  /\ \A k \in 1 .. 4 : Flight(Kind(k)) \in Records
  /\ Request \in Records
  /\ \A r \in Records : r.kind = "data" => r.from \in Nat /\ r.len \in Nat
<1>1. \A k \in 1 .. 4 : Flight(Kind(k)) \in Records
  BY DEF Kind, Records
<1>2. Request \in Records
  BY DEF Request, Records
<1> QED
  BY <1>1, <1>2 DEF Records, Flight

(* Sequences of one record and of none.                                    *)
LEMMA OneRecord ==
  ASSUME NEW r \in Records
  PROVE  <<r>> \in Seq(Records) /\ Len(<<r>>) = 1 /\ <<r>>[1] = r
OBVIOUS

(* No records, no bytes.                                                   *)
LEMMA NoRecord == <<>> \in Seq(Records) /\ Bytes(<<>>) = <<>>
<1>1. <<>> \in Seq(Records) /\ Len(<<>>) = 0
  OBVIOUS
<1>2. PICK x : x = Bytes(<<>>)
  OBVIOUS
<1>3. x \in Seq(Part) /\ Len(x) = 0
  <2>1. PICK rs \in Seq(Records) : rs = <<>> /\ Len(rs) = 0
    BY <1>1
  <2>2. Bytes(rs) \in Seq(Part) /\ Len(Bytes(rs)) = 2 * Len(rs)
    BY BytesOfRecords
  <2> QED
    BY <1>2, <2>1, <2>2
<1> QED
  BY <1>1, <1>2, <1>3

(* A flight is not empty.                                                  *)
LEMMA FlightSaid ==
  ASSUME NEW k \in 1 .. 4
  PROVE  Bytes(<<Flight(Kind(k))>>) # <<>>
<1>1. PICK rs \in Seq(Records) : rs = <<Flight(Kind(k))>> /\ Len(rs) = 1
  BY RecordTypes, OneRecord
<1>2. Len(Bytes(rs)) = 2
  <2>1. Len(Bytes(rs)) = 2 * Len(rs)
    BY BytesOfRecords
  <2> QED
    BY <1>1, <2>1
<1>3. Len(Bytes(rs)) # Len(<<>>)
  BY <1>2
<1> QED
  BY Zenon, <1>1, <1>3

(* The records of an answer: their number is the least that N words need.  *)
LEMMA AnswerRecords ==
  ASSUME NEW o \in Nat
  PROVE  /\ AnswerFrom(o) \in Seq(Records)
         /\ \A i \in 1 .. Len(AnswerFrom(o)) :
              /\ i * RecordWords = (i - 1) * RecordWords + RecordWords
              /\ (i - 1) * RecordWords \in Nat
              /\ (i - 1) * RecordWords < N
              /\ AnswerFrom(o)[i].kind = "data"
              /\ AnswerFrom(o)[i].from = o + (i - 1) * RecordWords
              /\ AnswerFrom(o)[i].len = Min2(RecordWords, N - (i - 1) * RecordWords)
         /\ \A k \in Nat : k * RecordWords >= N => k >= Len(AnswerFrom(o))
<1> DEFINE n == (N + RecordWords - 1) \div RecordWords
<1>1. n \in Nat /\ n * RecordWords <= N + RecordWords - 1
  BY Sizes
<1> HIDE DEF n
<1>2. ASSUME NEW i \in 1 .. n
      PROVE  /\ i * RecordWords = (i - 1) * RecordWords + RecordWords
             /\ (i - 1) * RecordWords \in Nat
             /\ (i - 1) * RecordWords < N
  <2>1. /\ i * RecordWords = (i - 1) * RecordWords + RecordWords
        /\ (i - 1) * RecordWords \in Nat
    BY Sizes, <1>1
  <2>2. (n - i) * RecordWords >= 0 /\ n * RecordWords = i * RecordWords + (n - i) * RecordWords
    BY Sizes, <1>1
  <2>3. i * RecordWords \in Nat /\ (n - i) * RecordWords \in Nat /\ n * RecordWords \in Nat
    BY Sizes, <1>1
  <2> QED
    BY Sizes, <1>1, <2>1, <2>2, <2>3
<1> DEFINE rec(i) == [kind |-> "data", from |-> o + (i - 1) * RecordWords,
                      len |-> Min2(RecordWords, N - (i - 1) * RecordWords)]
<1>3. ASSUME NEW i \in 1 .. n PROVE rec(i) \in Records
  <2>1. PICK q \in Nat : q = (i - 1) * RecordWords /\ q < N
    BY <1>2
  <2>2. o + q \in Nat /\ Min2(RecordWords, N - q) \in Nat
    BY Sizes, <2>1 DEF Min2
  <2> QED
    BY <2>1, <2>2 DEF Records
<1>4. AnswerFrom(o) = [i \in 1 .. n |-> rec(i)]
  BY DEF AnswerFrom, n
<1>5. AnswerFrom(o) \in Seq(Records) /\ Len(AnswerFrom(o)) = n
  <2> HIDE DEF rec
  <2>1. AnswerFrom(o) \in [1 .. n -> Records]
    BY <1>3, <1>4
  <2> QED
    BY <1>1, <2>1
<1>6. ASSUME NEW k \in Nat, k * RecordWords >= N PROVE k >= n
  <2> SUFFICES ASSUME k + 1 \in 1 .. n PROVE FALSE
    BY <1>1
  <2>1. (k + 1 - 1) * RecordWords < N
    BY <1>2
  <2>2. k + 1 - 1 = k
    OBVIOUS
  <2>3. k * RecordWords \in Nat
    BY Sizes
  <2> QED
    BY Sizes, <1>6, <2>1, <2>2, <2>3
<1>7. ASSUME NEW i \in 1 .. n
      PROVE  /\ AnswerFrom(o)[i].kind = "data"
             /\ AnswerFrom(o)[i].from = o + (i - 1) * RecordWords
             /\ AnswerFrom(o)[i].len = Min2(RecordWords, N - (i - 1) * RecordWords)
  BY <1>4
<1> QED
  BY <1>2, <1>5, <1>6, <1>7

-----------------------------------------------------------------------------
(* TypeOK by its parts.                                                    *)
StreamsOK ==
  /\ bioRecv \in [Sides -> Seq(Part)]
  /\ bioSend \in [Sides -> Seq(Part)]
  /\ wire \in [Sides -> Seq(Part)]

HandlersOK ==
  /\ pc \in [Sides -> {"off", "wait", "read", "callback", "dead"}]
  /\ tls \in [Sides -> {"off", "hello", "finish", "open"}]
  /\ handshaked \in [Sides -> BOOLEAN]
  /\ cut \in BOOLEAN

BlocksOK ==
  /\ serverCurr \in Nat
  /\ serverOffset \in 0 .. Size
  /\ clientBuf \in Seq(Nat)
  /\ clientOffset \in 0 .. Size - 1
  /\ got \in Seq(Nat)

(* TypeOK, part by part.                                                   *)
LEMMA TypeParts == TypeOK <=> StreamsOK /\ HandlersOK /\ BlocksOK
BY DEF TypeOK, StreamsOK, HandlersOK, BlocksOK

(* What arrives was to be read before and still is.                        *)
LEMMA Received ==
  ASSUME StreamsOK, NEW s \in Sides, Receive(s)
  PROVE  /\ StreamsOK'
         /\ Rest(s) # <<>>
         /\ \A t \in Sides : Rest(t)' = Rest(t)
<1>1. PICK n \in 1 .. Len(wire[s]) :
        /\ bioRecv' = [bioRecv EXCEPT ![s] = @ \o SubSeq(wire[s], 1, n)]
        /\ wire' = [wire EXCEPT ![s] = SubSeq(@, n + 1, Len(@))]
  BY DEF Receive
<1>2. PICK b \in Seq(Part), x \in Seq(Part) : b = bioRecv[s] /\ x = wire[s]
  BY DEF StreamsOK
<1>3. Len(x) \in Nat /\ n \in 1 .. Len(x)
  BY <1>1, <1>2
<1>4. PICK x1 \in Seq(Part), x2 \in Seq(Part) :
        x1 = SubSeq(x, 1, n) /\ x2 = SubSeq(x, n + 1, Len(x))
  <2>1. SubSeq(x, 1, n) \in Seq(Part)
    BY <1>3
  <2>2. SubSeq(x, n + 1, Len(x)) \in Seq(Part)
    BY <1>3
  <2> QED
    BY <2>1, <2>2
<1>5. x1 \o x2 = x
  <2>1. 1 \in 1 .. Len(x) + 1 /\ n \in 1 - 1 .. Len(x) /\ Len(x) \in n .. Len(x)
    BY <1>3
  <2>2. SubSeq(x, 1, n) \o SubSeq(x, n + 1, Len(x)) = SubSeq(x, 1, Len(x))
    BY <2>1, ConcatAdjacentSubSeq
  <2> QED
    BY <1>4, <2>2, SubSeqFull
<1>6. /\ bioRecv' = [bioRecv EXCEPT ![s] = b \o x1]
      /\ wire' = [wire EXCEPT ![s] = x2]
  BY <1>1, <1>2, <1>4
<1>7. b \o x1 \in Seq(Part)
  OBVIOUS
<1>8. StreamsOK'
  <2>1. bioSend' = bioSend
    BY DEF Receive
  <2> QED
    BY <1>6, <1>7, <2>1 DEF StreamsOK
<1>9. bioRecv'[s] = b \o x1 /\ wire'[s] = x2
  BY <1>6 DEF StreamsOK
<1>10. Rest(s)' = Rest(s)
  <2>1. (b \o x1) \o x2 = b \o (x1 \o x2)
    BY ConcatAssociative
  <2> QED
    BY Zenon, <1>2, <1>5, <1>9, <2>1 DEF Rest
<1>11. \A t \in Sides : t # s => bioRecv'[t] = bioRecv[t] /\ wire'[t] = wire[t]
  BY <1>6 DEF StreamsOK
<1>12. Rest(s) # <<>>
  <2>1. x # <<>>
    BY <1>3
  <2> QED
    BY <1>2, <2>1, ConcatEqualIffEmpty DEF Rest
<1> QED
  BY Zenon, <1>8, <1>10, <1>11, <1>12 DEF Rest

(* A record that has arrived is the next one, and it is whole.             *)
LEMMA Arrived ==
  ASSUME StreamsOK, NEW s \in Sides, RecordArrived(s),
         NEW rs \in Seq(Records), NEW k \in Nat, Follows(Rest(s), rs, k)
  PROVE  /\ k + 1 \in 1 .. Len(rs)
         /\ RecordOf(s) = rs[k + 1]
         /\ Sound(s)
<1>1. PICK b \in Seq(Part), x \in Seq(Part) : b = bioRecv[s] /\ x = wire[s]
  BY DEF StreamsOK
<1>2. Len(b) \in Nat /\ Len(b) >= 2 /\ Len(x) \in Nat /\ Len(rs) \in Nat
  BY <1>1 DEF RecordArrived
<1>3. /\ Len(b \o x) = Len(b) + Len(x)
      /\ (b \o x)[1] = b[1] /\ (b \o x)[2] = b[2]
  BY <1>2, ConcatProperties
<1>4. k + 1 \in 1 .. Len(rs)
  <2>1. 2 * k + Len(b \o x) <= 2 * Len(rs)
    BY <1>1 DEF Follows, Rest
  <2> QED
    BY <1>2, <1>3, <2>1
<1>5. b[1] = Bytes(rs)[2 * k + 1] /\ b[2] = Bytes(rs)[2 * k + 2]
  <2>1. 1 \in 1 .. Len(b \o x) /\ 2 \in 1 .. Len(b \o x)
    BY <1>2, <1>3
  <2> QED
    BY <1>1, <1>3, <2>1 DEF Follows, Rest
<1>6. /\ Bytes(rs)[2 * (k + 1) - 1] = [rec |-> rs[k + 1], part |-> 1]
      /\ Bytes(rs)[2 * (k + 1)] = [rec |-> rs[k + 1], part |-> 2]
  BY <1>4, BytesOfRecords
<1>7. 2 * (k + 1) - 1 = 2 * k + 1 /\ 2 * (k + 1) = 2 * k + 2
  OBVIOUS
<1>8. b[1] = [rec |-> rs[k + 1], part |-> 1] /\ b[2] = [rec |-> rs[k + 1], part |-> 2]
  BY <1>5, <1>6, <1>7
<1> QED
  BY <1>1, <1>4, <1>8 DEF RecordOf, Sound

(* Reading it leaves what follows it.                                      *)
LEMMA Consumed ==
  ASSUME StreamsOK, NEW s \in Sides, RecordArrived(s), Consume(s), wire' = wire,
         NEW rs \in Seq(Records), NEW k \in Nat, Follows(Rest(s), rs, k)
  PROVE  /\ bioRecv' \in [Sides -> Seq(Part)]
         /\ Follows(Rest(s)', rs, k + 1)
         /\ k + 1 = Len(rs) => Rest(s)' = <<>>
         /\ \A t \in Sides : t # s => Rest(t)' = Rest(t)
<1>1. PICK b \in Seq(Part), x \in Seq(Part) : b = bioRecv[s] /\ x = wire[s]
  BY DEF StreamsOK
<1>2. Len(b) \in Nat /\ Len(b) >= 2 /\ Len(x) \in Nat /\ Len(rs) \in Nat
  BY <1>1 DEF RecordArrived
<1>3. PICK c \in Seq(Part) :
        /\ c = SubSeq(b, 3, Len(b)) /\ Len(c) = Len(b) - 2
        /\ \A i \in 1 .. Len(c) : c[i] = b[i + 2]
  <2>0. PICK m \in Nat : m = Len(b) /\ m >= 2
    BY <1>2
  <2>1. \A i \in 3 .. m : b[i] \in Part
    BY <2>0
  <2>2. PICK c : c = SubSeq(b, 3, m)
    OBVIOUS
  <2>3. /\ c \in Seq(Part)
        /\ Len(c) = IF 3 <= m THEN m - 3 + 1 ELSE 0
        /\ \A i \in 1 .. m - 3 + 1 : c[i] = b[3 + i - 1]
    BY <2>0, <2>1, <2>2, SubSeqProperties
  <2>4. Len(c) = m - 2
    BY <2>0, <2>3
  <2>5. \A i \in 1 .. Len(c) : c[i] = b[i + 2]
    BY <2>0, <2>3, <2>4
  <2> QED
    BY <2>0, <2>2, <2>3, <2>4, <2>5
<1>4. bioRecv' = [bioRecv EXCEPT ![s] = c]
  BY <1>1, <1>3 DEF Consume
<1>5. bioRecv' \in [Sides -> Seq(Part)] /\ bioRecv'[s] = c
  BY <1>4 DEF StreamsOK
<1>6. PICK y, z : y = b \o x /\ z = c \o x
  OBVIOUS
<1>7. /\ Len(y) = Len(b) + Len(x)
      /\ \A i \in 1 .. Len(y) : y[i] = IF i <= Len(b) THEN b[i] ELSE x[i - Len(b)]
  BY <1>6, ConcatProperties
<1>8. /\ Len(z) = Len(c) + Len(x)
      /\ \A i \in 1 .. Len(z) : z[i] = IF i <= Len(c) THEN c[i] ELSE x[i - Len(c)]
  BY <1>6, ConcatProperties
<1>9. Len(z) = Len(y) - 2 /\ \A i \in 1 .. Len(z) : z[i] = y[i + 2]
  <2>1. Len(z) = Len(y) - 2 /\ Len(c) \in Nat /\ Len(z) \in Nat
    BY <1>2, <1>3, <1>7, <1>8
  <2>2. ASSUME NEW i \in 1 .. Len(z) PROVE z[i] = y[i + 2]
    <3>1. i + 2 \in 1 .. Len(y)
      BY <1>2, <1>7, <2>1
    <3>2. CASE i <= Len(c)
      <4>1. i \in 1 .. Len(c) /\ i + 2 <= Len(b)
        BY <1>2, <1>3, <3>2
      <4>2. z[i] = c[i] /\ c[i] = b[i + 2] /\ y[i + 2] = b[i + 2]
        BY <1>3, <1>7, <1>8, <3>1, <4>1
      <4> QED
        BY <4>2
    <3>3. CASE i > Len(c)
      <4>1. /\ i \in Nat /\ Len(b) = Len(c) + 2
            /\ ~(i <= Len(c)) /\ ~(i + 2 <= Len(b))
        BY <1>2, <1>3, <2>1, <3>3
      <4>2. z[i] = x[i - Len(c)] /\ y[i + 2] = x[i + 2 - Len(b)]
        BY <1>7, <1>8, <3>1, <4>1
      <4>3. i + 2 - Len(b) = i - Len(c)
        BY <2>1, <4>1
      <4> QED
        BY <4>2, <4>3
    <3> QED
      BY <1>2, <1>3, <3>2, <3>3
  <2> QED
    BY <2>1, <2>2
<1>10. Rest(s) = y /\ Rest(s)' = z
  BY <1>1, <1>5, <1>6 DEF Rest
<1>11. Follows(z, rs, k + 1)
  <2>1. 2 * k + Len(y) <= 2 * Len(rs) /\ \A i \in 1 .. Len(y) : y[i] = Bytes(rs)[2 * k + i]
    BY <1>10 DEF Follows
  <2>2. Len(y) \in Nat /\ Len(z) \in Nat
    BY <1>2, <1>3, <1>7, <1>8
  <2>3. ASSUME NEW i \in 1 .. Len(z) PROVE z[i] = Bytes(rs)[2 * (k + 1) + i]
    <3>1. i + 2 \in 1 .. Len(y) /\ 2 * k + (i + 2) = 2 * (k + 1) + i
      BY <1>9, <2>2
    <3> QED
      BY <1>9, <2>1, <3>1
  <2>4. 2 * (k + 1) + Len(z) <= 2 * Len(rs)
    BY <1>2, <1>9, <2>1, <2>2
  <2> QED
    BY <2>3, <2>4 DEF Follows
<1>12. k + 1 = Len(rs) => z = <<>>
  <2> SUFFICES ASSUME k + 1 = Len(rs) PROVE z = <<>>
    OBVIOUS
  <2>1. z \in Seq(Part)
    BY <1>6
  <2>2. Len(z) = 0
    BY <1>2, <1>11, <2>1 DEF Follows
  <2> QED
    BY <2>1, <2>2
<1>13. \A t \in Sides : t # s => bioRecv'[t] = bioRecv[t]
  BY <1>4 DEF StreamsOK
<1> QED
  BY Zenon, <1>5, <1>10, <1>11, <1>12, <1>13 DEF Rest

(* A send empties Bio[SEND] onto the other side's wire.                    *)
LEMMA Sends ==
  ASSUME StreamsOK, NEW s \in Sides, NEW new \in Seq(Part), bioRecv' = bioRecv,
         SSLProcessingSend(s, new)
  PROVE  /\ StreamsOK'
         /\ bioSend'[s] = <<>> /\ bioSend'[Other(s)] = bioSend[Other(s)]
         /\ Rest(s)' = Rest(s)
         /\ \E n \in 0 .. Len(bioSend[s] \o new) :
              Rest(Other(s))' = Rest(Other(s)) \o SubSeq(bioSend[s] \o new, 1, n)
<1>0. Other(s) \in Sides /\ Other(s) # s
  BY TwoSides
<1>1. PICK all \in Seq(Part) : all = bioSend[s] \o new
  <2>1. bioSend[s] \in Seq(Part)
    BY DEF StreamsOK
  <2>2. bioSend[s] \o new \in Seq(Part)
    BY <2>1, ConcatProperties
  <2> QED
    BY Zenon, <2>2
<1>2. PICK n \in 0 .. Len(all) :
        /\ bioSend' = [bioSend EXCEPT ![s] = <<>>]
        /\ wire' = [wire EXCEPT ![Other(s)] = @ \o SubSeq(all, 1, n)]
  <2>1. Sent(Len(all)) \subseteq 0 .. Len(all)
    BY DEF Sent
  <2> QED
    BY <1>1, <2>1 DEF SSLProcessingSend, Left
<1>3. PICK x \in Seq(Part) : x = SubSeq(all, 1, n)
  <2>1. SubSeq(all, 1, n) \in Seq(Part)
    BY <1>2
  <2> QED
    BY <2>1
<1>4. PICK b \in Seq(Part), y \in Seq(Part) : b = bioRecv[Other(s)] /\ y = wire[Other(s)]
  BY <1>0 DEF StreamsOK
<1>5. wire' = [wire EXCEPT ![Other(s)] = y \o x]
  BY <1>2, <1>3, <1>4
<1>6. <<>> \in Seq(Part) /\ y \o x \in Seq(Part)
  OBVIOUS
<1>7. /\ bioSend'[s] = <<>> /\ bioSend'[Other(s)] = bioSend[Other(s)]
      /\ wire'[s] = wire[s] /\ wire'[Other(s)] = y \o x
  BY <1>0, <1>2, <1>5 DEF StreamsOK
<1>8. StreamsOK'
  BY <1>2, <1>5, <1>6 DEF StreamsOK
<1>9. (b \o y) \o x = b \o (y \o x)
  BY ConcatAssociative
<1>10. Rest(Other(s))' = Rest(Other(s)) \o x
  BY Zenon, <1>4, <1>7, <1>9 DEF Rest
<1>11. Rest(s)' = Rest(s)
  BY Zenon, <1>7 DEF Rest
<1> QED
  BY Zenon, <1>1, <1>3, <1>7, <1>8, <1>10, <1>11

(* With nothing to say a send changes nothing...                           *)
LEMMA SaysNothing ==
  ASSUME StreamsOK, NEW s \in Sides, bioSend[s] = <<>>, bioRecv' = bioRecv,
         SSLProcessingSend(s, <<>>)
  PROVE  /\ StreamsOK'
         /\ \A t \in Sides : bioSend'[t] = bioSend[t] /\ Rest(t)' = Rest(t)
<1>1. <<>> \in Seq(Part) /\ bioSend[s] \o <<>> = <<>> /\ Len(<<>>) = 0
  OBVIOUS
<1>2. /\ StreamsOK'
      /\ bioSend'[s] = <<>> /\ bioSend'[Other(s)] = bioSend[Other(s)]
      /\ Rest(s)' = Rest(s)
      /\ \E n \in 0 .. 0 : Rest(Other(s))' = Rest(Other(s)) \o SubSeq(<<>>, 1, n)
  BY <1>1, Sends
<1>3. SubSeq(<<>>, 1, 0) = <<>>
  BY SubSeqEmpty
<1>4. Rest(Other(s)) \in Seq(Part)
  BY TwoSides DEF Rest, StreamsOK
<1>5. Rest(Other(s))' = Rest(Other(s))
  <2>1. Rest(Other(s)) \o <<>> = Rest(Other(s))
    BY <1>4
  <2>2. \A n \in 0 .. 0 : n = 0
    OBVIOUS
  <2> QED
    BY Zenon, <1>2, <1>3, <2>1, <2>2
<1> QED
  BY Zenon, <1>2, <1>5, TwoSides DEF Sides

(* ...and when nobody has anything to read, it makes the other side read   *)
(* a beginning of what it says.                                            *)
LEMMA Speaks ==
  ASSUME StreamsOK, NEW s \in Sides, NEW new \in Seq(Part), bioRecv' = bioRecv,
         SSLProcessingSend(s, new),
         NEW rs \in Seq(Records), bioSend[s] \o new = Bytes(rs),
         \A t \in Sides : Rest(t) = <<>>, bioSend[Other(s)] = <<>>
  PROVE  /\ StreamsOK'
         /\ \A t \in Sides : bioSend'[t] = <<>>
         /\ Rest(s)' = <<>>
         /\ Follows(Rest(Other(s))', rs, 0)
<1>1. /\ StreamsOK'
      /\ bioSend'[s] = <<>> /\ bioSend'[Other(s)] = bioSend[Other(s)]
      /\ Rest(s)' = Rest(s)
  BY Sends
<1>2. /\ Bytes(rs) \in Seq(Part) /\ Len(Bytes(rs)) = 2 * Len(rs)
      /\ Len(rs) \in Nat
  <2>1. Len(rs) \in Nat
    OBVIOUS
  <2> QED
    BY Zenon, <2>1, BytesOfRecords
<1>3. PICK n \in 0 .. Len(Bytes(rs)) :
        Rest(Other(s))' = Rest(Other(s)) \o SubSeq(Bytes(rs), 1, n)
  BY Sends
<1>4. PICK x \in Seq(Part) :
        /\ x = SubSeq(Bytes(rs), 1, n) /\ Len(x) = n
        /\ \A i \in 1 .. Len(x) : x[i] = Bytes(rs)[i]
  <2>1. PICK all \in Seq(Part) : all = Bytes(rs)
    BY <1>2
  <2>2. /\ SubSeq(all, 1, n) \in Seq(Part) /\ Len(SubSeq(all, 1, n)) = n
        /\ \A i \in 1 .. n : SubSeq(all, 1, n)[i] = all[i]
    BY <1>2, <1>3, <2>1
  <2> QED
    BY <2>1, <2>2
<1>5. Rest(Other(s))' = x
  <2>1. Other(s) \in Sides /\ <<>> \o x = x
    BY TwoSides
  <2> QED
    BY Zenon, <1>3, <1>4, <2>1
<1>6. Follows(x, rs, 0)
  <2>1. 2 * 0 + Len(x) <= 2 * Len(rs)
    BY <1>2, <1>3, <1>4
  <2>2. \A i \in 1 .. Len(x) : 2 * 0 + i = i
    OBVIOUS
  <2> QED
    BY <1>4, <2>1, <2>2 DEF Follows
<1> QED
  BY <1>1, <1>5, <1>6, TwoSides DEF Sides

-----------------------------------------------------------------------------
(* The handshake in a table.                                               *)
LEMMA Stages ==
  /\ Kind(1) = "hello" /\ Reader(1) = "server"
  /\ ClientAt(1) = "hello" /\ ServerAt(1) = "hello"
  /\ Kind(2) = "serverHello" /\ Reader(2) = "client"
  /\ ClientAt(2) = "hello" /\ ServerAt(2) = "finish"
  /\ Kind(3) = "clientFinished" /\ Reader(3) = "server"
  /\ ClientAt(3) = "finish" /\ ServerAt(3) = "finish"
  /\ Kind(4) = "finished" /\ Reader(4) = "client"
  /\ ClientAt(4) = "finish" /\ ServerAt(4) = "open"
BY DEF Kind, Reader, ClientAt, ServerAt

(* Toward in the next state.                                               *)
LEMMA TowardNext ==
  ASSUME NEW s \in Sides, NEW rs \in Seq(Records), NEW k \in Nat,
         AtEase(Other(s))', \A t \in Sides : bioSend'[t] = <<>>,
         Rest(Other(s))' = <<>>, Follows(Rest(s)', rs, k)
  PROVE  Toward(s, rs, k)'
BY DEF Toward, Follows

(* The first flight.                                                       *)
LEMMA ConnectStep == IInv /\ Connect => IInv'
<1> SUFFICES ASSUME IInv, Connect PROVE IInv'
  OBVIOUS
<1>1. StreamsOK /\ HandlersOK /\ BlocksOK
  BY TypeParts DEF IInv
<1>2. /\ pc["client"] = "off" /\ tls["client"] = "off"
      /\ pc' = [pc EXCEPT !["client"] = "wait"]
      /\ tls' = [tls EXCEPT !["client"] = "hello"]
      /\ UNCHANGED <<handshaked, bioRecv, serverCurr, serverOffset, clientBuf,
                     clientOffset, got>>
      /\ SSLProcessingSend("client", Bytes(<<Flight("hello")>>))
  BY TwoSides DEF Connect, IInv, serverVars, clientVars
<1>3. Off /\ Level /\ serverCurr = 0
  <2>1. ~After /\ ~Ready
    BY <1>2, TwoSides DEF After, Open, Ready
  <2>2. ASSUME NEW k \in 1 .. 4 PROVE ~Shaking(k)
    BY <1>2 DEF Shaking, ClientAt
  <2> QED
    BY <2>1, <2>2 DEF IInv, Before
<1>4. PICK rs \in Seq(Records) : rs = <<Flight("hello")>>
  <2>1. Flight(Kind(1)) \in Records
    BY RecordTypes
  <2>2. Flight("hello") \in Records
    BY Zenon, <2>1, Stages
  <2> QED
    BY Zenon, <2>2, OneRecord
<1>5. /\ StreamsOK'
      /\ \A t \in Sides : bioSend'[t] = <<>>
      /\ Rest("client")' = <<>>
      /\ Follows(Rest("server")', rs, 0)
  <2>1. Bytes(rs) \in Seq(Part)
    BY BytesOfRecords
  <2>2. bioSend["client"] \o Bytes(rs) = Bytes(rs)
    BY <1>3, <2>1, TwoSides DEF Off, Silent
  <2>3. \A t \in Sides : Rest(t) = <<>> /\ bioSend[t] = <<>>
    BY <1>3 DEF Off, Silent
  <2> QED
    BY <1>1, <1>2, <1>4, <2>1, <2>2, <2>3, Speaks, TwoSides
<1>6. HandlersOK' /\ BlocksOK'
  <2>1. cut' \in BOOLEAN
    BY <1>1, <1>2 DEF SSLProcessingSend, HandlersOK
  <2> QED
    BY <1>1, <1>2, <2>1, TwoSides DEF HandlersOK, BlocksOK
<1>7. pc'["client"] = "wait" /\ tls'["client"] = "hello"
  BY <1>1, <1>2, TwoSides DEF HandlersOK
<1>8. pc'["server"] = "off" /\ tls'["server"] = "off"
  BY <1>1, <1>2, <1>3, TwoSides DEF HandlersOK, Off, IInv
<1>9. Shaking(1)'
  <2>1. Toward("server", rs, 0)'
    BY <1>5, <1>7, TwoSides, TowardNext DEF AtEase
  <2>2. Toward("server", <<Flight(Kind(1))>>, 0)'
    BY <1>4, <2>1, Stages
  <2>3. ~handshaked'["client"] /\ ~handshaked'["server"]
    BY <1>2, <1>3, TwoSides DEF Off
  <2> QED
    BY <1>7, <1>8, <2>2, <2>3, Stages DEF Shaking
<1>10. Level' /\ serverCurr' = 0 /\ clientOffset' \in Starts
  BY <1>2, <1>3 DEF Level, ServerStart, IInv
<1>11. TypeOK'
  BY <1>5, <1>6 DEF TypeOK, StreamsOK, HandlersOK, BlocksOK
<1>12. \A s \in Sides : pc'[s] = "off" <=> tls'[s] = "off"
  BY <1>7, <1>8, TwoSides
<1> QED
  BY <1>9, <1>10, <1>11, <1>12 DEF IInv, Before

(* Who finds something to read is the one that reads in turn.              *)
LEMMA ReadersTurn ==
  ASSUME IInv, NEW s \in Sides, Rest(s) # <<>>, pc[s] # "callback"
  PROVE  \/ /\ Before
            /\ \E k \in 1 .. 4 :
                 /\ s = Reader(k) /\ Shaking(k)
                 /\ Toward(s, <<Flight(Kind(k))>>, 0)
                 /\ handshaked["server"] <=> k = 4
         \/ /\ After /\ s = "server" /\ Asking
            /\ Toward("server", <<Request>>, 0) /\ serverCurr = 0
         \/ /\ After /\ s = "client"
            /\ \E o \in Starts, k \in Nat : Answering(o, k)
<1>1. CASE Before
  <2>1. ~Off /\ ~Ready
    BY DEF Off, Ready, Silent
  <2>2. PICK k \in 1 .. 4 : Shaking(k)
    BY <1>1, <2>1 DEF Before
  <2>3. ~Said(Other(Reader(k)), <<Flight(Kind(k))>>)
    BY DEF Said
  <2>4. /\ Toward(Reader(k), <<Flight(Kind(k))>>, 0)
        /\ handshaked["server"] <=> k = 4
    BY <2>2, <2>3 DEF Shaking
  <2>5. s = Reader(k)
    <3>1. Rest(Other(Reader(k))) = <<>>
      BY <2>4 DEF Toward
    <3> QED
      BY <3>1, TwoSides DEF Reader
  <2> QED
    BY <1>1, <2>2, <2>4, <2>5
<1>2. CASE After /\ Asking
  <2>1. ~Silent
    BY DEF Silent
  <2>2. Toward("server", <<Request>>, 0) /\ serverCurr = 0
    BY <1>2, <2>1 DEF Asking
  <2>3. s = "server"
    BY <2>2, TwoSides DEF Toward
  <2> QED
    BY <1>2, <2>2, <2>3
<1>3. ASSUME After, NEW o \in Starts, NEW k \in Nat, Answering(o, k)
      PROVE  s = "client"
  BY <1>3, TwoSides DEF Answering, Toward
<1> QED
  BY <1>1, <1>2, <1>3 DEF IInv, After

(* TCP brings some of what is on its way.                                  *)
LEMMA ReceiveStep ==
  ASSUME IInv, NEW s \in Sides, Receive(s),
         \/ pc[s] = "wait" /\ tls' = tls
         \/ s = "server" /\ pc[s] = "off" /\ tls' = [tls EXCEPT ![s] = "hello"]
  PROVE  IInv'
<1>1. StreamsOK /\ HandlersOK /\ BlocksOK
  BY TypeParts DEF IInv
<1>2. /\ pc' = [pc EXCEPT ![s] = "read"]
      /\ UNCHANGED <<handshaked, bioSend, cut, serverCurr, serverOffset, clientBuf,
                     clientOffset, got>>
  BY DEF Receive, serverVars, clientVars
<1>3. StreamsOK' /\ Rest(s) # <<>> /\ \A t \in Sides : Rest(t)' = Rest(t)
  BY <1>1, Received
<1>4. HandlersOK' /\ BlocksOK'
  BY <1>1, <1>2 DEF HandlersOK, BlocksOK
<1>5. TypeOK'
  BY <1>3, <1>4 DEF TypeOK, StreamsOK, HandlersOK, BlocksOK
<1>6. /\ pc'[s] = "read" /\ \A t \in Sides : t # s => pc'[t] = pc[t] /\ tls'[t] = tls[t]
      /\ tls'[s] = tls[s] \/ (s = "server" /\ tls[s] = "off" /\ tls'[s] = "hello")
  BY <1>1, <1>2 DEF HandlersOK, IInv
<1>7. \A t \in Sides : pc'[t] = "off" <=> tls'[t] = "off"
  <2>1. \A t \in Sides : pc[t] = "off" <=> tls[t] = "off"
    BY DEF IInv
  <2>2. tls'[s] # "off"
    BY <1>1, <2>1 DEF HandlersOK
  <2> QED
    BY <1>6, <2>1, <2>2
<1>8. clientOffset' \in Starts
  BY <1>2 DEF IInv
<1>9. ASSUME NEW rs, NEW k, NEW t \in Sides, Toward(t, rs, k)
      PROVE  Toward(t, rs, k)'
  <2>1. AtEase(Other(t))'
    BY <1>6, <1>9, TwoSides DEF Toward, AtEase
  <2> QED
    BY <1>2, <1>3, <1>9, <2>1, TwoSides DEF Toward, Follows
<1>10. pc[s] # "callback"
  OBVIOUS
<1>11. CASE /\ Before
            /\ \E k \in 1 .. 4 :
                 /\ s = Reader(k) /\ Shaking(k)
                 /\ Toward(s, <<Flight(Kind(k))>>, 0)
                 /\ handshaked["server"] <=> k = 4
  <2>1. PICK k \in 1 .. 4 :
          /\ s = Reader(k) /\ Shaking(k)
          /\ Toward(s, <<Flight(Kind(k))>>, 0)
          /\ handshaked["server"] <=> k = 4
    BY <1>11
  <2>2. Toward(Reader(k), <<Flight(Kind(k))>>, 0)'
    BY <1>9, <2>1
  <2>3. /\ tls'["client"] = ClientAt(k)
        /\ tls'["server"] = ServerAt(k) \/ (k = 1 /\ tls'["server"] = "off")
    BY <1>6, <2>1, Stages, TwoSides DEF Shaking
  <2>4. Shaking(k)'
    BY <1>2, <1>6, <2>1, <2>2, <2>3 DEF Shaking
  <2>5. Level' /\ serverCurr' = 0
    BY <1>2, <1>11 DEF Before, Level, ServerStart
  <2> QED
    BY <1>5, <1>7, <1>8, <2>4, <2>5 DEF IInv, Before
<1>12. CASE /\ After /\ s = "server" /\ Asking
            /\ Toward("server", <<Request>>, 0) /\ serverCurr = 0
  <2>1. Toward("server", <<Request>>, 0)'
    BY <1>9, <1>12
  <2>2. Level' /\ Open'
    BY <1>2, <1>6, <1>12 DEF After, Open, Level, Asking, ServerStart
  <2>3. AtEase("server")'
    BY <1>6, <1>12 DEF AtEase
  <2>4. Asking'
    BY <1>2, <1>12, <2>1, <2>2, <2>3 DEF Asking
  <2> QED
    BY <1>5, <1>7, <1>8, <2>2, <2>4 DEF IInv, After
<1>13. CASE /\ After /\ s = "client"
            /\ \E o \in Starts, k \in Nat : Answering(o, k)
  <2>1. PICK o \in Starts, k \in Nat : Answering(o, k)
    BY <1>13
  <2>2. Toward("client", AnswerFrom(o), k)'
    BY <1>9, <1>13, <2>1 DEF Answering
  <2>3. Open'
    BY <1>2, <1>6, <1>13 DEF After, Open
  <2>4. Len(clientBuf) # N
    BY <1>13, <2>1 DEF Answering
  <2>5. Answering(o, k)'
    BY <1>2, <1>6, <1>13, <2>1, <2>2, <2>4 DEF Answering
  <2> QED
    BY <1>5, <1>7, <1>8, <2>3, <2>5 DEF IInv, After
<1> QED
  BY <1>3, <1>10, <1>11, <1>12, <1>13, ReadersTurn

-----------------------------------------------------------------------------
(* What OpenSSL does with the flight that is due.                          *)
LEMMA NextFlight ==
  ASSUME NEW k \in 1 .. 4, RecordOf(Reader(k)).kind = Kind(k),
         tls[Reader(k)] = IF Reader(k) = "client" THEN ClientAt(k) ELSE ServerAt(k)
  PROVE  \E h :
           /\ Steps(Reader(k)) = {h}
           /\ h.say = IF k = 4 THEN <<>> ELSE <<Flight(Kind(k + 1))>>
           /\ h.out = IF k = 4 THEN "open"
                      ELSE IF Reader(k) = "client" THEN ClientAt(k + 1)
                      ELSE ServerAt(k + 1)
<1>1. CASE k = 1
  <2>1. tls["server"] = "hello" /\ RecordOf("server").kind = "hello"
    BY <1>1, Stages
  <2>2. PICK h :
          h = [in |-> "hello", got |-> "hello", say |-> <<Flight("serverHello")>>,
             out |-> "finish"]
    OBVIOUS
  <2>3. Steps("server") = {h}
    BY <2>1, <2>2 DEF Steps, Handshake
  <2>4. h.say = <<Flight("serverHello")>> /\ h.out = "finish"
    BY <2>2
  <2>5. /\ k # 4 /\ Reader(k) = "server" /\ k + 1 = 2
        /\ Kind(k + 1) = "serverHello" /\ ServerAt(k + 1) = "finish"
    BY <1>1, Stages
  <2> QED
    BY <2>3, <2>4, <2>5
<1>2. CASE k = 2
  <2>1. tls["client"] = "hello" /\ RecordOf("client").kind = "serverHello"
    BY <1>2, Stages
  <2>2. PICK h :
          h = [in |-> "hello", got |-> "serverHello",
             say |-> <<Flight("clientFinished")>>, out |-> "finish"]
    OBVIOUS
  <2>3. Steps("client") = {h}
    BY <2>1, <2>2 DEF Steps, Handshake
  <2>4. h.say = <<Flight("clientFinished")>> /\ h.out = "finish"
    BY <2>2
  <2>5. /\ k # 4 /\ Reader(k) = "client" /\ k + 1 = 3
        /\ Kind(k + 1) = "clientFinished" /\ ClientAt(k + 1) = "finish"
    BY <1>2, Stages
  <2> QED
    BY <2>3, <2>4, <2>5
<1>3. CASE k = 3
  <2>1. tls["server"] = "finish" /\ RecordOf("server").kind = "clientFinished"
    BY <1>3, Stages
  <2>2. PICK h :
          h = [in |-> "finish", got |-> "clientFinished",
             say |-> <<Flight("finished")>>, out |-> "open"]
    OBVIOUS
  <2>3. Steps("server") = {h}
    BY <2>1, <2>2 DEF Steps, Handshake
  <2>4. h.say = <<Flight("finished")>> /\ h.out = "open"
    BY <2>2
  <2>5. /\ k # 4 /\ Reader(k) = "server" /\ k + 1 = 4
        /\ Kind(k + 1) = "finished" /\ ServerAt(k + 1) = "open"
    BY <1>3, Stages
  <2> QED
    BY <2>3, <2>4, <2>5
<1>4. CASE k = 4
  <2>1. tls["client"] = "finish" /\ RecordOf("client").kind = "finished"
    BY <1>4, Stages
  <2>2. PICK h :
          h = [in |-> "finish", got |-> "finished", say |-> <<>>, out |-> "open"]
    OBVIOUS
  <2>3. Steps("client") = {h}
    BY <2>1, <2>2 DEF Steps, Handshake
  <2>4. h.say = <<>> /\ h.out = "open" /\ Reader(k) = "client"
    BY <1>4, <2>2, Stages
  <2> QED
    BY <1>4, <2>3, <2>4
<1>5. k = 1 \/ k = 2 \/ k = 3 \/ k = 4
  OBVIOUS
<1> QED
  BY Zenon, <1>1, <1>2, <1>3, <1>4, <1>5

(* A record of the handshake is the one that is due, and OpenSSL answers   *)
(* it with the next flight, or has finished.                               *)
LEMMA ReadHandshakeStep ==
  ASSUME IInv, NEW s \in Sides, ReadRecord(s), Before,
         NEW k \in 1 .. 4, s = Reader(k), Shaking(k),
         Toward(s, <<Flight(Kind(k))>>, 0), handshaked["server"] <=> k = 4
  PROVE  IInv'
<1>1. StreamsOK /\ HandlersOK /\ BlocksOK
  BY TypeParts DEF IInv
<1>2. /\ pc[s] = "read" /\ RecordArrived(s)
      /\ Follows(Rest(s), <<Flight(Kind(k))>>, 0)
      /\ Rest(Other(s)) = <<>> /\ bioSend[s] = <<>> /\ bioSend[Other(s)] = <<>>
      /\ AtEase(Other(s))
  BY TwoSides DEF ReadRecord, Toward
<1>3. PICK r \in Records, rs \in Seq(Records) :
        r = Flight(Kind(k)) /\ rs = <<Flight(Kind(k))>> /\ Len(rs) = 1 /\ rs[1] = r
  BY RecordTypes, OneRecord
<1>4. RecordOf(s) = Flight(Kind(k)) /\ Sound(s)
  <2>1. RecordOf(s) = rs[0 + 1] /\ Sound(s)
    BY <1>1, <1>2, <1>3, Arrived
  <2> QED
    BY <1>3, <2>1
<1>5. RecordOf(s).kind = Kind(k) /\ ~HasData(s)
  <2>1. RecordOf(s).kind = Kind(k)
    BY <1>4 DEF Flight
  <2> QED
    BY <2>1, Stages DEF HasData
<1>6. tls[s] # "off"
  BY <1>2 DEF IInv
<1>7. PICK h :
        /\ Steps(s) = {h}
        /\ h.say = IF k = 4 THEN <<>> ELSE <<Flight(Kind(k + 1))>>
        /\ h.out = IF k = 4 THEN "open"
                   ELSE IF s = "client" THEN ClientAt(k + 1) ELSE ServerAt(k + 1)
  <2>1. tls[s] = IF s = "client" THEN ClientAt(k) ELSE ServerAt(k)
    BY <1>6, TwoSides DEF Shaking
  <2> QED
    BY <1>5, <2>1, NextFlight
<1>8. PICK say \in Seq(Records) : say = h.say
  <2>1. k # 4 => Flight(Kind(k + 1)) \in Records
    BY RecordTypes
  <2> QED
    BY <1>7, <2>1, NoRecord, OneRecord
<1>9. ReadHandshake(s)
  BY <1>4, <1>5, <1>7 DEF ReadRecord, ReadData
<1>10. /\ tls' = [tls EXCEPT ![s] = h.out]
       /\ bioSend' = [bioSend EXCEPT ![s] = Bytes(say)]
       /\ Consume(s)
       /\ UNCHANGED <<pc, handshaked, wire, cut, serverCurr, serverOffset,
                      clientBuf, clientOffset, got>>
  <2>1. Bytes(say) \in Seq(Part) /\ <<>> \o Bytes(say) = Bytes(say)
    BY BytesOfRecords
  <2>2. bioSend' = [bioSend EXCEPT ![s] = bioSend[s] \o Bytes(say)]
    BY <1>7, <1>8, <1>9 DEF ReadHandshake
  <2>3. bioSend' = [bioSend EXCEPT ![s] = Bytes(say)]
    BY Zenon, <1>2, <2>1, <2>2
  <2> QED
    BY <1>7, <1>9, <2>3 DEF ReadHandshake, serverVars, clientVars
<1>11. /\ bioRecv' \in [Sides -> Seq(Part)]
       /\ Rest(s)' = <<>> /\ Rest(Other(s))' = <<>>
  <2>1. /\ bioRecv' \in [Sides -> Seq(Part)]
        /\ 0 + 1 = Len(rs) => Rest(s)' = <<>>
        /\ \A t \in Sides : t # s => Rest(t)' = Rest(t)
    BY <1>1, <1>2, <1>3, <1>10, Consumed
  <2> QED
    BY <1>2, <1>3, <2>1, TwoSides
<1>12. /\ bioSend'[s] = Bytes(say) /\ bioSend'[Other(s)] = <<>>
       /\ tls'[s] = h.out /\ tls'[Other(s)] = tls[Other(s)]
  BY <1>1, <1>2, <1>10, TwoSides DEF StreamsOK, HandlersOK
<1>13. h.out \in {"hello", "finish", "open"}
  BY <1>7, Stages
<1>14. TypeOK'
  <2>1. Bytes(say) \in Seq(Part)
    BY BytesOfRecords
  <2>2. StreamsOK'
    BY <1>1, <1>10, <1>11, <2>1 DEF StreamsOK
  <2>3. HandlersOK' /\ BlocksOK'
    BY <1>1, <1>10, <1>13 DEF HandlersOK, BlocksOK
  <2> QED
    BY <2>2, <2>3 DEF TypeOK, StreamsOK, HandlersOK, BlocksOK
<1>15. clientOffset' \in Starts /\ \A t \in Sides : pc'[t] = "off" <=> tls'[t] = "off"
  BY <1>2, <1>10, <1>12, <1>13, TwoSides DEF IInv
<1>16. Level' /\ serverCurr' = 0
  BY <1>10 DEF Before, Level, ServerStart
<1>17. CASE k = 4
  <2>1. bioSend'[s] = <<>>
    BY <1>7, <1>8, <1>12, <1>17, NoRecord
  <2>2. Silent'
    BY <1>11, <1>12, <2>1, TwoSides DEF Silent
  <2>3. \A t \in Sides : tls'[t] = "open"
    BY <1>7, <1>12, <1>17, Stages, TwoSides DEF Shaking
  <2>4. Ready'
    BY <1>2, <1>10, <1>17, <2>2, <2>3, Stages, TwoSides DEF Ready, Shaking, AtEase
  <2> QED
    BY <1>2, <1>10, <1>14, <1>15, <1>16, <2>4 DEF IInv, Before
<1>18. CASE k # 4
  <2>1. k + 1 \in 1 .. 4 /\ say = <<Flight(Kind(k + 1))>>
    BY <1>7, <1>8, <1>18
  <2>2. s = Other(Reader(k + 1)) /\ Reader(k + 1) = Other(s)
    BY <1>18, Stages, TwoSides
  <2>3. Said(s, <<Flight(Kind(k + 1))>>)'
    BY <1>2, <1>10, <1>11, <1>12, <2>1, TwoSides DEF Said, AtEase
  <2>4. tls'["client"] = ClientAt(k + 1) /\ tls'["server"] = ServerAt(k + 1)
    BY <1>7, <1>12, <1>18, Stages, TwoSides DEF Shaking
  <2>5. ~handshaked'["client"] /\ ~handshaked'["server"]
    BY <1>10, <1>18 DEF Shaking
  <2>6. Shaking(k + 1)'
    BY <1>2, <1>10, <2>2, <2>3, <2>4, <2>5 DEF Shaking, AtEase
  <2> QED
    BY <1>2, <1>10, <1>14, <1>15, <1>16, <2>1, <2>6 DEF IInv, Before
<1> QED
  BY <1>17, <1>18

(* After the handshake SSL_read returns data and nothing else.             *)
LEMMA ReadsData ==
  ASSUME NEW s \in Sides, ReadRecord(s), tls[s] = "open", handshaked[s], Sound(s),
         RecordOf(s).kind = "data"
  PROVE  /\ RecordArrived(s) /\ Consume(s) /\ pc[s] = "read"
         /\ pc' = [pc EXCEPT ![s] = "callback"]
         /\ s = "server" => /\ serverCurr' = serverCurr + RecordOf(s).len
                            /\ clientBuf' = clientBuf
         /\ s = "client" =>
              /\ clientBuf' = clientBuf \o
                   [i \in 1 .. RecordOf(s).len |-> RecordOf(s).from + i - 1]
              /\ serverCurr' = serverCurr
         /\ UNCHANGED <<tls, handshaked, bioSend, wire, cut, serverOffset,
                        clientOffset, got>>
<1>1. Steps(s) = {}
  <2>1. \A h \in Handshake["client"] \cup Handshake["server"] : h.in # "open"
    BY DEF Handshake
  <2> QED
    BY <2>1, TwoSides DEF Steps
<1>2. HasData(s)
  BY DEF HasData
<1>3. ReadData(s)
  BY <1>1, <1>2 DEF ReadRecord, ReadHandshake
<1> QED
  BY <1>3, TwoSides DEF ReadRecord, ReadData

(* The request arrives.                                                    *)
LEMMA ReadRequestStep ==
  ASSUME IInv, ReadRecord("server"), After, Asking,
         Toward("server", <<Request>>, 0), serverCurr = 0
  PROVE  IInv'
<1>1. StreamsOK /\ HandlersOK /\ BlocksOK
  BY TypeParts DEF IInv
<1>2. /\ RecordArrived("server") /\ tls["server"] = "open" /\ handshaked["server"]
      /\ Follows(Rest("server"), <<Request>>, 0)
      /\ Rest("client") = <<>> /\ (\A t \in Sides : bioSend[t] = <<>>)
      /\ AtEase("client")
  BY TwoSides DEF ReadRecord, Toward, After, Open
<1>3. PICK rs \in Seq(Records) : rs = <<Request>> /\ Len(rs) = 1 /\ rs[1] = Request
  BY RecordTypes, OneRecord
<1>4. RecordOf("server") = Request /\ Sound("server")
  <2>1. RecordOf("server") = rs[0 + 1] /\ Sound("server")
    BY <1>1, <1>2, <1>3, TwoSides, Arrived
  <2> QED
    BY <1>3, <2>1
<1>5. RecordOf("server").kind = "data" /\ RecordOf("server").len = 1
  BY <1>4 DEF Request
<1>6. /\ Consume("server") /\ pc' = [pc EXCEPT !["server"] = "callback"]
      /\ serverCurr' = serverCurr + RecordOf("server").len
      /\ UNCHANGED <<tls, handshaked, bioSend, wire, cut, serverOffset, clientBuf,
                     clientOffset, got>>
  BY <1>2, <1>4, <1>5, TwoSides, ReadsData
<1>7. serverCurr' = 1
  BY <1>5, <1>6
<1>8. /\ bioRecv' \in [Sides -> Seq(Part)]
      /\ Rest("server")' = <<>> /\ Rest("client")' = <<>>
  <2>1. /\ bioRecv' \in [Sides -> Seq(Part)]
        /\ 0 + 1 = Len(rs) => Rest("server")' = <<>>
        /\ \A t \in Sides : t # "server" => Rest(t)' = Rest(t)
    BY <1>1, <1>2, <1>3, <1>6, TwoSides, Consumed
  <2> QED
    BY <1>2, <1>3, <2>1, TwoSides
<1>9. TypeOK'
  <2>1. StreamsOK'
    BY <1>1, <1>6, <1>8 DEF StreamsOK
  <2>2. HandlersOK'
    BY <1>1, <1>6, TwoSides DEF HandlersOK
  <2>3. BlocksOK'
    BY <1>1, <1>6, <1>7 DEF BlocksOK
  <2> QED
    BY <2>1, <2>2, <2>3 DEF TypeOK, StreamsOK, HandlersOK, BlocksOK
<1>10. pc'["server"] = "callback" /\ pc'["client"] = pc["client"]
  BY <1>1, <1>6, TwoSides DEF HandlersOK
<1>11. clientOffset' \in Starts /\ \A t \in Sides : pc'[t] = "off" <=> tls'[t] = "off"
  BY <1>2, <1>6, <1>10, TwoSides DEF IInv
<1>12. Open' /\ Level'
  BY <1>6 DEF After, Open, Asking, Level, ServerStart
<1>13. Silent' /\ AtEase("client")'
  BY <1>2, <1>6, <1>8, <1>10, TwoSides DEF Silent, AtEase
<1>14. Asking'
  BY <1>7, <1>10, <1>12, <1>13 DEF Asking
<1> QED
  BY <1>9, <1>11, <1>12, <1>14 DEF IInv, After

(* What a record of the answer adds to the words that have arrived.        *)
LEMMA WordsArrive ==
  ASSUME NEW b \in Seq(Nat), NEW o \in Nat, NEW n \in Nat,
         \A i \in 1 .. Len(b) : b[i] = o + i - 1
  PROVE  LET c == b \o [i \in 1 .. n |-> o + Len(b) + i - 1] IN
           /\ c \in Seq(Nat) /\ Len(c) = Len(b) + n
           /\ \A i \in 1 .. Len(c) : c[i] = o + i - 1
<1>1. PICK m \in Nat : m = Len(b)
  OBVIOUS
<1>2. PICK d : d = [i \in 1 .. n |-> o + m + i - 1]
  OBVIOUS
<1>3. d \in Seq(Nat) /\ Len(d) = n /\ \A i \in 1 .. n : d[i] = o + m + i - 1
  <2>1. \A i \in 1 .. n : o + m + i - 1 \in Nat
    OBVIOUS
  <2>2. d \in [1 .. n -> Nat]
    BY <1>2, <2>1
  <2> QED
    BY <1>2, <2>2
<1>4. PICK c : c = b \o d
  OBVIOUS
<1>5. /\ c \in Seq(Nat) /\ Len(c) = m + n
      /\ \A i \in 1 .. m + n : c[i] = IF i <= m THEN b[i] ELSE d[i - m]
  BY <1>1, <1>3, <1>4, ConcatProperties
<1>6. ASSUME NEW i \in 1 .. m + n PROVE c[i] = o + i - 1
  <2>1. CASE i <= m
    BY <1>1, <1>5, <2>1
  <2>2. CASE i > m
    <3>1. i - m \in 1 .. n /\ ~(i <= m)
      BY <2>2
    <3>2. c[i] = d[i - m] /\ d[i - m] = o + m + (i - m) - 1
      BY <1>3, <1>5, <3>1
    <3> QED
      BY <3>2
  <2> QED
    BY <2>1, <2>2
<1> QED
  BY <1>1, <1>2, <1>4, <1>5, <1>6

(* Another record of the answer arrives.                                   *)
LEMMA ReadAnswerStep ==
  ASSUME IInv, ReadRecord("client"), After,
         NEW o \in Starts, NEW k \in Nat, Answering(o, k)
  PROVE  IInv'
<1>1. StreamsOK /\ HandlersOK /\ BlocksOK
  BY TypeParts DEF IInv
<1>2. /\ RecordArrived("client") /\ tls["client"] = "open" /\ handshaked["client"]
      /\ Follows(Rest("client"), AnswerFrom(o), k)
      /\ Rest("server") = <<>> /\ (\A t \in Sides : bioSend[t] = <<>>)
      /\ AtEase("server")
  BY TwoSides DEF ReadRecord, Answering, Toward, After, Open
<1>3. o \in Nat
  BY NextStart
<1>4. PICK rs \in Seq(Records) : rs = AnswerFrom(o)
  BY <1>3, AnswerRecords
<1>5. k + 1 \in 1 .. Len(rs) /\ RecordOf("client") = rs[k + 1] /\ Sound("client")
  BY <1>1, <1>2, <1>4, TwoSides, Arrived
<1>6. PICK q \in Nat :
        /\ q = k * RecordWords /\ q < N /\ (k + 1) * RecordWords = q + RecordWords
        /\ RecordOf("client").kind = "data"
        /\ RecordOf("client").from = o + q
        /\ RecordOf("client").len = Min2(RecordWords, N - q)
  <2>1. PICK i \in 1 .. Len(rs) : i = k + 1 /\ i - 1 = k
    BY <1>5
  <2>2. /\ i * RecordWords = (i - 1) * RecordWords + RecordWords
        /\ (i - 1) * RecordWords \in Nat
        /\ (i - 1) * RecordWords < N
        /\ rs[i].kind = "data"
        /\ rs[i].from = o + (i - 1) * RecordWords
        /\ rs[i].len = Min2(RecordWords, N - (i - 1) * RecordWords)
    BY <1>3, <1>4, AnswerRecords
  <2> QED
    BY Zenon, <1>5, <2>1, <2>2
<1>7. PICK n \in Nat : n = Min2(RecordWords, N - q)
  <2>1. N - q \in Nat
    BY Sizes, <1>6
  <2>2. Min2(RecordWords, N - q) \in Nat
    BY Sizes, <2>1 DEF Min2
  <2> QED
    BY <2>2
<1>8. Len(clientBuf) = q
  BY Sizes, <1>6 DEF Answering, Min2
<1>9. /\ Consume("client") /\ pc' = [pc EXCEPT !["client"] = "callback"]
      /\ clientBuf' = clientBuf \o [i \in 1 .. n |-> o + Len(clientBuf) + i - 1]
      /\ UNCHANGED <<tls, handshaked, bioSend, wire, cut, serverCurr, serverOffset,
                     clientOffset, got>>
  <2>1. /\ Consume("client") /\ pc' = [pc EXCEPT !["client"] = "callback"]
        /\ clientBuf' = clientBuf \o
             [i \in 1 .. RecordOf("client").len |-> RecordOf("client").from + i - 1]
        /\ UNCHANGED <<tls, handshaked, bioSend, wire, cut, serverCurr, serverOffset,
                       clientOffset, got>>
    BY <1>2, <1>5, <1>6, TwoSides, ReadsData
  <2>2. RecordOf("client").len = n /\ RecordOf("client").from = o + Len(clientBuf)
    BY <1>6, <1>7, <1>8
  <2> QED
    BY Zenon, <2>1, <2>2
<1>10. /\ clientBuf' \in Seq(Nat) /\ Len(clientBuf') = q + n
       /\ \A i \in 1 .. Len(clientBuf') : clientBuf'[i] = o + i - 1
  <2>1. clientBuf \in Seq(Nat) /\ \A i \in 1 .. Len(clientBuf) : clientBuf[i] = o + i - 1
    BY <1>1 DEF BlocksOK, Answering
  <2>2. PICK c : c = clientBuf \o [i \in 1 .. n |-> o + Len(clientBuf) + i - 1]
    OBVIOUS
  <2>3. /\ c \in Seq(Nat) /\ Len(c) = Len(clientBuf) + n
        /\ \A i \in 1 .. Len(c) : c[i] = o + i - 1
    BY Zenon, <1>3, <2>1, <2>2, WordsArrive
  <2>4. clientBuf' = c
    BY Zenon, <1>9, <2>2
  <2> QED
    BY <1>8, <2>3, <2>4
<1>11. Len(clientBuf') = Min2((k + 1) * RecordWords, N)
  BY Sizes, <1>6, <1>7, <1>10 DEF Min2
<1>12. /\ bioRecv' \in [Sides -> Seq(Part)]
       /\ Follows(Rest("client")', rs, k + 1) /\ Rest("server")' = <<>>
  <2>1. /\ bioRecv' \in [Sides -> Seq(Part)]
        /\ Follows(Rest("client")', rs, k + 1)
        /\ \A t \in Sides : t # "client" => Rest(t)' = Rest(t)
    BY <1>1, <1>2, <1>4, <1>9, TwoSides, Consumed
  <2> QED
    BY <1>2, <2>1, TwoSides
<1>13. TypeOK'
  <2>1. StreamsOK'
    BY <1>1, <1>9, <1>12 DEF StreamsOK
  <2>2. HandlersOK'
    BY <1>1, <1>9, TwoSides DEF HandlersOK
  <2>3. BlocksOK'
    BY <1>1, <1>9, <1>10 DEF BlocksOK
  <2> QED
    BY <2>1, <2>2, <2>3 DEF TypeOK, StreamsOK, HandlersOK, BlocksOK
<1>14. pc'["client"] = "callback" /\ pc'["server"] = pc["server"]
  BY <1>1, <1>9, TwoSides DEF HandlersOK
<1>15. clientOffset' \in Starts /\ \A t \in Sides : pc'[t] = "off" <=> tls'[t] = "off"
  BY <1>2, <1>9, <1>14, TwoSides DEF IInv
<1>16. Open'
  BY <1>9 DEF After, Open
<1>17. Toward("client", AnswerFrom(o), k + 1)'
  <2>1. AtEase(Other("client"))' /\ Rest(Other("client"))' = <<>>
    BY <1>2, <1>12, <1>14, TwoSides DEF AtEase
  <2>2. Toward("client", rs, k + 1)'
    BY <1>2, <1>9, <1>12, <2>1, TwoSides, TowardNext
  <2> QED
    BY <1>4, <2>2
<1>18. Answering(o, k + 1)'
  BY <1>9, <1>10, <1>11, <1>14, <1>17 DEF Answering
<1> QED
  BY <1>13, <1>15, <1>16, <1>18 DEF IInv, After

(* A turn of SSLProcessingRecv that finds a record.                        *)
LEMMA ReadRecordStep ==
  ASSUME IInv, NEW s \in Sides, ReadRecord(s)
  PROVE  IInv'
<1>1. StreamsOK /\ pc[s] = "read" /\ RecordArrived(s)
  BY TypeParts DEF IInv, ReadRecord
<1>2. Rest(s) # <<>>
  <2>1. PICK b \in Seq(Part), x \in Seq(Part) : b = bioRecv[s] /\ x = wire[s]
    BY <1>1 DEF StreamsOK
  <2>2. Len(b) >= 2
    BY <1>1, <2>1 DEF RecordArrived
  <2> QED
    BY <2>1, <2>2, ConcatEqualIffEmpty DEF Rest
<1> QED
  BY <1>1, <1>2, ReadersTurn, ReadHandshakeStep, ReadRequestStep, ReadAnswerStep

-----------------------------------------------------------------------------
(* What the end of the loop does besides sending.                          *)
LEMMA LoopEnds ==
  ASSUME IInv, NEW s \in Sides, ReadEnds(s)
  PROVE  /\ HandlersOK' /\ BlocksOK'
         /\ pc[s] = "read" /\ pc'[s] = "wait"
         /\ handshaked'[s] = (tls[s] = "open")
         /\ \A t \in Sides : t # s => pc'[t] = pc[t] /\ handshaked'[t] = handshaked[t]
         /\ UNCHANGED <<tls, bioRecv, serverCurr, serverOffset, clientBuf,
                        clientOffset, got>>
         /\ clientOffset' \in Starts
         /\ \A t \in Sides : pc'[t] = "off" <=> tls'[t] = "off"
<1>1. HandlersOK /\ BlocksOK
  BY TypeParts DEF IInv
<1>2. /\ pc[s] = "read" /\ pc' = [pc EXCEPT ![s] = "wait"]
      /\ handshaked' = [handshaked EXCEPT ![s] = tls[s] = "open"]
      /\ UNCHANGED <<tls, bioRecv, serverCurr, serverOffset, clientBuf,
                     clientOffset, got>>
  BY DEF ReadEnds, Marked, serverVars, clientVars
<1>3. cut' \in BOOLEAN
  BY <1>1 DEF ReadEnds, SSLProcessingSend, HandlersOK
<1>4. HandlersOK' /\ BlocksOK'
  BY <1>1, <1>2, <1>3 DEF HandlersOK, BlocksOK
<1>5. /\ pc'[s] = "wait" /\ handshaked'[s] = (tls[s] = "open")
      /\ \A t \in Sides : t # s => pc'[t] = pc[t] /\ handshaked'[t] = handshaked[t]
  BY <1>1, <1>2 DEF HandlersOK
<1>6. clientOffset' \in Starts
  BY <1>2 DEF IInv
<1>7. \A t \in Sides : pc'[t] = "off" <=> tls'[t] = "off"
  <2>1. \A t \in Sides : pc[t] = "off" <=> tls[t] = "off"
    BY DEF IInv
  <2> QED
    BY <1>2, <1>5, <2>1
<1> QED
  BY <1>2, <1>4, <1>5, <1>6, <1>7

(* The loop ends with a flight of the handshake to send.                   *)
LEMMA SendFlightStep ==
  ASSUME IInv, NEW s \in Sides, ReadEnds(s), Before,
         NEW k \in 1 .. 4, s = Other(Reader(k)), Shaking(k), ~handshaked["server"],
         Said(s, <<Flight(Kind(k))>>)
  PROVE  IInv'
<1>1. StreamsOK
  BY TypeParts DEF IInv
<1>2. Reader(k) = Other(s) /\ Other(s) \in Sides /\ Other(s) # s
  BY TwoSides DEF Reader
<1>3. /\ \A t \in Sides : Rest(t) = <<>>
      /\ bioSend[s] = Bytes(<<Flight(Kind(k))>>) /\ bioSend[Other(s)] = <<>>
      /\ AtEase(Other(s))
  BY DEF Said
<1>4. PICK rs \in Seq(Records) : rs = <<Flight(Kind(k))>>
  BY RecordTypes, OneRecord
<1>5. SSLProcessingSend(s, <<>>)
  <2>1. s = "client" => tls[s] # "open"
    BY Stages DEF Shaking
  <2>2. s # "client" => OnTransportConnected(s) = <<>>
    BY DEF OnTransportConnected
  <2> QED
    BY <2>1, <2>2 DEF ReadEnds
<1>6. /\ StreamsOK' /\ \A t \in Sides : bioSend'[t] = <<>>
      /\ Rest(s)' = <<>> /\ Follows(Rest(Other(s))', rs, 0)
  <2>1. <<>> \in Seq(Part)
    OBVIOUS
  <2>2. bioSend[s] \o <<>> = Bytes(rs)
    <3>1. Bytes(rs) \in Seq(Part) /\ Bytes(rs) \o <<>> = Bytes(rs)
      BY BytesOfRecords
    <3> QED
      BY Zenon, <1>3, <1>4, <3>1
  <2>3. bioRecv' = bioRecv
    BY LoopEnds
  <2> QED
    BY Zenon, <1>1, <1>3, <1>5, <2>1, <2>2, <2>3, Speaks
<1>7. TypeOK'
  BY <1>6, LoopEnds DEF TypeOK, StreamsOK, HandlersOK, BlocksOK
<1>8. /\ tls' = tls /\ pc'[s] = "wait" /\ pc'[Other(s)] = pc[Other(s)]
      /\ handshaked'[s] = (tls[s] = "open")
      /\ handshaked'[Other(s)] = handshaked[Other(s)]
  BY <1>2, LoopEnds
<1>9. Toward(Reader(k), <<Flight(Kind(k))>>, 0)'
  <2>1. AtEase(Other(Other(s)))' /\ Rest(Other(Other(s)))' = <<>>
    BY <1>6, <1>8, TwoSides DEF AtEase
  <2>2. Toward(Other(s), rs, 0)'
    BY <1>2, <1>6, <2>1, TowardNext
  <2> QED
    BY <1>2, <1>4, <2>2
<1>10. ~handshaked'["client"] /\ (handshaked'["server"] <=> k = 4)
  <2>1. CASE s = "client"
    <3>1. Reader(k) = "server"
      BY <1>2, <2>1, TwoSides
    <3>2. k # 4
      BY <3>1, Stages
    <3>3. tls["client"] # "open"
      BY DEF Shaking, ClientAt
    <3> QED
      BY <1>8, <2>1, <3>2, <3>3, TwoSides
  <2>2. CASE s = "server"
    <3>1. tls["server"] = "open" <=> k = 4
      BY <1>2, <2>2, Stages, TwoSides DEF Shaking
    <3>2. ~handshaked["client"]
      BY DEF Shaking
    <3> QED
      BY <1>8, <2>2, <3>1, <3>2, TwoSides
  <2> QED
    BY <2>1, <2>2, TwoSides
<1>11. Shaking(k)'
  BY <1>2, <1>3, <1>8, <1>9, <1>10 DEF Shaking, AtEase
<1>12. Level' /\ serverCurr' = 0
  BY LoopEnds DEF Before, Level, ServerStart
<1> QED
  BY <1>7, <1>11, <1>12, LoopEnds DEF IInv, Before

(* The client notices the end of the handshake and asks.                   *)
LEMMA FirstRequestStep ==
  ASSUME IInv, ReadEnds("client"), Before, Ready
  PROVE  IInv'
<1>1. StreamsOK
  BY TypeParts DEF IInv
<1>2. (\A t \in Sides : Rest(t) = <<>> /\ bioSend[t] = <<>>) /\ AtEase("server")
  BY DEF Ready, Silent
<1>3. PICK rs \in Seq(Records) : rs = <<Request>>
  BY RecordTypes, OneRecord
<1>4. SSLProcessingSend("client", Bytes(rs))
  BY <1>3, TwoSides DEF ReadEnds, Ready, OnTransportConnected
<1>5. /\ StreamsOK' /\ \A t \in Sides : bioSend'[t] = <<>>
      /\ Rest("client")' = <<>> /\ Follows(Rest("server")', rs, 0)
  <2>1. Bytes(rs) \in Seq(Part) /\ <<>> \o Bytes(rs) = Bytes(rs)
    BY BytesOfRecords
  <2>2. bioSend["client"] \o Bytes(rs) = Bytes(rs)
    BY Zenon, <1>2, <2>1, TwoSides DEF Sides
  <2>3. bioRecv' = bioRecv
    BY TwoSides, LoopEnds
  <2> QED
    BY <1>1, <1>2, <1>4, <2>1, <2>2, <2>3, TwoSides, Speaks
<1>6. TypeOK'
  BY <1>5, LoopEnds, TwoSides DEF TypeOK, StreamsOK, HandlersOK, BlocksOK
<1>7. /\ tls' = tls /\ pc'["client"] = "wait" /\ pc'["server"] = pc["server"]
      /\ handshaked'["client"] = (tls["client"] = "open")
      /\ handshaked'["server"] = handshaked["server"]
      /\ UNCHANGED <<serverCurr, serverOffset, clientBuf, clientOffset>>
      /\ clientOffset' \in Starts
      /\ \A t \in Sides : pc'[t] = "off" <=> tls'[t] = "off"
  BY LoopEnds, TwoSides
<1>8. Open'
  BY <1>7, TwoSides DEF Ready, Open
<1>9. Toward("server", <<Request>>, 0)'
  <2>1. AtEase(Other("server"))' /\ Rest(Other("server"))' = <<>>
    BY <1>5, <1>7, TwoSides DEF AtEase
  <2>2. Toward("server", rs, 0)'
    BY <1>5, <2>1, TwoSides, TowardNext
  <2> QED
    BY <1>3, <2>2
<1>10. Asking'
  <2>1. Level' /\ serverCurr' = 0
    BY <1>7 DEF Before, Level, ServerStart
  <2>2. AtEase("server")'
    BY <1>2, <1>7 DEF AtEase
  <2> QED
    BY <1>9, <2>1, <2>2 DEF Asking
<1> QED
  BY <1>6, <1>7, <1>8, <1>10 DEF IInv, After

(* The loop ends with nothing to send.                                     *)
LEMMA QuietEndStep ==
  ASSUME IInv, NEW s \in Sides, ReadEnds(s), bioSend[s] = <<>>,
         ~(s = "client" /\ Ready)
  PROVE  IInv'
<1>1. StreamsOK /\ HandlersOK
  BY TypeParts DEF IInv
<1>2. /\ pc[s] = "read" /\ pc'[s] = "wait" /\ tls' = tls
      /\ handshaked'[s] = (tls[s] = "open")
      /\ \A t \in Sides : t # s => pc'[t] = pc[t] /\ handshaked'[t] = handshaked[t]
      /\ UNCHANGED <<serverCurr, serverOffset, clientBuf, clientOffset>>
      /\ clientOffset' \in Starts
      /\ \A t \in Sides : pc'[t] = "off" <=> tls'[t] = "off"
  BY LoopEnds
<1>3. ~Off
  BY <1>2 DEF Off, IInv
<1>4. ASSUME NEW k \in 1 .. 4, Shaking(k)
      PROVE  /\ s = "client" => ~handshaked[s] /\ tls[s] # "open"
             /\ s = "server" => (handshaked[s] <=> tls[s] = "open")
  <2>1. ~Said(s, <<Flight(Kind(k))>>)
    BY FlightSaid DEF Said
  <2>2. CASE s = "client"
    BY <1>4, <2>2, Stages DEF Shaking
  <2>3. CASE s = "server"
    <3>1. \/ k \in {1, 3} /\ ~handshaked["server"]
          \/ handshaked["server"] <=> k = 4
      BY <1>4, <2>1, <2>3, TwoSides DEF Shaking, Reader
    <3>2. tls["server"] = "open" <=> k = 4
      BY <1>4, Stages DEF Shaking
    <3> QED
      BY <2>3, <3>1, <3>2
  <2> QED
    BY <2>2, <2>3, TwoSides
<1>5. (tls[s] = "open" <=> handshaked[s]) \/ (s = "client" /\ Ready)
  <2>1. CASE Before
    BY <1>3, <1>4, <2>1, TwoSides DEF Before, Ready
  <2>2. CASE After
    BY <2>2 DEF After, Open
  <2> QED
    BY <2>1, <2>2 DEF IInv
<1>6. handshaked'[s] = handshaked[s]
  BY <1>1, <1>2, <1>5 DEF HandlersOK
<1>7. SSLProcessingSend(s, <<>>)
  BY <1>5 DEF ReadEnds
<1>8. StreamsOK' /\ \A t \in Sides : bioSend'[t] = bioSend[t] /\ Rest(t)' = Rest(t)
  <2>1. bioRecv' = bioRecv
    BY LoopEnds
  <2> QED
    BY <1>1, <1>7, <2>1, SaysNothing
<1>9. TypeOK'
  BY <1>8, LoopEnds DEF TypeOK, StreamsOK, HandlersOK, BlocksOK
<1>10. \A t \in Sides : handshaked'[t] = handshaked[t] /\ (AtEase(t) => AtEase(t)')
  BY <1>2, <1>6 DEF AtEase
<1>11. ASSUME NEW rs, NEW k, NEW t \in Sides, Toward(t, rs, k)
       PROVE  Toward(t, rs, k)'
  <2>1. AtEase(Other(t))'
    BY <1>10, <1>11, TwoSides DEF Toward
  <2> QED
    BY <1>8, <1>11, <2>1, TwoSides DEF Toward, Follows
<1>12. Silent => Silent'
  BY <1>8 DEF Silent
<1>13. ASSUME NEW k \in 1 .. 4, Shaking(k) PROVE Shaking(k)'
  <2>1. /\ tls'["client"] = ClientAt(k) /\ ~handshaked'["client"]
        /\ tls'["server"] = ServerAt(k) \/ (k = 1 /\ tls'["server"] = "off")
        /\ pc'[Reader(k)] \in {"wait", "read", "off"}
    BY <1>2, <1>10, <1>13, TwoSides DEF Shaking, Reader
  <2>2. CASE Toward(Reader(k), <<Flight(Kind(k))>>, 0) /\ (handshaked["server"] <=> k = 4)
    <3>1. Toward(Reader(k), <<Flight(Kind(k))>>, 0)'
      BY <1>11, <2>2, TwoSides DEF Reader
    <3> QED
      BY <1>10, <2>1, <2>2, <3>1, TwoSides DEF Shaking
  <2>3. CASE ~handshaked["server"] /\ Said(Other(Reader(k)), <<Flight(Kind(k))>>)
    <3>1. PICK o \in Sides : o = Other(Reader(k)) /\ Other(o) = Reader(k) /\ Other(o) \in Sides
      BY TwoSides DEF Reader
    <3>2. bioSend[o] # <<>>
      BY <2>3, <3>1, FlightSaid DEF Said
    <3>3. o # s
      BY <3>2
    <3>4. Said(o, <<Flight(Kind(k))>>)'
      BY <1>2, <1>8, <1>10, <2>3, <3>1, <3>3 DEF Said
    <3> QED
      BY <1>10, <2>1, <2>3, <3>1, <3>4, TwoSides DEF Shaking
  <2> QED
    BY <1>13, <2>2, <2>3 DEF Shaking
<1>14. CASE Before
  <2>1. Level' /\ serverCurr' = 0
    BY <1>2, <1>14 DEF Before, Level, ServerStart
  <2>2. Ready => Ready'
    BY <1>2, <1>10, <1>12, TwoSides DEF Ready
  <2> QED
    BY <1>2, <1>3, <1>9, <1>13, <1>14, <2>1, <2>2 DEF IInv, Before
<1>15. CASE After
  <2>1. Open'
    BY <1>2, <1>10, <1>15 DEF After, Open
  <2>2. ASSUME Asking PROVE Asking'
    <3>1. Level'
      BY <1>2, <2>2 DEF Asking, Level, ServerStart
    <3>2. CASE AtEase("server") /\ serverCurr = 0 /\ Toward("server", <<Request>>, 0)
      <4>1. Toward("server", <<Request>>, 0)'
        BY <1>11, <3>2, TwoSides
      <4> QED
        BY <1>2, <1>10, <3>1, <3>2, <4>1, TwoSides DEF Asking
    <3>3. CASE pc["server"] = "callback" /\ serverCurr = 1 /\ AtEase("client") /\ Silent
      BY <1>2, <1>10, <1>12, <3>1, <3>3, TwoSides DEF Asking
    <3> QED
      BY <2>2, <3>2, <3>3 DEF Asking
  <2>3. ASSUME NEW o \in Starts, NEW k \in Nat, Answering(o, k) PROVE Answering(o, k)'
    <3>1. Toward("client", AnswerFrom(o), k)'
      BY <1>11, <2>3, TwoSides DEF Answering
    <3> QED
      BY <1>2, <2>3, <3>1, TwoSides DEF Answering
  <2> QED
    BY <1>2, <1>9, <1>15, <2>1, <2>2, <2>3 DEF IInv, After
<1> QED
  BY <1>14, <1>15 DEF IInv

(* A turn of SSLProcessingRecv that finds no record.                       *)
LEMMA ReadEndsStep ==
  ASSUME IInv, NEW s \in Sides, ReadEnds(s)
  PROVE  IInv'
<1>1. pc[s] = "read" /\ tls[s] # "off"
  BY DEF ReadEnds, IInv
<1>2. CASE bioSend[s] = <<>>
  <2>1. Ready => Before
    BY TwoSides DEF Ready, IInv, After, Open
  <2> QED
    BY <1>2, <2>1, QuietEndStep, FirstRequestStep
<1>3. CASE bioSend[s] # <<>>
  <2>1. ~Off /\ ~Ready /\ ~After
    BY <1>1, <1>3, TwoSides DEF Off, Ready, Silent, After, Asking, Answering, Toward
  <2>2. PICK k \in 1 .. 4 : Before /\ Shaking(k)
    BY <2>1 DEF IInv, Before
  <2>3. ~handshaked["server"] /\ Said(Other(Reader(k)), <<Flight(Kind(k))>>)
    BY <1>3, <2>2 DEF Shaking, Toward
  <2>4. s = Other(Reader(k))
    <3>1. bioSend[Other(Other(Reader(k)))] = <<>>
      BY <2>3 DEF Said
    <3> QED
      BY <1>3, <3>1, TwoSides DEF Reader
  <2> QED
    BY <2>2, <2>3, <2>4, SendFlightStep
<1> QED
  BY <1>2, <1>3

-----------------------------------------------------------------------------
(* A request is answered with the block the client expects.                *)
LEMMA ServerOnRecivedStep == IInv /\ ServerOnRecived => IInv'
<1> SUFFICES ASSUME IInv, ServerOnRecived PROVE IInv'
  OBVIOUS
<1>1. StreamsOK /\ HandlersOK /\ BlocksOK
  BY TypeParts DEF IInv
<1>2. /\ pc["server"] = "callback" /\ pc' = [pc EXCEPT !["server"] = "read"]
      /\ UNCHANGED <<tls, handshaked, bioRecv, clientBuf, clientOffset, got>>
  BY DEF ServerOnRecived, clientVars
<1>3. After /\ Asking /\ serverCurr = 1 /\ AtEase("client") /\ Silent
  <2>1. ~AtEase("server") /\ tls["server"] # "off"
    BY <1>2, TwoSides DEF AtEase, IInv
  <2>2. ~Off /\ ~Ready
    BY <2>1, TwoSides DEF Off, Ready
  <2>3. ASSUME NEW k \in 1 .. 4 PROVE ~Shaking(k)
    BY <1>2, <2>1, TwoSides DEF Shaking, Said, Toward, Reader
  <2>4. \A o, k : ~Answering(o, k)
    BY <2>1, TwoSides DEF Answering, Toward
  <2>5. After /\ Asking
    BY <2>2, <2>3, <2>4 DEF IInv, Before, After
  <2> QED
    BY <2>1, <2>5 DEF Asking
<1>4. PICK o \in Starts : o = clientOffset /\ o = ServerStart /\ o \in Nat /\ o + N <= Size
  BY <1>3, NextStart DEF IInv, Asking, Level
<1>5. PICK rs \in Seq(Records) : rs = AnswerFrom(o)
  BY <1>4, AnswerRecords
<1>6. /\ serverCurr' = 0 /\ serverOffset' = o + N
      /\ SSLProcessingSend("server", Bytes(rs))
  <2>1. /\ serverCurr' = serverCurr - 1 /\ serverOffset' = ServerStart + N
        /\ SSLProcessingSend("server", Bytes(AnswerFrom(ServerStart)))
    BY <1>3 DEF ServerOnRecived
  <2> QED
    BY <1>3, <1>4, <1>5, <2>1
<1>7. /\ StreamsOK' /\ \A t \in Sides : bioSend'[t] = <<>>
      /\ Rest("server")' = <<>> /\ Follows(Rest("client")', rs, 0)
  <2>1. Bytes(rs) \in Seq(Part) /\ <<>> \o Bytes(rs) = Bytes(rs)
    BY BytesOfRecords
  <2>2. \A t \in Sides : Rest(t) = <<>> /\ bioSend[t] = <<>>
    BY <1>3 DEF Silent
  <2>3. bioSend["server"] \o Bytes(rs) = Bytes(rs)
    BY Zenon, <2>1, <2>2, TwoSides DEF Sides
  <2> QED
    BY <1>1, <1>2, <1>6, <2>1, <2>2, <2>3, TwoSides, Speaks
<1>8. TypeOK'
  <2>1. cut' \in BOOLEAN
    BY <1>1, <1>6 DEF SSLProcessingSend, HandlersOK
  <2>2. HandlersOK'
    BY <1>1, <1>2, <2>1, TwoSides DEF HandlersOK
  <2>3. serverOffset' \in 0 .. Size
    BY Sizes, <1>4, <1>6
  <2>4. BlocksOK'
    BY <1>1, <1>2, <1>6, <2>3 DEF BlocksOK
  <2> QED
    BY <1>7, <2>2, <2>4 DEF TypeOK, StreamsOK, HandlersOK, BlocksOK
<1>9. pc'["server"] = "read" /\ pc'["client"] = pc["client"]
  BY <1>1, <1>2, TwoSides DEF HandlersOK
<1>10. clientOffset' \in Starts /\ \A t \in Sides : pc'[t] = "off" <=> tls'[t] = "off"
  BY <1>2, <1>9, TwoSides DEF IInv
<1>11. Open'
  BY <1>2, <1>3 DEF After, Open
<1>12. Answering(o, 0)'
  <2>1. AtEase(Other("client"))' /\ Rest(Other("client"))' = <<>>
    BY <1>7, <1>9, TwoSides DEF AtEase
  <2>2. Toward("client", rs, 0)'
    BY <1>7, <2>1, TwoSides, TowardNext
  <2>3. clientBuf' = <<>> /\ Len(clientBuf') = 0
    BY <1>2, <1>3 DEF Asking, Level
  <2>4. 0 * RecordWords = 0
    BY Sizes
  <2>5. Len(clientBuf') = Min2(0 * RecordWords, N) /\ Len(clientBuf') # N
    BY Sizes, <2>3, <2>4 DEF Min2
  <2>6. pc'["client"] \in {"wait", "read"}
    BY <1>3, <1>9 DEF AtEase
  <2> QED
    BY <1>2, <1>4, <1>5, <1>6, <2>2, <2>3, <2>5, <2>6 DEF Answering
<1> QED
  BY <1>8, <1>10, <1>11, <1>12 DEF IInv, After

(* When the client has N words they are the block it expects, and there is *)
(* no more of the answer.                                                  *)
LEMMA CompleteBlock ==
  ASSUME IInv, pc["client"] = "callback", Len(clientBuf) >= N
  PROVE  /\ After
         /\ clientOffset \in Starts /\ serverOffset = clientOffset + N /\ serverCurr = 0
         /\ AtEase("server") /\ Silent
         /\ SubSeq(clientBuf, 1, N) \in Seq(Nat)
         /\ SubSeq(clientBuf, 1, N) = [i \in 1 .. N |-> clientOffset + i - 1]
<1>1. StreamsOK /\ HandlersOK /\ BlocksOK
  BY TypeParts DEF IInv
<1>2. After /\ ~Asking
  <2>1. ~AtEase("client") /\ pc["client"] # "read" /\ tls["client"] # "off"
    BY TwoSides DEF AtEase, IInv
  <2>2. ~Off /\ ~Ready
    BY <2>1, TwoSides DEF Off, Ready
  <2>3. ASSUME NEW k \in 1 .. 4 PROVE ~Shaking(k)
    BY <2>1, TwoSides DEF Shaking, Said, Toward, Reader
  <2>4. ~Asking
    BY <2>1, TwoSides DEF Asking, Toward
  <2> QED
    BY <2>2, <2>3, <2>4 DEF IInv, Before
<1>3. PICK o \in Starts, k \in Nat : Answering(o, k)
  BY <1>2 DEF After
<1>4. o \in Nat
  BY NextStart
<1>5. PICK q \in Nat : q = k * RecordWords
  BY Sizes
<1>6. q >= N /\ Len(clientBuf) = N
  <2>1. Len(clientBuf) = IF q < N THEN q ELSE N
    BY <1>3, <1>5 DEF Answering, Min2
  <2> QED
    BY Sizes, <1>5, <2>1
<1>7. PICK rs \in Seq(Records) : rs = AnswerFrom(o) /\ k >= Len(rs)
  BY <1>4, <1>5, <1>6, AnswerRecords
<1>8. /\ Follows(Rest("client"), rs, k) /\ Rest("server") = <<>>
      /\ (\A t \in Sides : bioSend[t] = <<>>) /\ AtEase("server")
  BY <1>3, <1>7, TwoSides DEF Answering, Toward
<1>9. Rest("client") = <<>>
  <2>1. PICK x \in Seq(Part) : x = Rest("client")
    <3>1. bioRecv["client"] \in Seq(Part) /\ wire["client"] \in Seq(Part)
      BY <1>1, TwoSides DEF StreamsOK
    <3>2. Rest("client") \in Seq(Part)
      BY <3>1, ConcatProperties DEF Rest
    <3> QED
      BY <3>2
  <2>2. 2 * k + Len(x) <= 2 * Len(rs) /\ Len(x) \in Nat /\ Len(rs) \in Nat
    BY <1>8, <2>1 DEF Follows
  <2>3. Len(x) = 0
    BY <1>7, <2>2
  <2> QED
    BY <2>1, <2>3
<1>10. Silent
  BY <1>8, <1>9, TwoSides DEF Silent
<1>11. PICK b \in Seq(Nat) :
         b = clientBuf /\ Len(b) = N /\ \A i \in 1 .. N : b[i] = o + i - 1
  BY <1>1, <1>3, <1>6 DEF BlocksOK, Answering
<1>12. SubSeq(b, 1, N) = [i \in 1 .. N |-> b[i]] /\ SubSeq(b, 1, N) \in Seq(Nat)
  BY Sizes, <1>11
<1>13. SubSeq(b, 1, N) = [i \in 1 .. N |-> o + i - 1]
  BY <1>11, <1>12
<1> QED
  BY <1>2, <1>3, <1>8, <1>10, <1>11, <1>12, <1>13 DEF Answering

(* A whole block is checked and the next one asked for.                    *)
LEMMA ClientOnRecivedStep == IInv /\ ClientOnRecived => IInv'
<1> SUFFICES ASSUME IInv, ClientOnRecived PROVE IInv'
  OBVIOUS
<1>1. StreamsOK /\ HandlersOK /\ BlocksOK
  BY TypeParts DEF IInv
<1>2. /\ pc["client"] = "callback" /\ pc' = [pc EXCEPT !["client"] = "read"]
      /\ UNCHANGED <<tls, handshaked, bioRecv, serverCurr, serverOffset>>
  BY DEF ClientOnRecived, serverVars
<1>3. pc'["client"] = "read" /\ pc'["server"] = pc["server"]
  BY <1>1, <1>2, TwoSides DEF HandlersOK
<1>4. \A t \in Sides : pc'[t] = "off" <=> tls'[t] = "off"
  BY <1>2, <1>3, TwoSides DEF IInv
<1>5. Len(clientBuf) \in Nat
  BY <1>1 DEF BlocksOK
<1>6. CASE Len(clientBuf) < N
  <2>1. UNCHANGED <<clientBuf, clientOffset, got, bioSend, wire, cut>>
    BY Sizes, <1>5, <1>6 DEF ClientOnRecived, clientVars
  <2>2. TypeOK'
    <3>1. HandlersOK'
      BY <1>1, <1>2, <2>1, TwoSides DEF HandlersOK
    <3>2. StreamsOK' /\ BlocksOK'
      BY <1>1, <1>2, <2>1 DEF StreamsOK, BlocksOK
    <3> QED
      BY <3>1, <3>2 DEF TypeOK, StreamsOK, HandlersOK, BlocksOK
  <2>3. After /\ \E o \in Starts, k \in Nat : Answering(o, k)
    <3>1. ~AtEase("client") /\ pc["client"] # "read" /\ tls["client"] # "off"
      BY <1>2, TwoSides DEF AtEase, IInv
    <3>2. ~Off /\ ~Ready
      BY <3>1, TwoSides DEF Off, Ready
    <3>3. ASSUME NEW k \in 1 .. 4 PROVE ~Shaking(k)
      BY <1>2, <3>1, TwoSides DEF Shaking, Said, Toward, Reader
    <3>4. ~Asking
      BY <3>1, TwoSides DEF Asking, Toward
    <3> QED
      BY <3>2, <3>3, <3>4 DEF IInv, Before, After
  <2>4. PICK o \in Starts, k \in Nat : Answering(o, k)
    BY <2>3
  <2>5. \A t \in Sides : bioSend'[t] = bioSend[t] /\ Rest(t)' = Rest(t)
    BY <1>2, <2>1 DEF Rest
  <2>6. Toward("client", AnswerFrom(o), k)'
    <3>1. AtEase(Other("client"))'
      BY <1>3, <2>4, TwoSides DEF Answering, Toward, AtEase
    <3> QED
      BY <2>4, <2>5, <3>1, TwoSides DEF Answering, Toward, Follows
  <2>7. Answering(o, k)'
    BY Sizes, <1>2, <1>3, <1>5, <1>6, <2>1, <2>4, <2>6 DEF Answering
  <2>8. Open' /\ clientOffset' \in Starts
    BY <1>2, <2>1, <2>3 DEF After, Open, IInv
  <2> QED
    BY <1>4, <2>2, <2>7, <2>8 DEF IInv, After
<1>7. CASE Len(clientBuf) >= N
  <2>1. /\ got' = SubSeq(clientBuf, 1, N)
        /\ clientOffset' = IF clientOffset + N >= Size THEN 0 ELSE clientOffset + N
        /\ clientBuf' = <<>>
        /\ SSLProcessingSend("client", Bytes(<<Request>>))
    BY <1>7 DEF ClientOnRecived
  <2>2. /\ After
        /\ clientOffset \in Starts /\ serverOffset = clientOffset + N /\ serverCurr = 0
        /\ AtEase("server") /\ Silent
        /\ SubSeq(clientBuf, 1, N) \in Seq(Nat)
    BY <1>2, <1>7, CompleteBlock
  <2>3. /\ clientOffset \in Nat /\ clientOffset + N <= Size
        /\ clientOffset + N # Size => clientOffset + N \in Starts
        /\ 0 \in Starts
    BY <2>2, NextStart
  <2>4. clientOffset' \in Starts /\ clientOffset' \in 0 .. Size - 1
    <3>1. clientOffset' \in Starts
      BY Sizes, <2>1, <2>3
    <3>2. clientOffset' \in Nat /\ clientOffset' < Size
      BY <3>1, NextStart
    <3> QED
      BY Sizes, <3>1, <3>2
  <2>5. PICK rs \in Seq(Records) : rs = <<Request>>
    BY RecordTypes, OneRecord
  <2>6. /\ StreamsOK' /\ \A t \in Sides : bioSend'[t] = <<>>
        /\ Rest("client")' = <<>> /\ Follows(Rest("server")', rs, 0)
    <3>1. Bytes(rs) \in Seq(Part) /\ <<>> \o Bytes(rs) = Bytes(rs)
      BY BytesOfRecords
    <3>2. \A t \in Sides : Rest(t) = <<>> /\ bioSend[t] = <<>>
      BY <2>2 DEF Silent
    <3>3. bioSend["client"] \o Bytes(rs) = Bytes(rs)
      BY Zenon, <3>1, <3>2, TwoSides DEF Sides
    <3> QED
      BY <1>1, <1>2, <2>1, <2>5, <3>1, <3>2, <3>3, TwoSides, Speaks
  <2>7. TypeOK'
    <3>1. cut' \in BOOLEAN
      BY <1>1, <2>1 DEF SSLProcessingSend, HandlersOK
    <3>2. HandlersOK'
      BY <1>1, <1>2, <3>1, TwoSides DEF HandlersOK
    <3>3. <<>> \in Seq(Nat)
      OBVIOUS
    <3>4. BlocksOK'
      BY <1>1, <1>2, <2>1, <2>2, <2>4, <3>3 DEF BlocksOK
    <3> QED
      BY <2>6, <3>2, <3>4 DEF TypeOK, StreamsOK, HandlersOK, BlocksOK
  <2>8. Toward("server", <<Request>>, 0)'
    <3>1. AtEase(Other("server"))' /\ Rest(Other("server"))' = <<>>
      BY <1>3, <2>6, TwoSides DEF AtEase
    <3>2. Toward("server", rs, 0)'
      BY <2>6, <3>1, TwoSides, TowardNext
    <3> QED
      BY <2>5, <3>2
  <2>9. Level'
    <3>1. ServerStart' = clientOffset'
      BY Sizes, <1>2, <2>1, <2>2, <2>3 DEF ServerStart
    <3> QED
      BY <2>1, <3>1 DEF Level
  <2>10. Asking' /\ Open'
    BY <1>2, <1>3, <2>2, <2>8, <2>9 DEF Asking, AtEase, After, Open
  <2> QED
    BY <1>4, <2>4, <2>7, <2>10 DEF IInv, After
<1> QED
  BY Sizes, <1>5, <1>6, <1>7

-----------------------------------------------------------------------------
(* The connection begins with nothing said.                                *)
LEMMA SSLStreamInit == Init => IInv
<1> SUFFICES ASSUME Init PROVE IInv
  OBVIOUS
<1>1. 0 \in Starts
  <2>1. 0 * N = 0
    BY Sizes
  <2> QED
    BY Sizes, <2>1 DEF Starts
<1>2. <<>> \in Seq(Part) /\ <<>> \in Seq(Nat) /\ <<>> \o <<>> = <<>>
  OBVIOUS
<1>3. StreamsOK
  BY <1>2 DEF Init, StreamsOK
<1>4. HandlersOK
  BY DEF Init, HandlersOK
<1>5. BlocksOK
  BY Sizes, <1>2 DEF Init, BlocksOK
<1>6. Off
  BY <1>2 DEF Init, Off, Silent, Rest
<1>7. Level
  BY Sizes DEF Init, Level, ServerStart
<1> QED
  BY <1>1, <1>3, <1>4, <1>5, <1>6, <1>7, TypeParts DEF Init, IInv, Before

(* A step that changes nothing.                                            *)
LEMMA Stutter == IInv /\ UNCHANGED vars => IInv'
<1> SUFFICES ASSUME IInv, UNCHANGED vars PROVE IInv'
  OBVIOUS
<1>1. /\ UNCHANGED <<pc, tls, handshaked, bioRecv, bioSend, wire, cut>>
      /\ UNCHANGED <<serverCurr, serverOffset, clientBuf, clientOffset, got>>
  BY DEF vars, sslVars, serverVars, clientVars
<1>2. TypeOK' /\ clientOffset' \in Starts /\ \A s \in Sides : pc'[s] = "off" <=> tls'[s] = "off"
  BY <1>1 DEF IInv, TypeOK
<1>3. Level = Level' /\ Silent = Silent' /\ Open = Open'
  BY <1>1 DEF Level, ServerStart, Silent, Rest, Open
<1>4. (Off => Off') /\ (Ready => Ready') /\ \A s \in Sides : AtEase(s) => AtEase(s)'
  BY <1>1, <1>3 DEF Off, Ready, AtEase
<1>5. ASSUME NEW rs, NEW k, NEW s \in Sides
      PROVE  (Toward(s, rs, k) => Toward(s, rs, k)') /\ (Said(s, rs) => Said(s, rs)')
  BY <1>1, <1>4, TwoSides DEF Toward, Said, Follows, Rest
<1>6. ASSUME NEW k \in 1 .. 4, Shaking(k) PROVE Shaking(k)'
  BY <1>1, <1>5, <1>6, TwoSides DEF Shaking, Reader
<1>7. Before => Before'
  BY <1>1, <1>3, <1>4, <1>6 DEF Before
<1>8. Asking => Asking'
  BY <1>1, <1>3, <1>4, <1>5, TwoSides DEF Asking
<1>9. ASSUME NEW o \in Starts, NEW k \in Nat, Answering(o, k) PROVE Answering(o, k)'
  BY <1>1, <1>5, <1>9, TwoSides DEF Answering
<1>10. After => After'
  BY <1>3, <1>8, <1>9 DEF After
<1> QED
  BY <1>2, <1>7, <1>10 DEF IInv

(* Every step keeps the sides taking turns.                                *)
LEMMA SSLStreamStep == IInv /\ [Next]_vars => IInv'
<1> SUFFICES ASSUME IInv, Next PROVE IInv'
  BY Stutter
<1>1. ASSUME NEW s \in Sides, Complition(s) PROVE IInv'
  BY <1>1, ReceiveStep DEF Complition
<1>2. CASE Accept
  BY <1>2, TwoSides, ReceiveStep DEF Accept
<1>3. ASSUME NEW s \in Sides, SSLProcessingRecv(s) PROVE IInv'
  BY <1>3, ReadRecordStep, ReadEndsStep DEF SSLProcessingRecv
<1> QED
  BY <1>1, <1>2, <1>3, TwoSides, ConnectStep, ServerOnRecivedStep, ClientOnRecivedStep
     DEF Next, Server, Client

(* Client and server take turns, from the first flight of the handshake    *)
(* on, wherever the records are cut or truncated.                          *)
THEOREM SSLStreamInvariant == Spec => []IInv
BY SSLStreamInit, SSLStreamStep, PTL DEF Spec

(* The BIOs, the handshake states and the offsets of both sides keep their *)
(* types.                                                                  *)
THEOREM TypeCorrect == Spec => []TypeOK
<1>1. IInv => TypeOK
  BY DEF IInv
<1> QED
  BY <1>1, SSLStreamInvariant, PTL

(* SSL_read never fails on a mutilated or unexpected record                *)
(* (Transport.cpp:618), whatever the sends of either side lost.            *)
THEOREM NeverBadRecord == Spec => []NoBadRecord
<1>1. IInv => NoBadRecord
  <2> SUFFICES ASSUME IInv, NEW s \in Sides PROVE pc[s] # "dead"
    BY DEF NoBadRecord
  <2>1. tls[s] = "off" => pc[s] = "off"
    BY DEF IInv
  <2>2. Off \/ Ready => pc[s] # "dead"
    BY <2>1, TwoSides DEF Off, Ready, AtEase
  <2>3. ASSUME NEW k \in 1 .. 4, Shaking(k) PROVE pc[s] # "dead"
    BY <2>3, TwoSides DEF Shaking, Reader, Said, Toward, AtEase
  <2>4. Asking => pc[s] # "dead"
    BY TwoSides DEF Asking, Toward, AtEase
  <2>5. ASSUME NEW o, NEW k, Answering(o, k) PROVE pc[s] # "dead"
    BY <2>5, TwoSides DEF Answering, Toward, AtEase
  <2> QED
    BY <2>2, <2>3, <2>4, <2>5 DEF IInv, Before, After
<1> QED
  BY <1>1, SSLStreamInvariant, PTL

(* No request and no block is left undelivered for want of m_Handshaked    *)
(* (Transport.cpp:609) when a handler is done.                             *)
THEOREM NeverStuck == Spec => []NothingStuck
<1>1. IInv => NothingStuck
  <2> SUFFICES ASSUME IInv
               PROVE  /\ pc["server"] = "wait" => serverCurr = 0
                      /\ pc["client"] = "wait" => Len(clientBuf) < N
    BY DEF NothingStuck
  <2>1. Len(<<>>) < N
    BY Sizes
  <2>2. CASE Before
    BY <2>1, <2>2 DEF Before, Level
  <2>3. CASE Asking
    BY <2>1, <2>3 DEF Asking, Level
  <2>4. ASSUME NEW o \in Starts, NEW k \in Nat, Answering(o, k)
        PROVE  serverCurr = 0 /\ (pc["client"] = "wait" => Len(clientBuf) < N)
    <3>1. PICK q \in Nat : q = k * RecordWords
      BY Sizes
    <3>2. Len(clientBuf) = IF q < N THEN q ELSE N
      BY <2>4, <3>1 DEF Answering, Min2
    <3> QED
      BY Sizes, <2>4, <3>2 DEF Answering
  <2> QED
    BY <2>2, <2>3, <2>4 DEF IInv, After
<1> QED
  BY <1>1, SSLStreamInvariant, PTL

(* The SSL connection implements BlockService: the end of the client's     *)
(* handshake is its Ask, a complete block its Deliver.                     *)
THEOREM SSLStreamImplementsBlocks == Spec => BlocksInOrder
<1>1. Init => Blocks!Init
  BY TwoSides DEF Init, Blocks!Init
<1>2. ASSUME IInv, [Next]_vars PROVE [Blocks!Next]_(Blocks!vars)
  <2>0. handshaked \in [Sides -> BOOLEAN]
    BY <1>2 DEF IInv, TypeOK
  <2>1. CASE Connect \/ Accept \/ ServerOnRecived \/ UNCHANGED vars
    BY <2>1 DEF Connect, Accept, Receive, ServerOnRecived, vars, sslVars, clientVars,
                Blocks!vars
  <2>2. ASSUME NEW s \in Sides, Complition(s) \/ ReadRecord(s)
        PROVE  UNCHANGED Blocks!vars
    BY <2>2 DEF Complition, Receive, ReadRecord, ReadHandshake, ReadData, ReadFails,
                clientVars, Blocks!vars
  <2>3. ASSUME NEW s \in Sides, ReadEnds(s) PROVE [Blocks!Next]_(Blocks!vars)
    <3>1. /\ UNCHANGED <<clientOffset, got>>
          /\ handshaked'["client"] \in {handshaked["client"], tls["client"] = "open"}
      BY <2>3, <2>0, TwoSides DEF ReadEnds, Marked, clientVars
    <3>2. handshaked["client"] => handshaked'["client"]
      <4>1. SUFFICES ASSUME handshaked["client"] PROVE tls["client"] = "open"
        BY <3>1
      <4>2. ~Before
        BY <4>1, TwoSides DEF Before, Off, Ready, Shaking
      <4> QED
        BY <1>2, <4>2, TwoSides DEF IInv, After, Open
    <3>3. handshaked'["client"] \in BOOLEAN /\ handshaked["client"] \in BOOLEAN
      BY <2>0, <3>1, TwoSides
    <3>4. CASE handshaked'["client"] = handshaked["client"]
      BY <3>1, <3>4 DEF Blocks!vars
    <3>5. CASE ~handshaked["client"] /\ handshaked'["client"] = TRUE
      BY <3>1, <3>5 DEF Blocks!Next, Blocks!Ask
    <3> QED
      BY <3>2, <3>3, <3>4, <3>5
  <2>4. CASE ClientOnRecived
    <3>1. pc["client"] = "callback" /\ handshaked' = handshaked
      BY <2>4 DEF ClientOnRecived
    <3>2. CASE ~(Len(clientBuf) >= N)
      BY <2>4, <3>1, <3>2 DEF ClientOnRecived, clientVars, Blocks!vars
    <3>3. CASE Len(clientBuf) >= N
      <4>1. /\ got' = SubSeq(clientBuf, 1, N)
            /\ clientOffset' = IF clientOffset + N >= Size THEN 0 ELSE clientOffset + N
        BY <2>4, <3>3 DEF ClientOnRecived
      <4>2. /\ After /\ clientOffset \in Starts
            /\ SubSeq(clientBuf, 1, N) = [i \in 1 .. N |-> clientOffset + i - 1]
        BY <1>2, <3>1, <3>3, CompleteBlock
      <4>3. clientOffset \in Nat /\ clientOffset + N <= Size
        BY <4>2, NextStart
      <4>4. clientOffset' = IF clientOffset + N = Size THEN 0 ELSE clientOffset + N
        BY Sizes, <4>1, <4>3
      <4>5. clientOffset * 1 = clientOffset /\ N * 1 = N
        BY Sizes, <4>3
      <4>6. got' = [i \in 1 .. N * 1 |-> clientOffset * 1 + i - 1]
        BY Zenon, <4>1, <4>2, <4>5
      <4>7. handshaked["client"]
        BY <4>2, TwoSides DEF After, Open
      <4> QED
        BY <3>1, <4>4, <4>6, <4>7 DEF Blocks!Next, Blocks!Deliver, Blocks!Netdata
    <3> QED
      BY <3>2, <3>3
  <2> QED
    BY <1>2, <2>1, <2>2, <2>3, <2>4, TwoSides
       DEF Next, Server, Client, SSLProcessingRecv
<1> QED
  BY <1>1, <1>2, SSLStreamInvariant, PTL DEF Spec, BlocksInOrder, Blocks!Spec

=============================================================================
