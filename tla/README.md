# A verification development for IOCP_SSL

IOCP_SSL is a TCP/UDP/SSL server and client built on Windows I/O completion
ports.  `main` starts one `Server` and one `Client` in a process; the client
finds the server by a UDP broadcast, opens 25 TCP and 10 SSL connections to it,
and on each connection, and over UDP, asks again and again for the next 15000
words of the array `g_NETDATA`, which holds 0, 1, 2, ... 29999.  The client
checks the words it gets and a statistics thread prints the rates.

These TLA+ modules model the engine, both listeners, the client's connections,
the protocols on top of them and the start and end of an endpoint.  TLC checks
them on small instances; TLAPS proves every safety property the passing runs
check, and every refinement, for every instance. Liveness is TLC's alone.
Line numbers refer to the files in `src/`.

## 1. Inventory

| Component | State it keeps | Operations | Who calls it |
|---|---|---|---|
| `IOCPBase` (base.cpp) | `m_hIOCompletionPort`, `m_Socket2Transports` and its critical section, `m_RecvThreads`, `m_TimerThread` | `Recv` (loop of each of 4 workers), `AssociateWithIOCP`, `AddTransport`, `RemoveTransport`, `PrintTotalRecived`, `StartUDP`, constructor, destructor | worker threads, statistics thread, endpoint thread |
| `TCPTransport` (Transport.cpp) | `m_Socket`, `m_RecvBuffer`, `m_ReciveOverlapped`, `m_CurrRecived` | `Connect`, `Send`, `StartReceiving`, `Complition`, destructor | the worker that took its packet |
| `TCPServer` | the listening socket, `m_AcceptedTransport` | `StartAcceptor`, `Complition`, `AcceptNext` | endpoint thread once, then workers |
| `UDPDomain`, `UDPTransport` | one socket, one buffer, `m_RecvAddress`, `m_sockaddr2UDPTransports` | `SendBroadcast`, `Bind`, `StartReceiving`, `Complition`, `Remove`, `Send` | endpoint thread, then workers |
| `SSLTransport`, `SSLServer` | OpenSSL state, two memory BIOs, `m_Handshaked`, encrypted and decrypted buffers | `Connect`, `Accept`, `Complition`, `Send`, the `SSLProcessing...` loops | as `TCPTransport`, `TCPServer` |
| `Server` (server.cpp) | `m_Quit`, `m_CurrentNumOffset` of each transport | `ThreadMain`, `OnRecived`, `OnUDPNewRemoteAddress` | endpoint thread, workers (callbacks) |
| `Client` (client.cpp) | `m_Quit`, `m_ServerAddress`, `m_CurrentNumOffset` of each transport | `ThreadMain`, `OnUDPNewRemoteAddress`, `SetupAdditionalConnections`, `OnTransportConnected`, `OnRecived`, `FastValidate` | endpoint thread, workers (callbacks) |
| `Thread` (Threads.h/.cpp) | `m_Finished`, the handle | `RunThread`, `Quit`, `QuitSome`, `Join`, `JoinSome`, `threadMain`, destructor | every owner of a thread |
| `ProgramThread`, `main` (IOCP.cpp) | `m_ClientOrServer` | `ThreadMain`, `SendQuit` | main thread, endpoint thread |
| certificate, exceptions, console, OpenSSL locks | constants, messages, leaf locks | | |

**Interaction.**  A socket is associated with the completion port under its
transport (or listener) as key.  The kernel posts a packet when a `WSARecv`,
`WSARecvFrom` or `AcceptEx` completes; any worker takes it and calls the virtual
`Complition` of the key, which calls back into `Server` or `Client`
(`OnRecived`), which calls `Send`; then the handler starts the next receive.
The map of transports is the only state guarded by a lock.  Transports have
none.

**What is hard.** The order in which several workers handle packets of one
listener or one transport; a slot shared by two accept handlers; a transport
that the client hands to its workers before it has sent the first request; reuse
of handles by the kernel; exceptions that end workers; sends that take only part
of the data; two offsets that must agree without being transmitted; datagrams
that are lost, doubled or overtake; and a destruction that runs while workers
may still be in handlers. `PROJECT.json` lists every such hazard with its line
and the properties aimed at it.

**What makes each component correct.**
- Engine: one handler per transport at a time, none on a deleted transport, no
  byte lost or counted twice, the map names live transports by their own handle.
- Listener: one accept in flight, and another one after each connection until an
  accept fails.
- SSL listener: one context and one handshake for each connection, and beyond
  that nothing the TCP listener does not do.
- Client's connections: handed over early without harm, known to the map, one
    answer owed at a time, silent only when a send dropped something.
- Protocol: never two requests, an answer within the array, no wrong word, no
  end to the blocks.
- SSL: the handshake ends on both sides, no record is mutilated, nothing
  decrypted is left lying, and above it the protocol holds as over TCP.
- UDP: one datagram under way per client, no client stranded by a handler that
  returns.
- Lifecycle: the receive threads end before what they use is destroyed; quitting
  ends.

## 2. Modules

```
IOCPBase --- TCPServer ---+--- MCTCPServer (TLC)
    |                     +--- SSLServer --- MCSSLServer (TLC)
    +------- ClientSetup

BlockService ...... Stream, SSLStream, Discovery (each an instance of it)

Lifecycle

IOCPBaseProofs --- TCPServerProofs --- SSLServerProofs
       +---------- ClientSetupProofs
StreamProofs    SSLStreamProofs    DiscoveryProofs    LifecycleProofs
```

A line is an EXTENDS. Each `...Proofs` module also extends the module it is
about and holds what TLAPS proves of it (section 4).

`TCPServer` composes the engine of `IOCPBase` with the listening socket and the
server's callback. `Stream` looks at one connection, both ends of it, and relies
on what `TCPServer` and `ClientSetup` establish about handlers: one at a time on
each side (`Exclusive`, `HandedOver`). `Discovery` is the same protocol over
UDP, `SSLStream` over an SSL connection. All three are shown to implement
`BlockService`. `SSLServer` and `ClientSetup` are the two other users of the
engine: the SSL listener, shown to implement `TCPServer`, and the client.
`Lifecycle` replaces the handlers by "runs, calls back, returns or throws" and
looks at the threads.

### IOCPBase and TCPServer

A worker's call stack is its label `pc[w]`, the transport of its handler
`obj[w]` and its argument `nbytes[w]`.  A handler is cut into actions where
another thread can look: at kernel calls and at accesses to shared memory
outside the critical section.

| Model | Code |
|---|---|
| `Recv`, `RecvPacket` | `IOCPBase::Recv`, base.cpp:34-103; a failed completion is dropped |
| `AcceptBegin`, `AcceptNext`, `StoreAccepted`, `AddAccepted` | `TCPServer::Complition` and `AcceptNext`, Transport.cpp:152-191, 271-298; `AcceptNext` and `StoreAccepted` are apart because the accept may complete before line 297 |
| `Complition`, `OnRecived`, `StartReceiving` | `TCPTransport::Complition`, Transport.cpp:353-380, with `Server::OnRecived`, server.cpp:60-88 |
| `RemoveTransport`, `EraseTransport` | `IOCPBase::RemoveTransport`, base.cpp:130-154; apart because `delete` at line 149 closes the socket and the kernel may give its handle away before line 150 |
| `CopyTransports`, `PrintTransport` | `PrintTotalRecived`, base.cpp:207-263, the copy inside and the walk outside the critical section |
| `Die` | an exception leaves `Recv`; Threads.cpp:70-100 |
| `GoWild` | the worker has followed a deleted or uninitialised pointer; nothing more is said of it |
| `port`, `recvs`, `accepting`, `KernelRecv`, `KernelAccept`, `PeerClose`, `PeerReset` | Windows: packets in FIFO order, completions in any order |

A `TCPTransport` object is allocated once in a behaviour (`life`), socket
handles are reused freely (`sock`, `FreeSockets`).  The history variable
`overrun` becomes TRUE when a worker reads `m_AcceptedTransport` for an accept
other than the one it holds.  That is the program's known race
(`TCPServerAssert`); the properties of the engine are stated for the behaviours
before it, because after it two handlers share a transport and a use after free
is what one must expect.

`Exclusive`, `NoUseAfterFree`, `BytesAccounted`, `ReceivingIsRegistered`,
`NoneForgotten` and `ListensUntilFailure` therefore begin with `~overrun`;
`SingleAcceptEx` and `TableSound` hold without it.

Two things go wrong in the code without any race, and history variables record
them. `abandoned` holds each connection whose own `AcceptNext` threw
(Transport.cpp:275-294), which is then neither in the map nor received from, and
`Listener` from the first accept on that completed with an error
(base.cpp:92-95) or could not be issued: nothing accepts any more.
`NoneForgotten` and `ListensUntilFailure` say that these are the only ways in
which a connection or the listener drops out. `cut` marks the connections on
which `send` took only a part of an answer (Transport.cpp:316-323): the request,
`requested` until the server consumes it, is used up and its client waits for
the rest in vain.

### SSLServer

`SSLServer` extends `TCPServer` by `SSLServer::Complition` (Transport.cpp:923-927):
`Accept` takes `m_AcceptedTransport` and gives that transport its SSL context,
`SSLAcceptBegin` is the inherited `Complition`, which takes the slot a second
time.  `contexts` counts how often a transport's context was created, `secured`
is what the first reading found.  With no context `SSLProcessingRecv` follows
uninitialised pointers; with a second one the client's bytes do not begin a
handshake and `SSL_read` throws (`SSLProcessingRecvFails`).  A request is here
anything the server has to answer: a flight of the handshake or a record.
`HandshakeOnce` and `ImplementsTCPServer` hold until the first `overrun`, which
here is a reading of the slot for another accept by either of the two.

### ClientSetup

The worker that took the server's first datagram runs
`SetupAdditionalConnections` (client.cpp:34-64), one action per call: `Connect`,
for SSL the first flight (`SSLProcessingConnect`), `Add`, `Start`, and for TCP
the request that follows `StartReceiving` (`Ask`). The other workers run the
engine and `Client::OnRecived` on the connections that exist. Of the server it
has that it answers what it is asked, piece by piece, and may close or reset;
`owed` are the bytes it has still to send. A send of either side may take only a
part of its data: a cut request is never answered, of a cut answer the rest
never comes (`ServerDrops`), and `dropped` counts these bytes. A worker that
finds a connection closed deletes it, even when the setup stands before its
`Send`: then the setup goes on with freed memory (`GoWild` in `Ask`), which
`HandedOver` allows for that case only. The model has no statistics thread;
`TCPServer` has it.

### Stream and BlockService

`BlockService` says what a connection promises: once asked, it hands over the
array block by block, in order, for ever.  `Stream` has the two byte streams of
a connection, both `m_CurrRecived`, both offsets and the client's buffer.  A
byte of `g_NETDATA` is named by its position; of a request only the number of
bytes is kept, since all carry the same number.  `Truncate` lets `send` take any
part of what it is given, as `TCPTransport::Send` (Transport.cpp:316-323)
ignores.  The refinement maps `asked` to `started`, `next` to the client's
offset and `block` to what `FastValidate` last accepted.

### SSLStream

An `SSLTransport` on either side of one connection.  The unit is the record, in
two parts: `wire`, `bioRecv` and `bioSend` are sequences of parts, so TCP may
deliver half a record and `SSLProcessingSend` may lose the end of one.  A worker
in `SSLProcessingRecv` is at `"read"` (its loop), in `"callback"` (`OnRecived`)
or back at `"wait"` for a `WSARecv`; `"dead"` is the exception of
Transport.cpp:619.  `ReadRecord` is a turn of the loop that finds a record,
`ReadEnds` the turn that finds none, with the test of `m_Handshaked`,
`OnTransportConnected` and the last `SSLProcessingSend`.

OpenSSL is external.  What is assumed of it: a handshake of four flights, as TLS
up to 1.2 has it and as the libraries named in dep/readme.txt speak it; a record
is handed out when it is whole; anything unexpected is an error.  With a version
in which the client finishes first, the request could come before the server has
set `m_Handshaked`, and Transport.cpp:609 would leave it undelivered: this is
the case `NothingStuck` is about.  As in `Stream`, the refinement to
`BlockService` maps `asked` to the client's `m_Handshaked`.

### Discovery

One server, several clients with an address each, and a network that is a bag
of datagrams.  `armed`, `handler` and `deaf` say whether a `UDPDomain` has a
`WSARecvFrom` outstanding, runs a handler or will never receive again.
`ServerComplition` is `UDPDomain::Complition` with `Server::OnRecived` or
`OnUDPNewRemoteAddress`; `NewRemoteAddress` and `Complition` are the client's.
Words stand for their bytes.  When `sendto` fails the handler throws before the
next `WSARecvFrom` and its side is deaf (`ServerThrows`, `ClientThrows`;
Transport.cpp:714-718, 867).

### Lifecycle

`main` (three steps), the endpoint's thread (twelve steps from construction to
`Free`), the receive threads, the statistics thread and the kernel. `process`
records a bad end: the failed assert of IOCP.cpp:43, a store through a dangling
pointer, a pure virtual call, an exception out of a destructor. `busy` is a
history variable: the destruction met traffic, that is, a completion was on the
port or in a handler when it began, or was posted later. Operations that are
merely outstanding, as every endpoint past its setup has some, do not count.
`JoinSome`'s 2000 ms are modelled as enough for a thread that is ready to run
and not for one that is in a handler or waits for a packet that does not come.

## 3. Runs

| Run | Instance | Distinct states | Question |
|---|---|---|---|
| `TCPServer` | 2 workers, 3 transports, 3 handles, 2 connections, requests of 2 bytes, 1 reset, 1 cut answer | 105,143 | `TypeOK`, `Exclusive`, `NoUseAfterFree`, `BytesAccounted` |
| `TCPServerFaults` | 4 transports over 3 handles, 3 connections, 1-byte requests, 1 reset, failing accepts | 787,468 | `SingleAcceptEx`, `NoneForgotten`, `ListensUntilFailure`, `TableSound`, `ReceivingIsRegistered` |
| `TCPServerLiveness` | 2 workers, 3 transports, 3 handles, 2 connections, requests of 2 bytes, 1 reset, cut answers, failing accepts, fairness | 584,094 | `RequestAnswered`, `ListensAgain` |
| `TCPServerAssert` | as `TCPServer` without resets | violated | `OneRequestAtATime`: server.cpp:64 |
| `TCPServerWorkers` | 1 connection, 1 reset | violated | `WorkersStay`: base.cpp:44 |
| `SSLServer` | 2 workers, 3 transports, 3 handles, 2 connections, requests of 2 bytes, 1 reset, 1 cut answer | 139,535 | `SSLTypeOK`, `HandshakeOnce`, refinement `ImplementsTCPServer` |
| `ClientSetup` | 2 workers, 1 TCP and 1 SSL connection over 2 handles, answers of 3 bytes, cut sends, 1 reset, fairness | 467,988 | `TypeOK`, `HandedOver`, `AnswerAccounted`, `KnownToMap`, `KeepsAsking` |
| `Stream` | answers of 3 words of 4 bytes, array of 9 words, truncated sends, fairness | 769 | `TypeOK`, the asserts of the server `ServerAsserts`, `NoExcess`, `NoErrors`, refinement `BlocksInOrder`, `BlocksForEver` |
| `SSLStream` | answers of 5 words in records of at most 2, array of 15 words, truncated sends, fairness | 888 | `TypeOK`, `NoBadRecord`, `NothingStuck`, refinement `BlocksInOrder`, `Delivers` |
| `Lifecycle` | 3 workers, 3 completions, failing starts, fairness | 73,529 | `TypeOK`, `PoolGoneFirst`, `QuietIsClean`, `Ends` |
| `LifecycleAssert` | 2 workers | violated | `SomeoneToQuit`: IOCP.cpp:43 |
| `Discovery` | 2 clients, 3 of 6 words, 1 loss, 1 duplicate, 1 exit, refused connections, failing `sendto`, fairness | 221,875 | `TypeOK`, `TakeTurns`, `NeverStalls`, refinement `BlocksInOrder`, `Connects`, `BlocksForEver` |

**Bounds and why they are enough.** Two workers are what the races need: one in
a handler, one that takes the next packet; the proofs cover any number. Two
connections let one be closed while the other is accepted, and a third
(`TCPServerFaults`) reuse the first one's handle. `ClientSetup` has one
connection of each kind, which can be up at once, and the second may be given
the handle of the first when that was closed, perhaps before its map entry is
erased; an answer of three bytes can arrive in three pieces, or lose its end
after one or two; each connection may have a send cut. The safety of the setup
is proved for any number of connections. A request of two bytes is the smallest
that can arrive in pieces, on the accept and after it. One reset kills one of
the two workers, so that "as long as a worker is left" is a case. Three answers
fill the array of `Stream`, so that going on, wrapping around and starting again
differ; the two answers of `Discovery` are the fewest of which one is not the
first; four bytes to a word leave a word cut in every place. On an SSL
connection an answer is three records, the last one shorter, and three answers
fill the array; a send may stop between any two parts, inside a record or
between two. Three receive threads with three completions let a busy thread, a
finished one and an idle one meet the quit packets. One loss, one duplicate and
one exit each suffice to break the alternation of requests and answers; the
proofs are for any number of them.

All counters bounded by a guard are named: `MaxResets`, `MaxConnections`,
`MaxCuts`, `MaxIO`, `MaxLoss`, `MaxDup`, `MaxExits`. `FailAccepts`, `Truncate`,
`Refuse` and `Throws` switch failures on. Where a behaviour can end because a
bound is reached or because the user never presses a key, deadlock is not an
error and the configuration says so.

`MCTCPServer` and `MCSSLServer` use symmetry of workers, transports and handles
for safety. The liveness run has none; it numbers the transports and keeps, by a
constraint, the behaviours that allocate them in order, and it stops after an
`overrun`, where both liveness properties hold by their own wording.

**Fairness.**  Windows schedules every thread that can run: weak fairness of
each worker, of the endpoint's thread, of the statistics thread.  The kernel
delivers what has arrived once a receive is outstanding: weak fairness of
`KernelRecv` and of the streams' handlers; strong fairness of `ServerReceives`
for each UDP client, because their datagrams queue in one socket buffer in
order.  In `ClientSetup` the server answers each connection it has
(`ServerAnswers`), unless its send cuts the answer (`ServerDrops`), which is what
`RequestAnswered` says of it.  Nothing makes a
client connect, send or close, a user press a key, or the network complete an
operation.

Liveness is conditional where nothing repeats what was dropped or takes up again
what has failed, and each property names its conditions:
- `RequestAnswered`: the client keeps its connection open, a worker is left,
  `send` takes the whole answer, the `AcceptNext` that follows the connection
  does not throw, and no slot was read early.
- `ListensAgain`: no accept has completed with an error, no `AcceptNext` has
  thrown, a worker is left, and no slot was read early.
- `KeepsAsking`: the connection is open, a worker is left, and no send of either
  side has dropped anything on it.
- `BlocksForEver` of `Stream`: the request and the answers are always sent whole;
  `Delivers`: no send was truncated (`cut`).
- `Connects` and `BlocksForEver` of `Discovery`: the client is not `Stranded`, by
  a loss, its own end, refused connections, a `sendto` that failed on either
  side, or the `WSAECONNRESET` that some client's end brings to the server.
- `Ends`: the process has not come to a bad end.

The runs of these properties let all of these failures happen.

**Properties that are violated.**  Three runs show disagreements between the
code and what it says of itself:
- `OneRequestAtATime`: `AcceptNext` issues `AcceptEx` before it stores
  `m_AcceptedTransport`; the worker that takes the completion in between gives
  the new connection's bytes to the previous connection's transport, and the
  assert of server.cpp:64 fails.
- `WorkersStay`: the comment base.cpp:44 promises workers until shutdown, an
  exception on a reset connection ends one.
- `SomeoneToQuit`: the assert of IOCP.cpp:43 fails when a key was typed before
  the endpoint's thread has stored its object's address.

## 4. Proofs

TLAPS proves, in the eight `...Proofs` modules and without any fact taken on
trust, for all values of the constants that meet the named assumptions:

| Module | Theorem | Statement |
|---|---|---|
| `TCPServerProofs` | `TypeCorrect`, `SingleAccept` | `TypeOK` and `SingleAcceptEx` always hold |
| | `OwnershipInvariant`, `ServiceInvariant` | the inductive invariants `OwnInv`, `ServiceInv` |
| | `ExclusiveHandlers`, `NeverUsedAfterFree` | `Exclusive`, `NoUseAfterFree` |
| | `TableAlwaysSound`, `ReceivingAlwaysRegistered` | `TableSound`, `ReceivingIsRegistered` |
| | `AllBytesAccounted` | `BytesAccounted` |
| | `NeverForgotten`, `AlwaysListens` | `NoneForgotten`, `ListensUntilFailure` |
| `SSLServerProofs` | `SSLTypeCorrect`, `SSLInvariant` | `SSLTypeOK` and the invariant `SSLInv` |
| | `SSLImplements` | `SSLSpec => ImplementsTCPServer` |
| | `HandshakeOnceAlways` | `HandshakeOnce` |
| | `SSLExclusive`, `SSLNoUseAfterFree`, `SSLTableSound`, `SSLBytesAccounted`, `SSLReceivingRegistered`, `SSLNeverForgotten` | what `TCPServer` promises, of the SSL listener |
| `ClientSetupProofs` | `SetupInvariant`, `TypeCorrect` | the inductive invariant `IInv`, `TypeOK` |
| | `AlwaysHandedOver`, `HandlersAlwaysLive` | `HandedOver`, and no handler on a deleted transport |
| | `AnswerAlwaysAccounted`, `AlwaysKnownToMap` | `AnswerAccounted`, `KnownToMap` |
| `StreamProofs` | `StreamInvariant`, `StreamTypeCorrect` | the inductive invariant `IInv`, `TypeOK` |
| | `AssertsHold`, `NothingDropped`, `ErrorFree` | `ServerAsserts`, `NoExcess`, `NoErrors` |
| | `StreamImplementsBlocks` | `Spec => BlocksInOrder` |
| `SSLStreamProofs` | `SSLStreamInvariant`, `TypeCorrect` | the inductive invariant `IInv`, `TypeOK` |
| | `NeverBadRecord`, `NeverStuck` | `NoBadRecord`, `NothingStuck` |
| | `SSLStreamImplementsBlocks` | `Spec => BlocksInOrder` |
| `DiscoveryProofs` | `DiscoveryInvariant`, `TypeCorrect` | the inductive invariant `IInv`, `TypeOK` |
| | `AlwaysTakeTurns`, `StallsNever` | `TakeTurns`, `NeverStalls` |
| | `DiscoveryImplementsBlocks` | `Spec => BlocksInOrder` |
| `LifecycleProofs` | `LifecycleInvariant`, `TypeCorrect` | the inductive invariant `IInv`, `TypeOK` |
| | `PoolAlwaysGoneFirst`, `QuietAlwaysClean` | `PoolGoneFirst`, `QuietIsClean` |

`IOCPBaseProofs` has the lemmas about the completion port and about sums over at
most one element that `TCPServerProofs` and `ClientSetupProofs` share. TLC
checked every inductive invariant as an invariant of its run before it was
proved.

**Assumptions.**  `ConstantsAssumption` and `ServerAssumption` only tell the
constants apart and give them types; the sets may be of any size, even infinite.
`SetupAssumption` numbers the client's connections in the order in which the
setup makes them, the SSL ones last, as client.cpp:36 and 53 do.
`LifecycleAssumption` says that the pool is finite: its quit packets are
counted.  `StreamAssumption`, `SSLAssumption` and `DiscoveryAssumption` say that
whole answers fill the array, `Size = k * N`.  The code's static_assert
(client.cpp:49) demands only `N <= Size`; 15000 and 30000 meet the stronger
condition, and without it the server's wrap and the client's would differ.
Discovery further takes `N > 1`: the echo of a broadcast is one word and must
not pass for a block.

**The ownership argument.**  `Exclusive` is not inductive.  The right to act on
a transport is passed on: from an outstanding accept or receive to its packet,
from the packet to the worker that takes it, from the worker to the next
operation.  `OwnInv` says, as long as there was no overrun, that each transport
has one holder (`HandledByOne`), that an unallocated transport has none and a
deleted one only the worker that is erasing it (`LifeInv`), and that a worker in
a handler has a transport on its stack, the one of its packet when it handles an
accept (`StackInv`).  The lemmas `Calm`, `Still`, `OwnRecv`, `OwnAcceptNext`,
`OwnStartReceiving`, `OwnRemove` and `OwnPost` take one kind of hand-over each.
`SingleAcceptEx` is inductive with the types.

**The map and the bytes.**  `TableInv` holds in every run, early readings of the
slot included, for the map is behind the critical section: every entry names a
live transport under its own handle, or a deleted one that the owner of the
section is just erasing.  That two live transports never share a handle
(`SocketsApart`) is what lets a new connection overwrite nothing but such an
entry's handle.  `Traffic` says of each transport which packets, operations and
handlers it may have in which state of its connection, that it is in the map
when it must be found there, and that its bytes are `Balanced`.
`BytesAccounted` sums over packets and handlers; because of `HandledByOne` the
sums have at most one element, and `TotalOfNone` and `TotalOfOne` give their
values.  A step changes `Traffic` only of the transport of its own handler;
`Elsewhere` says so once for all the others.  For the SSL listener these results
hold because each of its steps is a step of `TCPServer` until the first overrun
(`ServiceUntilOverrun`), and `TableSound` also after it (`SSLTableStep`).

**The argument about the hand-over.**  `IInv` of `ClientSetup` divides a
connection's life between the setup and the workers: `SetterInv` what the setup
has still to do and that nobody else can do it, `Conn(t)` that one acts on a
connection at most and that its books are right, which is "one answer is owed
from the first request on, none before, and what is not on its way was dropped
by a send".  The setup's first request goes out while a worker may already be in the connection's handler; that is harmless
because until then nothing can arrive (`~asked` with empty books), so the only
thing a worker can find is the end of the connection, and the only harm is the
setup's `Send` on what that worker has deleted (`WildInv`).

**The argument about the two readings.**  `SSLInv` is `SSLTypeOK`, `OwnInv` and
`CtxInv`.  A transport is `Unserved` as long as it is unallocated, in an accept,
in the packet of one, or with an accept handler that has not called `Accept`;
afterwards it is `InService`.  `CtxInv` says that it has no context in the first
case and one in the second, and that a handler between its two readings has
secured the transport of its own packet.  A step of `TCPServer` other than
`AcceptBegin` moves no transport back (`Onward`, lemma `NextOn`); because the
handler of an accept has its transport to itself (`AcceptorAlone`, from
`OwnInv`), `Accept` creates exactly the one context (`AcceptKeeps`) and the
second reading starts its service (`AcceptBeginKeeps`).  Hence
`SSLProcessingRecvFails` is impossible and every step is one of `TCPServer` or a
stutter (`CalmStep`), which carries `OwnInv` over and is the refinement.
`HandshakeOnce` needs besides that nobody stores the slot between the readings:
`Slot` says that a thread at `StoreAccepted` has made the only transport in the
`Pipe` of accepts, and it is not the one the slot names.

**The turn-taking argument.**  `IInv` adds to `TypeOK` that the client's offset
is the beginning of a block (`Starts`), that there is no error, and `Turns`:
either a request is on its way and nothing else (`Asking`, with the server's
next start equal to the client's offset), or an answer is, and the client's
buffer followed by the bytes on the stream is a beginning of the block at the
client's offset (`Answering`).  A truncated send only makes the beginning
shorter, which is why errors are impossible even then.

**The argument about the records.**  The two sides of an SSL connection take
turns from the first flight of the handshake on.  `Follows` says that what a
side has still to read, in its `Bio[RECV]` and on the wire, is a beginning of
what the other said, behind the records already read.  Four flights (`Shaking`)
lead to `Open`, where `Asking` and `Answering` alternate as in `Stream`.  A
truncated send leaves half a record at the end and nothing ever follows it,
because whoever should read it speaks only after it: so it is never taken for
the head of another record.  `NothingStuck` rests on the fourth flight being the
server's: when the client can send its request, the server has set
`m_Handshaked`.

**The argument about the datagrams.**  `UnderWay(c)` are a client's datagrams on
the network or in a handler. `Counted` bounds their number, since a handler
sends one for the one it took.  What they may be depends on whether the client
has found the server: until then none of them is a request for a block or a
block (`AtEase`); from then on there is always one of these unless something was
lost or a side ended (`AtWork`), because each of the two has the other sent,
whereas what a duplicated broadcast brings may go unanswered.  Without
duplicates it is the only one, and `Turns` says how the two offsets stand to it.

**The argument about the threads.**  `ObjectInv` and `StaffInv` tie the parts of
the object to the step of its thread and to what its other threads may do.
`PoolGoneFirst` follows from `DeletedInv`: `delete` is passed only when every
thread was deleted, and a thread deleted has finished.  `QuietIsClean` is a
count: the quit packets on the port and those still to be posted are no fewer
than the receive threads still running (`EnoughPackets`), for a thread consumes
one packet and ends, and as long as the destruction meets no traffic nobody
consumes one otherwise: no thread is in a handler and only quit packets are on
the port (`Silence`), whatever is outstanding.

**What the proofs changed.**  `busy` is noted apart from the receive threads,
because the count of `QuietIsClean` has to hold for an empty pool too, which
TLC's instances do not have.  `Discovery` counts the copies of a datagram as
pairs instead of folding over a bag, since a fold can only be reasoned about by
an induction the provers cannot instantiate.

**Model-checked only.** Liveness: `RequestAnswered`, `ListensAgain`, `Connects`,
`Delivers`, `KeepsAsking`, `Ends` and the two `BlocksForEver`, since the proof
system has no rule for fairness that its provers can use.  The three violated
properties are TLC's counterexamples.

## 5. Not modelled

- Inside OpenSSL: certificates, contexts and encryption.  `~SSLTransport` leaks
  the SSL object and its BIOs (Transport.cpp:682); memory is not modelled.
- The printed statistics; the two counters behind them race with the workers,
  which affects only the printed figures.
- The UDP branch of `RemoveTransport` and the handling of `OnRecived` returning
  false: neither `OnRecived` ever does.
- `Validate`, `AddTransportForProcess`, the parse queue, `main2`: never used.
- Exceptions' messages, the console lock, the certificate, OpenSSL's locking
  callbacks, precompiled headers and project files.

## 6. Plan

Done, in this order: the engine with the TCP listener, its proofs, the protocol
on a TCP connection with its abstract specification and proofs, the life of an
endpoint, discovery over UDP, the protocol on an SSL connection, the SSL
listener with its refinement of `TCPServer` and proofs, the client's connection
setup beside its workers; then the proofs of the service of both listeners, of
the life of an endpoint, of the setup, of the SSL connection and of discovery.

What could follow: the steps of the liveness arguments that need no fairness
(that a measure never grows and which action lowers it), as invariants and
action properties; that the connections of `TCPServer`, which only count bytes,
are those of `Stream` seen from one side, with `Exclusive` as what makes the
handlers of `Stream` atomic; and the figures of the statistics thread.
