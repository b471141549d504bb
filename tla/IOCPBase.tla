------------------------------ MODULE IOCPBase ------------------------------
(***************************************************************************)
(* The engine every endpoint of the program is built on: one I/O           *)
(* completion port, a pool of worker threads running IOCPBase::Recv, the   *)
(* map m_Socket2Transports behind a critical section, the statistics       *)
(* thread that walks a copy of that map, and TCPTransport::Complition, the *)
(* handler that keeps at most one WSARecv outstanding per connection.      *)
(*                                                                         *)
(* A worker's call stack is its label pc[w] and the locals obj[w] and      *)
(* nbytes[w].  A handler is split where another thread can observe it:     *)
(* around every kernel call and every access to shared memory outside the  *)
(* critical section.  A module that EXTENDS this one adds the handler of   *)
(* its listening socket and the OnRecived callback (see TCPServer).        *)
(***************************************************************************)
EXTENDS Naturals, Sequences, FiniteSets, FiniteSetsExt

CONSTANTS
  Workers,     (* the receive threads, sm_NumRecvThreads of them           *)
  Main,        (* the thread that runs Server::ThreadMain                  *)
  Transports,  (* heap objects of class TCPTransport, each allocated once  *)
  Sockets,     (* SOCKET handle values; closesocket makes one reusable     *)
  Listener,    (* completion key of the listening socket                   *)
  None,        (* a null pointer                                           *)
  MaxResets    (* bound: connections the network may reset                 *)

ASSUME ConstantsAssumption ==
  /\ Main \notin Workers
  /\ None \notin Workers
  /\ None \notin Transports
  /\ Listener \notin Transports
  /\ MaxResets \in Nat

Threads == Workers \cup {Main}

VARIABLES
  port,      (* completion packets posted to m_hIOCompletionPort, in order *)
  pc,        (* label of each thread                                       *)
  obj,       (* the transport the handler of a thread works on             *)
  nbytes,    (* dwBytesTransfered of that handler                          *)
  life,      (* of each TCPTransport: unallocated, live or deleted         *)
  sock,      (* Socketable::m_Socket                                       *)
  curr,      (* Transport::m_CurrRecived                                   *)
  table,     (* m_Socket2Transports                                        *)
  lock,      (* owner of m_Socket2TransportsCS                             *)
  snap,      (* what PrintTotalRecived still has to print of its copy      *)
  timer,     (* the statistics thread                                      *)
  recvs,     (* WSARecv calls outstanding on a transport's m_ReciveOverlapped *)
  peer,      (* the other end of a transport's connection                  *)
  inbound    (* bytes the peer has sent and no WSARecv has returned yet    *)

threadVars == <<pc, obj, nbytes>>
heapVars   == <<life, sock, curr>>
mapVars    == <<table, lock>>
timerVars  == <<snap, timer>>
netVars    == <<recvs, peer, inbound>>
baseVars   == <<port, threadVars, heapVars, mapVars, timerVars, netVars>>

(* A worker label from which the transport in obj is dereferenced next.    *)
Handling == {"complete", "callback", "rearm", "remove"}

Packet ==
  [key : Transports \cup {Listener}, io : Transports, ok : BOOLEAN, bytes : Nat]

(* SOCKET values the process has open, and what WSASocket may return.      *)
OpenSockets == {sock[t] : t \in {u \in Transports : life[u] = "live"}}
FreeSockets == Sockets \ OpenSockets

Registered == {table[s] : s \in Sockets} \ {None}

Completion(key, t, ok, n) == [key |-> key, io |-> t, ok |-> ok, bytes |-> n]

(* The sum of a function over a set, and the bytes of the packets.         *)
Total(f, S) == MapThenSumSet(LAMBDA x : f[x], S)
PortBytes == [i \in DOMAIN port |-> port[i].bytes]

-----------------------------------------------------------------------------
(* A worker leaves its handler and calls GetQueuedCompletionStatus again.  *)
Return(w) ==
  /\ pc' = [pc EXCEPT ![w] = "wait"]
  /\ obj' = [obj EXCEPT ![w] = None]
  /\ nbytes' = [nbytes EXCEPT ![w] = 0]

(* An exception leaves IOCPBase::Recv; Thread::threadMain catches and logs *)
(* it and the thread ends.  The stack, and with it obj, is gone.           *)
Die(w) ==
  /\ pc' = [pc EXCEPT ![w] = "dead"]
  /\ obj' = [obj EXCEPT ![w] = None]
  /\ nbytes' = [nbytes EXCEPT ![w] = 0]

(* The worker called into deleted or uninitialised memory: nothing is      *)
(* known of what it does next.                                             *)
GoWild(w) ==
  /\ pc' = [pc EXCEPT ![w] = "wild"]
  /\ obj' = [obj EXCEPT ![w] = None]
  /\ nbytes' = [nbytes EXCEPT ![w] = 0]

Goto(w, label) ==
  /\ pc' = [pc EXCEPT ![w] = label]
  /\ UNCHANGED <<obj, nbytes>>

At(w, label) ==
  /\ pc[w] = label
  /\ life[obj[w]] = "live"

(* IOCPBase::Recv.  A failed completion is only logged: its transport is   *)
(* neither removed nor given a new WSARecv.                                *)
Recv(w) ==
  /\ pc[w] = "wait"
  /\ port # <<>>
  /\ port' = Tail(port)
  /\ LET p == Head(port) IN
       \/ /\ ~p.ok
          /\ UNCHANGED threadVars
       \/ /\ p.ok
          /\ pc' = [pc EXCEPT ![w] =
                      IF p.key = Listener THEN "accept" ELSE "complete"]
          /\ obj' = [obj EXCEPT ![w] = p.io]
          /\ nbytes' = [nbytes EXCEPT ![w] = p.bytes]
  /\ UNCHANGED <<heapVars, mapVars, timerVars, netVars>>

(* m_CurrRecived += dwBytesTransfered.                                     *)
CountAssigns(t, n) == curr' = [curr EXCEPT ![t] = n] /\ UNCHANGED recvs  (* slip: = *)
CountReceives(t, n) ==  (* slip: StartReceiving before the callback *)
  curr' = [curr EXCEPT ![t] = @ + n] /\ recvs' = [recvs EXCEPT ![t] = @ + 1]
Count(t, n) == curr' = [curr EXCEPT ![t] = @ + n] /\ UNCHANGED recvs

(* TCPTransport::Complition up to the callback.                            *)
Complition(w) ==
  /\ At(w, "complete")
  /\ \/ /\ nbytes[w] > 0
        /\ Count(obj[w], nbytes[w])
        /\ Goto(w, "callback")
     \/ /\ nbytes[w] = 0
        /\ Goto(w, "remove")
        /\ UNCHANGED <<curr, recvs>>
  /\ UNCHANGED <<port, life, sock, mapVars, timerVars, peer, inbound>>

(* TCPTransport::StartReceiving: WSARecv fails at once on a reset          *)
(* connection and the exception ends the worker; otherwise the operation   *)
(* is pending and this worker does not look at the transport again.        *)
StartReceiving(w) ==
  /\ At(w, "rearm")
  /\ \/ /\ peer[obj[w]] = "reset"
        /\ Die(w)
        /\ UNCHANGED recvs
     \/ /\ peer[obj[w]] # "reset"
        /\ recvs' = [recvs EXCEPT ![obj[w]] = @ + 1]
        /\ Return(w)
  /\ UNCHANGED <<port, heapVars, mapVars, timerVars, peer, inbound>>

(* IOCPBase::AddTransport: map::insert leaves an existing entry alone.     *)
AddTransport(t) ==
  /\ lock = None
  /\ table' = IF table[sock[t]] = None
              THEN [table EXCEPT ![sock[t]] = t]
              ELSE table
  /\ UNCHANGED lock

(* The critical section is held over both halves.                          *)
HoldNot(w) == UNCHANGED lock  (* slip: it is left before the entry is erased *)
Hold(w) == lock' = w

(* IOCPBase::RemoveTransport, first half: under the critical section, look *)
(* the transport up by pointer and delete it, which closes its socket; a   *)
(* transport the map does not hold is left alone.                          *)
RemoveTransport(w) ==
  /\ At(w, "remove")
  /\ lock = None
  /\ IF obj[w] \in Registered
     THEN /\ Hold(w)
          /\ life' = [life EXCEPT ![obj[w]] = "deleted"]
          /\ Goto(w, "erase")
     ELSE /\ Return(w)
          /\ UNCHANGED <<lock, life>>
  /\ UNCHANGED <<port, sock, curr, table, timerVars, netVars>>

(* m_Socket2Transports without a transport's entry.                        *)
ErasedNot(t) == table  (* slip: delete without erase *)
Erased(t) == [s \in Sockets |-> IF table[s] = t THEN None ELSE table[s]]

(* The return after RemoveTransport.                                       *)
LeaveNot(w) == Goto(w, "rearm")  (* slip: StartReceiving follows *)
Leave(w) == Return(w)

(* Second half: erase the map entry and leave the critical section.        *)
EraseTransport(w) ==
  /\ pc[w] = "erase"
  /\ table' = Erased(obj[w])
  /\ lock' = None
  /\ Leave(w)
  /\ UNCHANGED <<port, heapVars, timerVars, netVars>>

(* A handler runs on a transport that another thread has deleted.          *)
UseAfterFree(w) ==
  /\ pc[w] \in Handling \cup {"add"}
  /\ life[obj[w]] = "deleted"
  /\ GoWild(w)
  /\ UNCHANGED <<port, heapVars, mapVars, timerVars, netVars>>

-----------------------------------------------------------------------------
(* TimerThread::ThreadMain wakes up: PrintTotalRecived copies the map      *)
(* inside the critical section...                                          *)
CopyTransports ==
  /\ timer = "run"
  /\ snap = {}
  /\ lock = None
  /\ snap' = Registered
  /\ UNCHANGED <<port, threadVars, heapVars, mapVars, timer, netVars>>

(* ...and prints and resets each transport of the copy outside it.         *)
PrintTransport ==
  /\ timer = "run"
  /\ \E t \in snap :
       /\ snap' = snap \ {t}
       /\ timer' = IF life[t] = "live" THEN "run" ELSE "wild"
  /\ UNCHANGED <<port, threadVars, heapVars, mapVars, netVars>>

-----------------------------------------------------------------------------
(* The kernel completes a WSARecv: with some of the bytes that arrived,    *)
(* with none once the peer has shut down and all was read, or with an      *)
(* error after a reset or after closesocket.                               *)
KernelRecv(t) ==
  /\ recvs[t] > 0
  /\ recvs' = [recvs EXCEPT ![t] = @ - 1]
  /\ \/ /\ life[t] = "live"
        /\ peer[t] # "reset"
        /\ \E n \in 1 .. inbound[t] :
             /\ port' = Append(port, Completion(t, t, TRUE, n))
             /\ inbound' = [inbound EXCEPT ![t] = @ - n]
     \/ /\ life[t] = "live"
        /\ peer[t] = "closed"
        /\ inbound[t] = 0
        /\ port' = Append(port, Completion(t, t, TRUE, 0))
        /\ UNCHANGED inbound
     \/ /\ life[t] = "deleted" \/ peer[t] = "reset"
        /\ port' = Append(port, Completion(t, t, FALSE, 0))
        /\ UNCHANGED inbound
  /\ UNCHANGED <<threadVars, heapVars, mapVars, timerVars, peer>>

(* The peer shuts its side down; what it sent before still arrives.        *)
PeerClose(t) ==
  /\ peer[t] = "open"
  /\ peer' = [peer EXCEPT ![t] = "closed"]
  /\ UNCHANGED <<port, threadVars, heapVars, mapVars, timerVars, recvs, inbound>>

(* The connection is reset; bytes not yet received are lost.               *)
PeerReset(t) ==
  /\ peer[t] \in {"open", "closed"}
  /\ Cardinality({u \in Transports : peer[u] = "reset"}) < MaxResets
  /\ peer' = [peer EXCEPT ![t] = "reset"]
  /\ inbound' = [inbound EXCEPT ![t] = 0]
  /\ UNCHANGED <<port, threadVars, heapVars, mapVars, timerVars, recvs>>

=============================================================================
