----------------------------- MODULE SSLServer ------------------------------
(***************************************************************************)
(* The listener for SSL connections.  SSLServer is TCPServer with an       *)
(* AcceptNext that makes SSL transports and a Complition that first calls  *)
(* Accept on m_AcceptedTransport, to give the connected transport its SSL  *)
(* context, and then the inherited Complition, which reads                 *)
(* m_AcceptedTransport again.  Another worker may store the slot, or       *)
(* handle the next accept, before, between and after the two readings.     *)
(*                                                                         *)
(* The engine is that of TCPServer.  What a connection exchanges is left   *)
(* to SSLStream: a request stands for anything the server has to answer, a *)
(* flight of the handshake or a record with a request, Complition followed *)
(* by OnRecived for a pass of SSLProcessingRecv, with m_CurrRecived the    *)
(* bytes in Bio[RECV] that make no whole record yet.                       *)
(***************************************************************************)
EXTENDS TCPServer

VARIABLES
  contexts,  (* how often a transport's m_Ssl has been created; before the *)
             (* first time it is uninitialised                             *)
  secured    (* the transport on which an accept handler has called Accept *)

sslVars == <<contexts, secured>>
allVars == <<vars, sslVars>>

SSLTypeOK ==
  /\ TypeOK
  /\ contexts \in [Transports -> Nat]
  /\ secured \in [Workers -> Transports \cup {None}]

SSLInit ==
  /\ Init
  /\ contexts = [t \in Transports |-> 0]
  /\ secured = [w \in Workers |-> None]

-----------------------------------------------------------------------------
(* A new context, whatever the transport had before.                       *)
CreateServerSSLContext(t) == contexts' = [contexts EXCEPT ![t] = @ + 1]

(* The first reading of m_AcceptedTransport.  SSL_read of the new context  *)
(* has nothing to read yet and nothing to say.                             *)
Accept(w) ==
  /\ pc[w] = "accept"
  /\ secured[w] = None
  /\ overrun' = (overrun \/ accepted # ov[w])
  /\ IF accepted # None /\ life[accepted] = "live"
     THEN /\ CreateServerSSLContext(accepted)
          /\ secured' = [secured EXCEPT ![w] = accepted]
          /\ UNCHANGED threadVars
     ELSE GoWild(w) /\ UNCHANGED sslVars
  /\ UNCHANGED <<port, heapVars, mapVars, timerVars, netVars, acceptVars,
                 requested, cut>>

AcceptedAlready(w) == TRUE  (* slip: the inherited Complition comes first *)
Accepted(w) == secured[w] # None

(* The inherited Complition, with the second reading.                      *)
SSLAcceptBegin(w) ==
  /\ Accepted(w)
  /\ AcceptBegin(w)
  /\ secured' = [secured EXCEPT ![w] = None]
  /\ UNCHANGED contexts

(* SSLProcessingRecv follows the pointers of a context that was never      *)
(* created, or finds that the context has been created again under it, and *)
(* what arrives does not begin a handshake: SSL_read fails and throws.     *)
SSLProcessingRecvFails(w) ==
  /\ At(w, "complete")
  /\ nbytes[w] > 0
  /\ \/ contexts[obj[w]] = 0 /\ GoWild(w)
     \/ contexts[obj[w]] > 1 /\ Die(w)
  /\ UNCHANGED <<port, heapVars, mapVars, timerVars, netVars, acceptVars,
                 requested, cut, overrun, sslVars>>

(* Everything else is inherited; AcceptNext is repeated for SSL transports.*)
Inherited(w) ==
  /\ pc[w] # "accept"
  /\ At(w, "complete") /\ nbytes[w] > 0 => contexts[obj[w]] > 0
  /\ WorkerStep(w)
  /\ UNCHANGED sslVars

SSLWorkerStep(w) ==
  Accept(w) \/ SSLAcceptBegin(w) \/ SSLProcessingRecvFails(w) \/ Inherited(w)

SSLNext ==
  \/ \E w \in Workers : SSLWorkerStep(w)
  \/ (MainStep \/ TimerStep \/ NetworkStep) /\ UNCHANGED sslVars

SSLSpec == SSLInit /\ [][SSLNext]_allVars

-----------------------------------------------------------------------------
(* The server has begun with the connection of a transport.                *)
InService(t) ==
  \/ recvs[t] > 0
  \/ \E i \in PacketsOf(t) : port[i].key # Listener
  \/ \E w \in HoldersOf(t) : pc[w] \in {"next", "store", "add"} \cup Handling

(* As long as no slot is read early, every connection has its handshake    *)
(* exactly once, before its first byte is read, and the two readings find  *)
(* the same transport (Transport.cpp:923-927, 446-451, 572-574).           *)
HandshakeOnce ==
  ~overrun =>
    /\ \A t \in Transports :
         contexts[t] <= 1 /\ (InService(t) => contexts[t] = 1)
    /\ \A w \in Workers : secured[w] \in {None, accepted}

(* Until then the SSL listener does nothing TCPServer does not do: it      *)
(* implements that specification, and what is proved of handlers, sockets  *)
(* and the map there is true of it (Transport.h:140-146).                  *)
ImplementsTCPServer == Init /\ [][Next \/ overrun']_vars

=============================================================================
