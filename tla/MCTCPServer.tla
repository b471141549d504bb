----------------------------- MODULE MCTCPServer -----------------------------
(***************************************************************************)
(* Instances of TCPServer for TLC.  Threads, transports and socket handles *)
(* are interchangeable.  The liveness run cannot use symmetry; it numbers  *)
(* the transports and, by a CONSTRAINT, allocates them in order and stops  *)
(* after an overrun: that leaves out renamings of the behaviours it keeps, *)
(* and states in which both liveness properties have been fulfilled.       *)
(***************************************************************************)
EXTENDS TCPServer, TLC

Symmetry ==
  Permutations(Workers) \cup Permutations(Transports) \cup Permutations(Sockets)

Canonical ==
  /\ ~overrun
  /\ \A t, u \in Transports :
       t < u /\ life[u] # "unallocated" => life[t] # "unallocated"
=============================================================================
