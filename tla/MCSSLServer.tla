---------------------------- MODULE MCSSLServer -----------------------------
(***************************************************************************)
(* An instance of SSLServer for TLC.  Threads, transports and socket       *)
(* handles are interchangeable.                                            *)
(***************************************************************************)
EXTENDS SSLServer, TLC

Symmetry ==
  Permutations(Workers) \cup Permutations(Transports) \cup Permutations(Sockets)
=============================================================================
