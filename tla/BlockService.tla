---------------------------- MODULE BlockService ----------------------------
(***************************************************************************)
(* What a connection promises to the client, whatever the network does to  *)
(* the byte streams below: once it has asked, the client is handed g_NETDATA *)
(* block by block, N words each, in order and from the beginning again     *)
(* after the last, every byte of a block in its place.                     *)
(***************************************************************************)
EXTENDS Naturals, Sequences

CONSTANTS
  N,     (* words of a block, g_NumUInt32ForRecv                           *)
  Size,  (* words of the array, g_NETDATA_SIZE                             *)
  W      (* bytes of a word, sizeof(uint32_t)                              *)

VARIABLES
  asked,  (* the client has sent its first request                         *)
  next,   (* index in g_NETDATA of the first word of the next block        *)
  block   (* the bytes of the last block handed over                       *)

vars == <<asked, next, block>>

(* The bytes of g_NETDATA from a word on, each named by its position.      *)
Netdata(word, n) == [i \in 1 .. n |-> word * W + i - 1]

Init ==
  /\ asked = FALSE
  /\ next = 0
  /\ block = <<>>

Ask ==
  /\ ~asked
  /\ asked' = TRUE
  /\ UNCHANGED <<next, block>>

Deliver ==
  /\ asked
  /\ block' = Netdata(next, N * W)
  /\ next' = IF next + N = Size THEN 0 ELSE next + N
  /\ UNCHANGED asked

Next == Ask \/ Deliver

Spec == Init /\ [][Next]_vars

(* Blocks never cease to be handed over.                                   *)
Service == WF_vars(Deliver)

FairSpec == Spec /\ Service

=============================================================================
