--------------------------- MODULE IOCPBaseProofs ---------------------------
(***************************************************************************)
(* Lemmas about the operators of IOCPBase that the proofs about the server *)
(* and the client share: where the packets of the port are after one was   *)
(* posted or taken, and what Total is of at most one element, which is all *)
(* a sum over the packets or handlers of one transport ever has.           *)
(***************************************************************************)
EXTENDS IOCPBase, SequenceTheorems, TLAPS

(* The head of the port is a packet, and taking it leaves a port.          *)
LEMMA HeadOfPort ==
  ASSUME port \in Seq(Packet), port # <<>>
  PROVE  /\ Head(port) \in Packet
         /\ Head(port).io \in Transports
         /\ Head(port).key \in Transports \cup {Listener}
         /\ Head(port).bytes \in Nat
         /\ Head(port).ok \in BOOLEAN
         /\ Tail(port) \in Seq(Packet)
<1>1. Head(port) \in Packet /\ Tail(port) \in Seq(Packet)
  BY HeadTailProperties
<1> QED
  BY <1>1 DEF Packet

(* A completion of the right fields is a packet of these fields.           *)
LEMMA CompletionFields ==
  ASSUME NEW key \in Transports \cup {Listener}, NEW t \in Transports,
         NEW ok \in BOOLEAN, NEW n \in Nat
  PROVE  \E p \in Packet :
           /\ p = Completion(key, t, ok, n)
           /\ p.key = key /\ p.io = t /\ (p.ok <=> ok) /\ p.bytes = n
<1>1. Completion(key, t, ok, n) \in Packet
  BY DEF Completion, Packet
<1>2. /\ Completion(key, t, ok, n).key = key /\ Completion(key, t, ok, n).io = t
      /\ Completion(key, t, ok, n).ok <=> ok
      /\ Completion(key, t, ok, n).bytes = n
  BY DEF Completion
<1> QED
  BY <1>1, <1>2

(* Where the packets of the port are after one was taken from it...        *)
LEMMA PortTaken ==
  ASSUME port \in Seq(Packet), port # <<>>, port' = Tail(port)
  PROVE  /\ 1 \in DOMAIN port /\ port[1] = Head(port)
         /\ \A i \in DOMAIN port' :
              i \in Nat /\ i + 1 \in DOMAIN port /\ i + 1 # 1 /\ port'[i] = port[i + 1]
         /\ \A i \in DOMAIN port : i # 1 => i \in Nat /\ i - 1 \in DOMAIN port' /\ port'[i - 1] = port[i]
<1>1. /\ port' \in Seq(Packet)
      /\ Len(port') = Len(port) - 1
      /\ \A i \in 1 .. Len(port') : port'[i] = port[i + 1]
  BY HeadTailProperties
<1>2. DOMAIN port = 1 .. Len(port) /\ DOMAIN port' = 1 .. Len(port') /\ Len(port) \in Nat
  BY <1>1
<1>3. Len(port) # 0 /\ port[1] = Head(port)
  OBVIOUS
<1>4. ASSUME NEW i \in DOMAIN port, i # 1
      PROVE  i \in Nat /\ i - 1 \in DOMAIN port' /\ port'[i - 1] = port[i]
  <2>1. i \in Nat /\ i - 1 \in 1 .. Len(port') /\ (i - 1) + 1 = i
    BY <1>1, <1>2, <1>4
  <2> QED
    BY <1>1, <1>2, <2>1
<1> QED
  BY <1>1, <1>2, <1>3, <1>4

(* ...and after one was posted to it.                                      *)
LEMMA PortPosted ==
  ASSUME port \in Seq(Packet), NEW p \in Packet, port' = Append(port, p)
  PROVE  /\ port' \in Seq(Packet)
         /\ \A i \in DOMAIN port' :
              \/ i \in DOMAIN port /\ port'[i] = port[i]
              \/ i = Len(port) + 1 /\ port'[i] = p
         /\ \A i \in DOMAIN port : i \in DOMAIN port' /\ port'[i] = port[i]
         /\ Len(port) + 1 \in DOMAIN port' /\ port'[Len(port) + 1] = p
<1>1. /\ port' \in Seq(Packet)
      /\ Len(port') = Len(port) + 1
      /\ \A i \in 1 .. Len(port) : port'[i] = port[i]
      /\ port'[Len(port) + 1] = p
  BY AppendProperties
<1>2. DOMAIN port = 1 .. Len(port) /\ DOMAIN port' = 1 .. Len(port') /\ Len(port) \in Nat
  BY <1>1
<1> QED
  BY <1>1, <1>2

-----------------------------------------------------------------------------
(* A sum over nothing...                                                   *)
LEMMA TotalOfNone ==
  ASSUME NEW f PROVE Total(f, {}) = 0
<1> DEFINE F(it) ==
      [s \in SUBSET {} |->
         IF s = {} THEN 0 ELSE f[CHOOSE x \in s : TRUE] + it[s \ {CHOOSE x \in s : TRUE}]]
           g == CHOOSE it : it = F(it)
<1>1. \E it : it = F(it)
  <2>1. [s \in SUBSET {} |-> 0] = F([s \in SUBSET {} |-> 0])
    OBVIOUS
  <2> QED
    BY <2>1
<1>2. g = F(g)
  BY <1>1
<1>3. g[{}] = 0
  BY <1>2
<1> QED
  BY <1>3 DEF Total, MapThenSumSet, MapThenFoldSet

(* ...and over one element.                                                *)
LEMMA TotalOfOne ==
  ASSUME NEW f, NEW a, f[a] \in Nat PROVE Total(f, {a}) = f[a]
<1> DEFINE F(it) ==
      [s \in SUBSET {a} |->
         IF s = {} THEN 0 ELSE f[CHOOSE x \in s : TRUE] + it[s \ {CHOOSE x \in s : TRUE}]]
           g == CHOOSE it : it = F(it)
           h == [s \in SUBSET {a} |-> IF s = {} THEN 0 ELSE f[a]]
<1>1. \A s \in SUBSET {a} :
        s # {} => s = {a} /\ (CHOOSE x \in s : TRUE) = a /\ s \ {CHOOSE x \in s : TRUE} = {}
  OBVIOUS
<1>2. \E it : it = F(it)
  <2>1. h = F(h)
    <3>1. \A s \in SUBSET {a} : h[s] = F(h)[s]
      BY <1>1
    <3> QED
      BY <3>1
  <2> HIDE DEF h
  <2> QED
    BY <2>1
<1>3. g = F(g)
  BY <1>2
<1>4. g[{}] = 0 /\ g[{a}] = f[a] + g[{}]
  <2> HIDE DEF g
  <2>1. {} \in SUBSET {a} /\ {a} \in SUBSET {a} /\ {a} # {}
    OBVIOUS
  <2> QED
    BY <1>1, <1>3, <2>1
<1>5. g[{a}] = f[a]
  BY <1>4
<1> QED
  BY <1>5 DEF Total, MapThenSumSet, MapThenFoldSet
=============================================================================
