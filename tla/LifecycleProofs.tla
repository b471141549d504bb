-------------------------- MODULE LifecycleProofs ---------------------------
(***************************************************************************)
(* Proofs about Lifecycle: for every number of receive threads and of      *)
(* completions, and wherever the start of the endpoint fails, the receive  *)
(* threads are gone before what they use is, and an endpoint that meets no *)
(* traffic during its destruction is never caught in a pure virtual call,  *)
(* whatever operations it has outstanding.                                 *)
(*                                                                         *)
(* The last one is a count.  The quit packets on the port and those yet to *)
(* be posted are never fewer than the receive threads that still run: each *)
(* packet ends one thread, and as long as no operation completes nothing   *)
(* else is taken from the port.                                            *)
(***************************************************************************)
EXTENDS Lifecycle, FiniteSetTheorems, SequenceTheorems, TLAPS

Alive == {"publish", "setup", "loop", "unpublish", "derived"}

Dying == {"timerquit", "timerjoin", "quitsome", "joinsome", "delete", "free"}

(* The part of the object that there is follows the step of its thread.    *)
ObjectInv ==
  /\ main = "start" => owner = "off"
  /\ owner \in {"off", "construct"} => object = "none"
  /\ owner \in Alive <=> object = "whole"
  /\ owner \in Dying <=> object = "base"
  /\ object = "gone" => owner = "finished"

(* Without an object there is no traffic, and an object has all of its     *)
(* receive threads.                                                        *)
StaffInv ==
  /\ object = "none" => /\ port = <<>>
                        /\ pending = 0
                        /\ deleted = {}
                        /\ \A w \in Workers : worker[w] # "handler"
  /\ object # "none" => \A w \in Workers : worker[w] # "off"

(* Only finished threads were deleted, and all were before the rest goes.  *)
DeletedInv ==
  /\ \A w \in deleted : worker[w] = "finished"
  /\ owner = "free" \/ object = "gone" => deleted = Workers

(* A quiet destruction: no handler and no completion...                    *)
Silence ==
  /\ \A w \in Workers : worker[w] # "handler"
  /\ \A i \in 1 .. Len(port) : port[i] = "quit"

(* ...and a quit packet for every thread, until none is left.              *)
EnoughPackets ==
  /\ owner \in {"quitsome", "joinsome"} => Cardinality(Running) <= Len(port) + toPost
  /\ owner = "joinsome" => toPost = 0
  /\ owner = "delete" => Running = {}

QuietInv ==
  ~busy /\ object \in {"base", "gone"} => Silence /\ EnoughPackets

IInv ==
  /\ TypeOK
  /\ ObjectInv
  /\ StaffInv
  /\ DeletedInv
  /\ QuietInv
  /\ QuietIsClean

-----------------------------------------------------------------------------
(* The pool is a finite set of threads.                                    *)
LEMMA PoolSize == Cardinality(Workers) \in Nat
BY LifecycleAssumption, FS_CardinalityType

(* The program starts with no endpoint.                                    *)
LEMMA InitInv == Init => IInv
<1> SUFFICES ASSUME Init PROVE IInv
  OBVIOUS
<1>1. port \in Seq({"io", "quit"}) /\ made \in 0 .. MaxIO /\ pending \in Nat
      /\ toPost \in 0 .. Cardinality(Workers)
  BY PoolSize, LifecycleAssumption DEF Init
<1>2. TypeOK
  BY <1>1 DEF Init, TypeOK, OwnerSteps
<1> QED
  BY <1>2 DEF Init, IInv, ObjectInv, StaffInv, DeletedInv, QuietInv,
              QuietIsClean, Alive, Dying

(* A worker's step as one of three.                                        *)
LEMMA WorkerCases ==
  ASSUME TypeOK, NEW w \in Workers, WorkerStep(w)
  PROVE  \/ /\ worker[w] = "wait" /\ port # <<>> /\ port' = Tail(port)
            /\ worker' = [worker EXCEPT ![w] =
                            IF Head(port) = "quit" THEN "finished" ELSE "handler"]
            /\ UNCHANGED <<pending, process>>
         \/ /\ worker[w] = "handler"
            /\ \E s \in {"wait", "finished"} : worker' = [worker EXCEPT ![w] = s]
            /\ pending' \in pending .. pending + 2
            /\ UNCHANGED <<port, process>>
         \/ /\ worker[w] = "handler" /\ object # "whole"
            /\ process' = "purecall"
            /\ UNCHANGED <<port, worker, pending>>
BY DEF WorkerStep, Take, Handle

(* What it leaves alone.                                                   *)
LEMMA WorkerFrame ==
  ASSUME NEW w \in Workers, WorkerStep(w)
  PROVE  UNCHANGED <<main, owner, object, pointer, quit, timer, timerQuit, made,
                     quitVars, busy>>
BY DEF WorkerStep, Take, Handle

(* Every step keeps the types.                                             *)
LEMMA TypeStep == TypeOK /\ [Next]_vars => TypeOK'
<1> SUFFICES ASSUME TypeOK, [Next]_vars PROVE TypeOK'
  OBVIOUS
<1> USE DEF TypeOK, OwnerSteps, poolVars, quitVars
<1>1. CASE RunThread \/ SendQuit \/ Join
  BY <1>1 DEF RunThread, SendQuit, Join
<1>2. CASE Construct
  <2>1. worker' \in [Workers -> {"off", "wait"}]
    BY <1>2 DEF Construct
  <2> QED
    BY <1>2, <2>1 DEF Construct
<1>3. CASE Publish \/ LeaveLoop \/ Unpublish \/ DestroyDerived \/ QuitTimer
  BY <1>3 DEF Publish, LeaveLoop, Unpublish, DestroyDerived, QuitTimer
<1>4. CASE Setup
  BY <1>4, LifecycleAssumption DEF Setup
<1>5. CASE JoinTimer
  BY <1>5, PoolSize DEF JoinTimer, QuitPackets
<1>6. CASE PostQuit
  BY <1>6, PoolSize, AppendProperties DEF PostQuit, MorePackets
<1>7. CASE JoinSome \/ DeleteThread \/ Free
  BY <1>7 DEF JoinSome, DeleteThread, Free
<1>8. ASSUME NEW w \in Workers, WorkerStep(w) PROVE TypeOK'
  <2>1. UNCHANGED <<main, owner, object, pointer, quit, timer, timerQuit, made,
                    toPost, deleted, busy>>
    BY <1>8, WorkerFrame
  <2>2. port # <<>> => Tail(port) \in Seq({"io", "quit"})
    BY HeadTailProperties
  <2> QED
    BY <1>8, <2>1, <2>2, WorkerCases
<1>9. CASE Timer
  BY <1>9 DEF Timer, TimerEnds
<1>10. CASE Complete
  BY <1>10, LifecycleAssumption, AppendProperties DEF Complete
<1>11. CASE UNCHANGED vars
  BY <1>11 DEF vars
<1> QED
  BY <1>1, <1>2, <1>3, <1>4, <1>5, <1>6, <1>7, <1>8, <1>9, <1>10, <1>11
     DEF Next, OwnerStep

(* The step of the owner and the part of the object that there is.         *)
LEMMA ObjectStep == TypeOK /\ ObjectInv /\ [Next]_vars => ObjectInv'
<1> SUFFICES ASSUME TypeOK, ObjectInv, [Next]_vars PROVE ObjectInv'
  OBVIOUS
<1> USE DEF ObjectInv, Alive, Dying, poolVars, quitVars
<1>1. CASE RunThread
  BY <1>1 DEF RunThread
<1>2. CASE SendQuit \/ Join \/ Timer \/ Complete \/ UNCHANGED vars
  BY <1>2 DEF SendQuit, Join, Timer, Complete, vars
<1>3. CASE Construct
  BY <1>3 DEF Construct
<1>4. CASE Publish \/ Setup \/ LeaveLoop \/ Unpublish
  BY <1>4 DEF Publish, Setup, LeaveLoop, Unpublish
<1>5. CASE DestroyDerived \/ QuitTimer \/ JoinTimer \/ PostQuit
  BY <1>5 DEF DestroyDerived, QuitTimer, JoinTimer, PostQuit
<1>6. CASE JoinSome \/ DeleteThread \/ Free
  BY <1>6 DEF JoinSome, DeleteThread, Free
<1>7. CASE \E w \in Workers : WorkerStep(w)
  BY <1>7, WorkerFrame
<1> QED
  BY <1>1, <1>2, <1>3, <1>4, <1>5, <1>6, <1>7 DEF Next, OwnerStep

(* The traffic there is without an object, and the threads there are with  *)
(* one.                                                                    *)
LEMMA StaffStep ==
  TypeOK /\ ObjectInv /\ StaffInv /\ [Next]_vars => StaffInv'
<1> SUFFICES ASSUME TypeOK, ObjectInv, StaffInv, [Next]_vars PROVE StaffInv'
  OBVIOUS
<1> USE DEF StaffInv, poolVars, quitVars
<1>1. CASE RunThread \/ SendQuit \/ Join \/ Timer \/ UNCHANGED vars
  BY <1>1 DEF RunThread, SendQuit, Join, Timer, vars
<1>2. CASE Construct
  <2>1. object = "none"
    BY <1>2 DEF Construct, ObjectInv
  <2>2. \A w \in Workers : worker'[w] # "handler"
    BY <1>2 DEF Construct
  <2>3. object' = "whole" => \A w \in Workers : worker'[w] # "off"
    BY <1>2, <2>1 DEF Construct
  <2> QED
    BY <1>2, <2>1, <2>2, <2>3 DEF Construct
<1>3. CASE Publish \/ LeaveLoop \/ Unpublish \/ QuitTimer \/ JoinTimer \/ JoinSome
  BY <1>3 DEF Publish, LeaveLoop, Unpublish, QuitTimer, JoinTimer, JoinSome
<1>4. CASE Setup
  BY <1>4 DEF Setup, ObjectInv, Alive
<1>5. CASE DestroyDerived
  BY <1>5 DEF DestroyDerived, ObjectInv, Alive
<1>6. CASE PostQuit
  BY <1>6 DEF PostQuit, ObjectInv, Dying
<1>7. CASE DeleteThread
  BY <1>7 DEF DeleteThread, ObjectInv, Dying
<1>8. CASE Free
  BY <1>8 DEF Free, ObjectInv, Dying
<1>9. ASSUME NEW w \in Workers, WorkerStep(w) PROVE StaffInv'
  <2>1. UNCHANGED <<object, deleted>>
    BY <1>9, WorkerFrame
  <2>2. CASE object = "none"
    BY <1>9, <2>1, <2>2, WorkerCases
  <2>3. CASE object # "none"
    <3>1. \A v \in Workers : worker'[v] = worker[v] \/ worker'[v] \in {"wait", "handler", "finished"}
      BY <1>9, WorkerCases DEF TypeOK
    <3> QED
      BY <2>1, <2>3, <3>1
  <2> QED
    BY <2>2, <2>3
<1>10. CASE Complete
  BY <1>10 DEF Complete
<1> QED
  BY <1>1, <1>2, <1>3, <1>4, <1>5, <1>6, <1>7, <1>8, <1>9, <1>10 DEF Next, OwnerStep

(* A finished thread stays finished; while there is an object, this is all *)
(* that deleting a thread relies on.                                       *)
LEMMA DeletedStep ==
  TypeOK /\ ObjectInv /\ StaffInv /\ DeletedInv /\ [Next]_vars => DeletedInv'
<1> SUFFICES ASSUME TypeOK, ObjectInv, StaffInv, DeletedInv, [Next]_vars
             PROVE  DeletedInv'
  OBVIOUS
<1> USE DEF DeletedInv, poolVars, quitVars
<1>1. CASE RunThread \/ SendQuit \/ Join \/ Timer \/ Complete \/ UNCHANGED vars
  BY <1>1 DEF RunThread, SendQuit, Join, Timer, Complete, vars, ObjectInv
<1>2. CASE Construct
  BY <1>2 DEF Construct, ObjectInv, StaffInv
<1>3. CASE Publish \/ Setup \/ LeaveLoop \/ Unpublish
  BY <1>3 DEF Publish, Setup, LeaveLoop, Unpublish
<1>4. CASE DestroyDerived \/ QuitTimer \/ JoinTimer \/ PostQuit \/ JoinSome
  BY <1>4 DEF DestroyDerived, QuitTimer, JoinTimer, PostQuit, JoinSome
<1>5. CASE DeleteThread
  BY <1>5 DEF DeleteThread, Finished, ObjectInv, Dying
<1>6. CASE Free
  BY <1>6 DEF Free
<1>7. ASSUME NEW w \in Workers, WorkerStep(w) PROVE DeletedInv'
  <2>1. UNCHANGED <<owner, object, deleted>>
    BY <1>7, WorkerFrame
  <2>2. worker[w] # "finished"
    BY <1>7, WorkerCases
  <2>3. \A v \in Workers : v # w => worker'[v] = worker[v]
    BY <1>7, WorkerCases DEF TypeOK
  <2>4. deleted \subseteq Workers
    BY DEF TypeOK
  <2> QED
    BY <2>1, <2>2, <2>3, <2>4
<1> QED
  BY <1>1, <1>2, <1>3, <1>4, <1>5, <1>6, <1>7 DEF Next, OwnerStep

-----------------------------------------------------------------------------
(* There are never more threads running than there are.                    *)
LEMMA RunningFinite ==
  /\ IsFiniteSet(Running)
  /\ Cardinality(Running) \in Nat
  /\ Cardinality(Running) <= Cardinality(Workers)
  /\ Cardinality(Running) = 0 => Running = {}
<1>1. Running \in SUBSET Workers
  BY DEF Running
<1>2. IsFiniteSet(Running) /\ Cardinality(Running) <= Cardinality(Workers)
  BY <1>1, LifecycleAssumption, FS_Subset
<1> QED
  BY <1>2, FS_CardinalityType, FS_EmptySet

(* On a quiet port a thread can only take a quit packet, and it ends by it. *)
LEMMA QuietTake ==
  ASSUME TypeOK, Silence, NEW w \in Workers, WorkerStep(w)
  PROVE  /\ Silence'
         /\ w \in Running
         /\ Cardinality(Running') = Cardinality(Running) - 1
         /\ Len(port') = Len(port) - 1
         /\ Len(port) \in Nat
         /\ UNCHANGED process
<1>1. /\ worker[w] = "wait" /\ port # <<>> /\ port' = Tail(port)
      /\ worker' = [worker EXCEPT ![w] =
                      IF Head(port) = "quit" THEN "finished" ELSE "handler"]
      /\ UNCHANGED process
  BY WorkerCases DEF Silence
<1>2. /\ port \in Seq({"io", "quit"})
      /\ Len(port) \in Nat /\ Len(port) # 0
  BY <1>1 DEF TypeOK
<1>3. /\ Len(port') = Len(port) - 1
      /\ \A i \in 1 .. Len(port') : port'[i] = port[i + 1]
  BY <1>1, <1>2, HeadTailProperties
<1>4. Head(port) = "quit"
  BY <1>2 DEF Silence
<1>5. worker' = [worker EXCEPT ![w] = "finished"]
  BY <1>1, <1>4
<1>6. w \in Running /\ Running' = Running \ {w}
  BY <1>1, <1>5 DEF Running, TypeOK
<1>7. Cardinality(Running') = Cardinality(Running) - 1
  BY <1>6, RunningFinite, FS_RemoveElement
<1>8. Silence'
  <2>1. \A i \in 1 .. Len(port') : port'[i] = "quit"
    BY <1>2, <1>3 DEF Silence
  <2>2. \A v \in Workers : worker'[v] # "handler"
    BY <1>5 DEF Silence, TypeOK
  <2> QED
    BY <1>1, <2>1, <2>2 DEF Silence
<1> QED
  BY <1>1, <1>2, <1>3, <1>6, <1>7, <1>8

(* A further quit packet does not end the silence.                         *)
LEMMA QuietPost ==
  ASSUME TypeOK, Silence, port' = Append(port, "quit"), UNCHANGED worker
  PROVE  /\ Silence'
         /\ Len(port) \in Nat
         /\ Len(port') = Len(port) + 1
<1>1. /\ Len(port') = Len(port) + 1
      /\ Len(port) \in Nat
      /\ \A i \in 1 .. Len(port) : port'[i] = port[i]
      /\ port'[Len(port) + 1] = "quit"
  BY AppendProperties DEF TypeOK
<1> QED
  BY <1>1 DEF Silence

(* Quit packets and threads from the first to the last of a quiet          *)
(* destruction.                                                            *)
LEMMA QuietStep ==
  TypeOK /\ ObjectInv /\ QuietInv /\ [Next]_vars => QuietInv'
<1> SUFFICES ASSUME TypeOK, ObjectInv, QuietInv, [Next]_vars,
                    ~busy', object' \in {"base", "gone"}
             PROVE  Silence' /\ EnoughPackets'
  BY DEF QuietInv
<1> USE DEF poolVars, quitVars
<1> DEFINE Frame == UNCHANGED <<port, worker, toPost, owner>>
<1>1. ASSUME Frame, Silence, EnoughPackets PROVE Silence' /\ EnoughPackets'
  BY <1>1 DEF Silence, EnoughPackets, Running
<1>2. CASE RunThread \/ SendQuit \/ Join \/ Timer \/ UNCHANGED vars
  <2>1. Frame /\ UNCHANGED <<busy, object>>
    BY <1>2 DEF RunThread, SendQuit, Join, Timer, vars, ObjectInv
  <2> QED
    BY <1>1, <2>1 DEF QuietInv
<1>3. CASE Construct \/ Publish \/ Setup \/ LeaveLoop \/ Unpublish
  <2>1. object' \notin {"base", "gone"}
    BY <1>3 DEF Construct, Publish, Setup, LeaveLoop, Unpublish, ObjectInv, Alive
  <2> QED
    BY <2>1
<1>4. CASE DestroyDerived
  <2>1. /\ \A w \in Workers : worker[w] # "handler"
        /\ Packets("io") = {}
    BY <1>4 DEF DestroyDerived
  <2>2. port \in Seq({"io", "quit"})
    BY DEF TypeOK
  <2>3. \A i \in 1 .. Len(port) : port[i] = "quit"
    BY <2>1, <2>2 DEF Packets
  <2>4. UNCHANGED <<port, worker>> /\ owner' = "timerquit"
    BY <1>4 DEF DestroyDerived
  <2> QED
    BY <2>1, <2>3, <2>4 DEF Silence, EnoughPackets
<1>5. CASE QuitTimer
  <2>1. Silence /\ UNCHANGED <<port, worker>> /\ owner' = "timerjoin"
    BY <1>5 DEF QuitTimer, QuietInv
  <2> QED
    BY <2>1 DEF Silence, EnoughPackets
<1>6. CASE JoinTimer
  <2>1. Silence /\ EnoughPackets /\ UNCHANGED <<port, worker>>
    BY <1>6 DEF JoinTimer, QuietInv
  <2>2. \/ owner' = "quitsome" /\ toPost' = Cardinality(Workers)
        \/ UNCHANGED <<owner, toPost>>
    BY <1>6 DEF JoinTimer, QuitPackets
  <2>3. Running' = Running /\ Len(port) \in Nat
    BY <2>1 DEF Running, TypeOK
  <2>4. Cardinality(Running) <= Len(port) + Cardinality(Workers)
    BY <2>3, RunningFinite, PoolSize
  <2> QED
    BY <2>1, <2>2, <2>3, <2>4 DEF Silence, EnoughPackets
<1>7. CASE PostQuit
  <2>1. /\ Silence /\ EnoughPackets /\ owner = "quitsome"
        /\ UNCHANGED worker
    BY <1>7 DEF PostQuit, QuietInv
  <2>2. Running' = Running /\ toPost \in Nat
    BY <2>1, PoolSize DEF Running, TypeOK
  <2>3. CASE toPost > 0 /\ toPost' = toPost - 1 /\ port' = Append(port, "quit")
             /\ owner' = owner
    <3>1. Silence' /\ Len(port) \in Nat /\ Len(port') = Len(port) + 1
      BY <2>1, <2>3, QuietPost
    <3>2. Len(port') + toPost' = Len(port) + toPost
      BY <2>2, <2>3, <3>1
    <3> QED
      BY <2>1, <2>2, <2>3, <3>1, <3>2 DEF EnoughPackets
  <2>4. CASE ~(toPost > 0) /\ owner' = "joinsome" /\ UNCHANGED <<toPost, port>>
    BY <2>1, <2>2, <2>4 DEF Silence, EnoughPackets
  <2> QED
    BY <1>7, <2>3, <2>4 DEF PostQuit, MorePackets
<1>8. CASE JoinSome
  <2>1. /\ Silence /\ EnoughPackets /\ owner = "joinsome" /\ owner' = "delete"
        /\ UNCHANGED <<port, worker>>
    BY <1>8 DEF JoinSome, QuietInv
  <2>2. Running' = Running
    BY <2>1 DEF Running
  <2>3. Running # {} => port = <<>>
    BY <1>8, <2>1 DEF JoinSome, Silence, Running
  <2>4. port = <<>> => Cardinality(Running) = 0
    BY <2>1, RunningFinite DEF EnoughPackets
  <2>5. Running = {}
    BY <2>3, <2>4, RunningFinite
  <2> QED
    BY <2>1, <2>2, <2>5 DEF Silence, EnoughPackets
<1>9. CASE DeleteThread
  <2>1. /\ Silence /\ EnoughPackets /\ UNCHANGED <<port, worker, toPost>>
        /\ (owner' = owner \/ owner' = "free")
    BY <1>9 DEF DeleteThread, QuietInv
  <2> QED
    BY <2>1, <1>1 DEF Silence, EnoughPackets
<1>10. CASE Free
  <2>1. /\ Silence /\ owner' = "finished" /\ UNCHANGED <<port, worker>>
    BY <1>10 DEF Free, QuietInv, ObjectInv, Dying
  <2> QED
    BY <2>1 DEF Silence, EnoughPackets
<1>11. ASSUME NEW w \in Workers, WorkerStep(w) PROVE Silence' /\ EnoughPackets'
  <2>1. UNCHANGED <<owner, object, toPost, busy>>
    BY <1>11, WorkerFrame DEF quitVars
  <2>2. Silence /\ EnoughPackets
    BY <2>1 DEF QuietInv
  <2>3. /\ Silence'
        /\ w \in Running
        /\ Cardinality(Running') = Cardinality(Running) - 1
        /\ Len(port') = Len(port) - 1
        /\ Len(port) \in Nat
    BY <1>11, <2>2, QuietTake
  <2>4. toPost \in Nat /\ Cardinality(Running) \in Nat
    BY PoolSize, RunningFinite DEF TypeOK
  <2> QED
    BY <2>1, <2>2, <2>3, <2>4 DEF EnoughPackets
<1>12. CASE Complete
  <2>1. /\ busy' = (busy \/ object = "base")
        /\ UNCHANGED object
        /\ object \in {"whole", "base"}
    BY <1>12 DEF Complete
  <2> QED
    BY <2>1
<1> QED
  BY <1>2, <1>3, <1>4, <1>5, <1>6, <1>7, <1>8, <1>9, <1>10, <1>11, <1>12
     DEF Next, OwnerStep

(* Who ends in a pure virtual call was not quiet.                          *)
LEMMA CleanStep ==
  IInv /\ [Next]_vars => QuietIsClean'
<1> SUFFICES ASSUME IInv, [Next]_vars PROVE QuietIsClean'
  OBVIOUS
<1> USE DEF QuietIsClean, poolVars, quitVars
<1>1. CASE RunThread \/ SendQuit \/ Join \/ Timer \/ Complete \/ UNCHANGED vars
  BY <1>1 DEF RunThread, SendQuit, Join, Timer, Complete, vars, IInv
<1>2. CASE Construct \/ Publish \/ Setup \/ LeaveLoop \/ Unpublish
  BY <1>2 DEF Construct, Publish, Setup, LeaveLoop, Unpublish, IInv
<1>3. CASE DestroyDerived
  <2>1. process' = process /\ owner' # owner
    BY <1>3 DEF DestroyDerived
  <2>2. process = "up"
    BY <2>1 DEF Next, vars
  <2> QED
    BY <2>1, <2>2
<1>4. CASE QuitTimer \/ JoinTimer \/ PostQuit \/ JoinSome \/ Free
  BY <1>4 DEF QuitTimer, JoinTimer, PostQuit, JoinSome, Free, IInv
<1>5. CASE DeleteThread
  <2>1. /\ owner = "delete" /\ UNCHANGED busy
        /\ process' = process \/ \E w \in Workers : worker[w] # "finished"
    BY <1>5 DEF DeleteThread, Finished
  <2>2. object = "base"
    BY <2>1 DEF IInv, ObjectInv, Dying
  <2>3. ~busy => Running = {}
    BY <2>1, <2>2 DEF IInv, QuietInv, EnoughPackets
  <2>4. Running = {} => \A w \in Workers : worker[w] = "finished"
    BY <2>2 DEF Running, IInv, TypeOK, StaffInv
  <2> QED
    BY <2>1, <2>3, <2>4 DEF IInv
<1>6. ASSUME NEW w \in Workers, WorkerStep(w) PROVE QuietIsClean'
  <2>1. UNCHANGED <<object, busy>>
    BY <1>6, WorkerFrame
  <2>2. CASE busy
    BY <2>1, <2>2
  <2>3. CASE object \in {"base", "gone"} /\ ~busy
    <3>1. Silence
      BY <2>3 DEF IInv, QuietInv
    <3> QED
      BY <1>6, <2>1, <3>1, QuietTake DEF IInv
  <2>4. CASE object = "whole" \/ object = "none"
    BY <1>6, <2>1, <2>4, WorkerCases DEF IInv, StaffInv
  <2> QED
    BY <2>2, <2>3, <2>4 DEF IInv, TypeOK
<1> QED
  BY <1>1, <1>2, <1>3, <1>4, <1>5, <1>6 DEF Next, OwnerStep

-----------------------------------------------------------------------------
(* The invariant holds from the construction of the endpoint to its end,   *)
(* for every number of receive threads (IOCP.cpp:29-63, base.cpp:160-336). *)
THEOREM LifecycleInvariant == Spec => []IInv
<1>1. IInv /\ [Next]_vars => IInv'
  BY TypeStep, ObjectStep, StaffStep, DeletedStep, QuietStep, CleanStep
     DEF IInv
<1> QED
  BY <1>1, InitInv, PTL DEF Spec

(* Every variable keeps its type; QuitSome posts at most one quit packet   *)
(* for each receive thread (Threads.h:54-69).                              *)
THEOREM TypeCorrect == Spec => []TypeOK
<1>1. IInv => TypeOK
  BY DEF IInv
<1> QED
  BY <1>1, LifecycleInvariant, PTL

(* When ~IOCPBase deletes the transports and closes the port, no receive   *)
(* thread is left, however long its handlers take and wherever the start   *)
(* of the pool failed (base.cpp:187-191, 305-313).                         *)
THEOREM PoolAlwaysGoneFirst == Spec => []PoolGoneFirst
<1>1. IInv => PoolGoneFirst
  BY DEF IInv, DeletedInv, PoolGoneFirst, Running
<1> QED
  BY <1>1, LifecycleInvariant, PTL

(* An endpoint that meets no traffic during its destruction, with any      *)
(* number of receive threads and of outstanding operations, is destroyed   *)
(* without a pure virtual call: QuitSome posts a packet for each thread,   *)
(* and JoinSome has nothing to give up on (base.cpp:332, Threads.h:54-69). *)
THEOREM QuietAlwaysClean == Spec => []QuietIsClean
<1>1. IInv => QuietIsClean
  BY DEF IInv
<1> QED
  BY <1>1, LifecycleInvariant, PTL

=============================================================================
