----------------------------- MODULE Lifecycle ------------------------------
(***************************************************************************)
(* The life of one endpoint, from main starting its ProgramThread to main  *)
(* deleting it: the Server or Client object on the stack of that thread,   *)
(* the pool of receive threads and the statistics thread that its base     *)
(* class IOCPBase starts and stops, the quit packets on the completion     *)
(* port, and the object's destruction from the derived class down.  What a *)
(* handler does to a connection is the business of TCPServer; here a       *)
(* handler only runs, calls back into the object and returns or throws.    *)
(***************************************************************************)
EXTENDS Naturals, Sequences, FiniteSets

CONSTANTS
  Workers,  (* the receive threads, sm_NumRecvThreads of them              *)
  MaxIO,    (* bound: completions the kernel posts                         *)
  Throws    (* TRUE when starting the endpoint may throw                   *)

ASSUME LifecycleAssumption ==
  /\ IsFiniteSet(Workers)
  /\ MaxIO \in Nat
  /\ Throws \in BOOLEAN

VARIABLES
  main,       (* the main thread                                           *)
  owner,      (* the ProgramThread, on whose stack the object lives        *)
  object,     (* what there is of the object: whole, its base, or nothing  *)
  pointer,    (* m_ClientOrServer is not NULL                              *)
  quit,       (* m_Quit of the Server or Client                            *)
  worker,     (* each receive thread; "finished" is m_Finished             *)
  timer,      (* the statistics thread                                     *)
  timerQuit,  (* m_Quit of the statistics thread                           *)
  port,       (* the completion port: "io" and "quit" packets              *)
  pending,    (* operations outstanding with the kernel                    *)
  made,       (* completions posted so far                                 *)
  toPost,     (* quit packets QuitSome has yet to post                     *)
  deleted,    (* receive threads deleted so far                            *)
  process,    (* "up", or how the process came to a bad end                *)
  busy        (* history: the destruction met traffic, a completion in a   *)
              (* handler or on the port when it began, or posted later     *)

poolVars == <<worker, port, pending, made>>
quitVars == <<toPost, deleted>>
vars == <<main, owner, object, pointer, quit, timer, timerQuit, poolVars,
          quitVars, process, busy>>

OwnerSteps == {"off", "construct", "publish", "setup", "loop", "unpublish",
               "derived", "timerquit", "timerjoin", "quitsome", "joinsome",
               "delete", "free", "finished"}

TypeOK ==
  /\ main \in {"start", "key", "join", "done"}
  /\ owner \in OwnerSteps
  /\ object \in {"none", "whole", "base", "gone"}
  /\ pointer \in BOOLEAN
  /\ quit \in BOOLEAN
  /\ worker \in [Workers -> {"off", "wait", "handler", "finished"}]
  /\ timer \in {"off", "check", "sleep", "print", "finished"}
  /\ timerQuit \in BOOLEAN
  /\ port \in Seq({"io", "quit"})
  /\ pending \in Nat
  /\ made \in 0 .. MaxIO
  /\ toPost \in 0 .. Cardinality(Workers)
  /\ deleted \in SUBSET Workers
  /\ process \in {"up", "assert", "dangling", "terminate", "purecall"}
  /\ busy \in BOOLEAN

Init ==
  /\ main = "start"
  /\ owner = "off"
  /\ object = "none"
  /\ pointer = FALSE
  /\ quit = FALSE
  /\ worker = [w \in Workers |-> "off"]
  /\ timer = "off"
  /\ timerQuit = FALSE
  /\ port = <<>>
  /\ pending = 0
  /\ made = 0
  /\ toPost = 0
  /\ deleted = {}
  /\ process = "up"
  /\ busy = FALSE

Running == {w \in Workers : worker[w] \in {"wait", "handler"}}
Packets(kind) == {i \in DOMAIN port : port[i] = kind}

-----------------------------------------------------------------------------
(* main: RunThread, whose result it ignores, then the user's key.          *)
RunThread ==
  /\ main = "start"
  /\ main' = "key"
  /\ \/ owner' = "construct"
     \/ Throws /\ UNCHANGED owner
  /\ UNCHANGED <<object, pointer, quit, timer, timerQuit, poolVars, quitVars,
                 process, busy>>

(* ProgramThread::SendQuit: the assert, then a store through the pointer,  *)
(* whether or not the object is still there.                               *)
SendQuit ==
  /\ main = "key"
  /\ IF pointer /\ object = "whole"
     THEN /\ quit' = TRUE
          /\ main' = "join"
          /\ UNCHANGED process
     ELSE /\ process' = IF pointer THEN "dangling" ELSE "assert"
          /\ UNCHANGED <<quit, main>>
  /\ UNCHANGED <<owner, object, pointer, timer, timerQuit, poolVars, quitVars,
                 busy>>

(* Join without a timeout, then delete: ~Thread finds m_Finished set.      *)
Join ==
  /\ main = "join"
  /\ owner = "finished"
  /\ main' = "done"
  /\ UNCHANGED <<owner, object, pointer, quit, timer, timerQuit, poolVars,
                 quitVars, process, busy>>

-----------------------------------------------------------------------------
(* IOCPBase::IOCPBase starts the pool and the statistics thread.  When a   *)
(* receive thread cannot be started the constructor throws, ~IOCPBase does *)
(* not run, and the threads already started are left where they are; that  *)
(* the statistics thread cannot be started goes unnoticed.                 *)
Construct ==
  /\ owner = "construct"
  /\ \/ /\ worker' = [w \in Workers |-> "wait"]
        /\ timer' \in IF Throws THEN {"check", "off"} ELSE {"check"}
        /\ object' = "whole"
        /\ owner' = "publish"
     \/ /\ Throws
        /\ \E S \in SUBSET Workers :
             /\ S # Workers
             /\ worker' = [w \in Workers |-> IF w \in S THEN "wait" ELSE "off"]
        /\ owner' = "finished"
        /\ UNCHANGED <<timer, object>>
  /\ UNCHANGED <<main, pointer, quit, timerQuit, port, pending, made, quitVars,
                 process, busy>>

(* ProgramThread::ThreadMain stores the address of the object.             *)
Publish ==
  /\ owner = "publish"
  /\ pointer' = TRUE
  /\ owner' = "setup"
  /\ UNCHANGED <<main, object, quit, timer, timerQuit, poolVars, quitVars,
                 process, busy>>

(* The beginning of Server::ThreadMain or Client::ThreadMain: sockets and  *)
(* the first operations.  The server leaves it with two AcceptEx and a     *)
(* WSARecvFrom outstanding, the client with a WSARecvFrom.  An exception   *)
(* before the last of them unwinds to the destructor and leaves the        *)
(* pointer as it is.                                                       *)
Setup ==
  /\ owner = "setup"
  /\ \/ /\ owner' = "loop"
        /\ pending' \in {1, 3}
     \/ /\ Throws
        /\ owner' = "derived"
        /\ pending' \in 0 .. 2
  /\ UNCHANGED <<main, object, pointer, quit, timer, timerQuit, worker, port,
                 made, quitVars, process, busy>>

LeaveLoop ==
  /\ owner = "loop"
  /\ quit
  /\ owner' = "unpublish"
  /\ UNCHANGED <<main, object, pointer, quit, timer, timerQuit, poolVars,
                 quitVars, process, busy>>

Unpublish ==
  /\ owner = "unpublish"
  /\ pointer' = FALSE
  /\ owner' = "derived"
  /\ UNCHANGED <<main, object, quit, timer, timerQuit, poolVars, quitVars,
                 process, busy>>

(* The destructor of Server or Client has run, ~IOCPBase is next: from now *)
(* on the callbacks are pure virtual.                                      *)
DestroyDerived ==
  /\ owner = "derived"
  /\ object' = "base"
  /\ busy' = (Packets("io") # {} \/ \E w \in Workers : worker[w] = "handler")
  /\ owner' = "timerquit"
  /\ UNCHANGED <<main, pointer, quit, timer, timerQuit, poolVars, quitVars,
                 process>>

(* m_TimerThread.Quit: its SendQuit, and its Join without a timeout.       *)
QuitTimer ==
  /\ owner = "timerquit"
  /\ timerQuit' = TRUE
  /\ owner' = "timerjoin"
  /\ UNCHANGED <<main, object, pointer, quit, timer, poolVars, quitVars,
                 process, busy>>

(* How often QuitSome calls SendQuit.                                      *)
QuitPacketsTooFew == Cardinality(Workers) - 1  (* slip *)
QuitPackets == Cardinality(Workers)

(* The Join returns, and DestroyRecvThreadPool enters Thread::QuitSome,    *)
(* which will call SendQuit once for each receive thread.  Joining a thread *)
(* that was never started fails, and Quit throws out of the destructor.    *)
JoinTimer ==
  /\ owner = "timerjoin"
  /\ \/ /\ timer = "finished"
        /\ owner' = "quitsome"
        /\ toPost' = QuitPackets
        /\ UNCHANGED process
     \/ /\ timer = "off"
        /\ process' = "terminate"
        /\ UNCHANGED <<owner, toPost>>
  /\ UNCHANGED <<main, object, pointer, quit, timer, timerQuit, poolVars,
                 deleted, busy>>

(* The loop over the receive threads goes on.                              *)
MorePacketsOnward == toPost >= 0  (* slip: off by one *)
MorePackets == toPost > 0

(* RecvThread::SendQuit posts a packet that any receive thread may take.   *)
PostQuit ==
  /\ owner = "quitsome"
  /\ \/ /\ MorePackets
        /\ toPost' = toPost - 1
        /\ port' = Append(port, "quit")
        /\ UNCHANGED owner
     \/ /\ ~MorePackets
        /\ owner' = "joinsome"
        /\ UNCHANGED <<toPost, port>>
  /\ UNCHANGED <<main, object, pointer, quit, timer, timerQuit, worker,
                 pending, made, deleted, process, busy>>

(* JoinSome waits 2000 ms and ignores the result.  That is long for a      *)
(* thread that is ready to run and short for one that is in a handler or   *)
(* has nothing to take.                                                    *)
JoinSome ==
  /\ owner = "joinsome"
  /\ \A w \in Running : worker[w] = "handler" \/ port = <<>>
  /\ owner' = "delete"
  /\ UNCHANGED <<main, object, pointer, quit, timer, timerQuit, poolVars,
                 quitVars, process, busy>>

(* ~Thread looks at m_Finished.                                            *)
FinishedAny(w) == TRUE  (* slip: it does not *)
Finished(w) == worker[w] = "finished"

(* delete thread: ~Thread calls Quit for a thread that has not finished,   *)
(* and in that destructor SendQuit is a pure virtual function.             *)
DeleteThread ==
  /\ owner = "delete"
  /\ \/ \E w \in Workers \ deleted :
          \/ /\ Finished(w)
             /\ deleted' = deleted \cup {w}
             /\ UNCHANGED <<owner, process>>
          \/ /\ ~Finished(w)
             /\ process' = "purecall"
             /\ UNCHANGED <<owner, deleted>>
     \/ /\ deleted = Workers
        /\ owner' = "free"
        /\ UNCHANGED <<deleted, process>>
  /\ UNCHANGED <<main, object, pointer, quit, timer, timerQuit, poolVars,
                 toPost, busy>>

(* The rest of ~IOCPBase: the transports, the port, the critical section;  *)
(* then threadMain sets m_Finished.                                        *)
Free ==
  /\ owner = "free"
  /\ object' = "gone"
  /\ owner' = "finished"
  /\ UNCHANGED <<main, pointer, quit, timer, timerQuit, poolVars, quitVars,
                 process, busy>>

-----------------------------------------------------------------------------
(* IOCPBase::Recv takes the packet at the head of the port; a quit packet  *)
(* ends the thread.                                                        *)
Take(w) ==
  /\ worker[w] = "wait"
  /\ port # <<>>
  /\ port' = Tail(port)
  /\ worker' = [worker EXCEPT ![w] =
                  IF Head(port) = "quit" THEN "finished" ELSE "handler"]
  /\ UNCHANGED <<main, owner, object, pointer, quit, timer, timerQuit,
                 pending, made, quitVars, process, busy>>

(* A handler ends, normally or with an exception that ends the thread; an  *)
(* accept may have started an accept and a receive.  If it gets as far as  *)
(* a callback, the object must be whole.                                   *)
Handle(w) ==
  /\ worker[w] = "handler"
  /\ \/ /\ \E s \in {"wait", "finished"} : worker' = [worker EXCEPT ![w] = s]
        /\ pending' \in pending .. pending + 2
        /\ UNCHANGED process
     \/ /\ object # "whole"
        /\ process' = "purecall"
        /\ UNCHANGED <<worker, pending>>
  /\ UNCHANGED <<main, owner, object, pointer, quit, timer, timerQuit, port,
                 made, quitVars, busy>>

TimerEndsNever == FALSE  (* slip: while (true) *)
TimerEnds == timerQuit

(* TimerThread::ThreadMain; "print" is PrintTotalRecived, which uses the   *)
(* map and the critical section of the object.                             *)
Timer ==
  /\ \/ timer = "check" /\ timer' = IF TimerEnds THEN "finished" ELSE "sleep"
     \/ timer = "sleep" /\ timer' = "print"
     \/ timer = "print" /\ timer' = "check"
  /\ UNCHANGED <<main, owner, object, pointer, quit, timerQuit, poolVars,
                 quitVars, process, busy>>

(* The kernel posts a completion, until the port is closed.                *)
Complete ==
  /\ pending > 0
  /\ made < MaxIO
  /\ object \in {"whole", "base"}
  /\ pending' = pending - 1
  /\ made' = made + 1
  /\ port' = Append(port, "io")
  /\ busy' = (busy \/ object = "base")
  /\ UNCHANGED <<main, owner, object, pointer, quit, timer, timerQuit, worker,
                 quitVars, process>>

-----------------------------------------------------------------------------
OwnerStep ==
  \/ Construct \/ Publish \/ Setup \/ LeaveLoop \/ Unpublish
  \/ DestroyDerived \/ QuitTimer \/ JoinTimer \/ PostQuit \/ JoinSome
  \/ DeleteThread \/ Free

WorkerStep(w) == Take(w) \/ Handle(w)

Next ==
  /\ process = "up"
  /\ \/ RunThread \/ SendQuit \/ Join
     \/ OwnerStep
     \/ \E w \in Workers : WorkerStep(w)
     \/ Timer
     \/ Complete

Spec == Init /\ [][Next]_vars

(* Windows schedules every thread.  Nothing makes the user press the key   *)
(* or the network complete an operation.                                   *)
Fairness ==
  /\ WF_vars(process = "up" /\ (RunThread \/ Join))
  /\ WF_vars(process = "up" /\ OwnerStep)
  /\ \A w \in Workers : WF_vars(process = "up" /\ WorkerStep(w))
  /\ WF_vars(process = "up" /\ Timer)

FairSpec == Spec /\ Fairness

-----------------------------------------------------------------------------
(* When ~IOCPBase deletes the transports and closes the port, no receive   *)
(* thread is left to use them, although JoinSome may have given up waiting *)
(* (base.cpp:187-191, 305-313; Threads.cpp:32, 66).                        *)
PoolGoneFirst == owner = "free" \/ object = "gone" => Running = {}

(* An endpoint that meets no traffic during its destruction never ends in  *)
(* a pure virtual call, whatever accepts and receives it has outstanding:  *)
(* the quit packets reach every receive thread that is left, however they  *)
(* are shared out (Threads.h:54-69, base.cpp:332).                         *)
QuietIsClean == process = "purecall" => busy

(* Once m_Quit is set, main's Join returns, or the process has ended       *)
(* (Threads.cpp:13-20).                                                    *)
Ends == quit ~> (main = "done" \/ process # "up")

(* IOCP.cpp:43 asserts that there is a Client or Server to tell to quit.   *)
SomeoneToQuit == process # "assert"

=============================================================================
