------------------------------ MODULE NetServer ------------------------------
(***************************************************************************)
(* Listening and stopping: NetworkServer, with the thread that owns it     *)
(* (main, which calls Listen and Stop), its listening thread and its pool. *)
(*                                                                         *)
(* The pool is JobPool: a job is a connection, and what ThreadPool is      *)
(* checked to implement is all that is known of it.  Listen makes a pool   *)
(* and Stop deletes it, so its phase is "none" without one, and "raw" for  *)
(* one that could not be initialised.  The listening thread keeps copies   *)
(* of the socket and of the pool's address; a Listen that gets as far as   *)
(* making new ones has joined it.                                          *)
(*                                                                         *)
(* Stop shuts the socket down and never closes it, so the kernel keeps its *)
(* port.  Touching a deleted pool is undefined; the model records that it  *)
(* happened and loses the connection.  The two histories of the last three *)
(* variables are of the last call of Stop or Listen.                       *)
(***************************************************************************)
EXTENDS Naturals, FiniteSets

CONSTANTS
  Conns,    \* bound: the connections clients make, each of them once
  Ports,    \* bound: the ports Listen is called with
  Threads,  \* numThread
  NoConn,   \* no connection
  NoPort    \* what a call of Stop by itself is to listen on

ASSUME ThreadsAssumption == Threads \in Nat \ {0}
ASSUME NamesAssumption == NoConn \notin Conns /\ NoPort \notin Ports

VARIABLES
  isWorking,
  listening,    \* the socket listens and has not been shut down
  held,         \* the ports the kernel holds for sockets that were bound
  job,          \* what the pools have made of each connection
  phase,        \* the pool txPool points to
  lpc,          \* where the listening thread is in listenRoutine
  linkfd,       \* the connection it has accepted
  cancelled,    \* it has a cancellation request
  opc,          \* where the owner is: "idle", or in Listen or Stop
  target,       \* the port of the call of Listen that is under way, or NoPort in Stop
  listenThread, \* the handle is not 0
  stopped,      \* history: the owner's last call was a Stop that returned NS_ERROR_OK
  inFlight,     \* history: when its usleep returned the thread held a connection
  usedFreed     \* history: a connection was dispatched to a pool that was released or deleted

pool   == <<job, phase>>
thread == <<lpc, linkfd>>
owner  == <<isWorking, listening, held, cancelled, opc, target, listenThread, stopped, inFlight>>
vars   == <<pool, thread, owner, usedFreed>>

Pool == INSTANCE JobPool WITH Jobs <- Conns, N <- Threads

ThreadPoints == {"none", "test", "accept", "dispatch", "ended"}
OwnerPoints == {"idle", "shut", "sleep", "release", "drain", "hung", "delete", "cancel", "join", "setup"}

TypeOK ==
  /\ isWorking \in BOOLEAN /\ listening \in BOOLEAN /\ held \subseteq Ports
  /\ job \in [Conns -> Pool!JobStates]
  /\ phase \in Pool!Phases \cup {"none", "raw"}
  /\ lpc \in ThreadPoints /\ cancelled \in BOOLEAN
  /\ linkfd \in IF lpc = "dispatch" THEN Conns ELSE {NoConn}
  /\ opc \in OwnerPoints /\ listenThread \in BOOLEAN
  /\ target \in IF opc = "setup" THEN Ports ELSE Ports \cup {NoPort}
  /\ stopped \in BOOLEAN /\ inFlight \in BOOLEAN /\ usedFreed \in BOOLEAN

Init ==
  /\ isWorking = FALSE /\ listening = FALSE /\ held = {}
  /\ job = [c \in Conns |-> "new"] /\ phase = "none"
  /\ lpc = "none" /\ linkfd = NoConn /\ cancelled = FALSE
  /\ opc = "idle" /\ target = NoPort /\ listenThread = FALSE
  /\ stopped = FALSE /\ inFlight = FALSE /\ usedFreed = FALSE

InState(state) == {c \in Conns : job[c] = state}
PoolUsable == phase \in {"open", "draining"}

(***************************************************************************)
(* The listening thread: listenRoutine                                     *)
(***************************************************************************)

ThreadGoes(from, to) == lpc = from /\ lpc' = to /\ UNCHANGED owner

ThreadTest ==
  /\ ThreadGoes("test", IF isWorking THEN "accept" ELSE "ended")
  /\ UNCHANGED <<pool, linkfd, usedFreed>>

Accept(c) ==
  /\ ThreadGoes("accept", "dispatch")
  /\ listening /\ ~cancelled /\ job[c] = "new"
  /\ linkfd' = c
  /\ UNCHANGED <<pool, usedFreed>>

\* Seeded fault: accept's result is not looked at.
AcceptUnchecked ==
  /\ ThreadGoes("accept", "dispatch")
  /\ ~listening /\ ~cancelled
  /\ UNCHANGED <<pool, linkfd, usedFreed>>

\* accept fails on a socket that was shut down, and may fail on any: the descriptors run out.
AcceptFails ==
  /\ ThreadGoes("accept", "test")
  /\ ~cancelled
  /\ UNCHANGED <<pool, linkfd, usedFreed>>

\* accept is the thread's only cancellation point.
ThreadCancelled ==
  /\ ThreadGoes("accept", "ended")
  /\ cancelled
  /\ UNCHANGED <<pool, linkfd, usedFreed>>

\* A release that hangs keeps the lock that DispatchJobs waits for.
Dispatch ==
  /\ ThreadGoes("dispatch", "test")
  /\ PoolUsable /\ opc # "hung"
  /\ Pool!Submit(linkfd)
  /\ linkfd' = NoConn
  /\ UNCHANGED usedFreed

\* DispatchJobs of a pool that was released (SubmitLate of JobPool), or deleted.
DispatchFreed ==
  /\ ThreadGoes("dispatch", "test")
  /\ ~PoolUsable
  /\ Pool!Become(linkfd, "dropped")
  /\ linkfd' = NoConn
  /\ usedFreed' = TRUE
  /\ UNCHANGED phase

ListenRoutine == ThreadTest \/ AcceptFails \/ ThreadCancelled \/ Dispatch \/ DispatchFreed

(***************************************************************************)
(* The sessions, WorkingPool::innerAction, in the threads of the pool.  A  *)
(* session ends when its client or its timeout lets it.                    *)
(***************************************************************************)

SessionStarts(c) == PoolUsable /\ opc # "hung" /\ Pool!Start(c) /\ UNCHANGED <<thread, owner, usedFreed>>
SessionEnds(c) == Pool!Finish(c) /\ UNCHANGED <<thread, owner, usedFreed>>

(***************************************************************************)
(* Stop, called by itself or by Listen                                     *)
(***************************************************************************)

OwnerGoes(from, to) == opc = from /\ opc' = to /\ UNCHANGED <<thread, held>>
StopGoes(from, to) == OwnerGoes(from, to) /\ UNCHANGED <<isWorking, target, usedFreed>>

\* Listen calls Stop before anything else.
Call(port) ==
  /\ OwnerGoes("idle", "shut")
  /\ isWorking' = FALSE
  /\ target' = port
  /\ stopped' = FALSE /\ inFlight' = FALSE /\ usedFreed' = FALSE
  /\ UNCHANGED <<pool, listening, cancelled, listenThread>>

\* Seeded fault: the socket is forgotten without being shut down.
ShutdownMissing ==
  /\ StopGoes("shut", "sleep")
  /\ UNCHANGED <<pool, listening, cancelled, listenThread, stopped, inFlight>>

Shutdown ==
  /\ StopGoes("shut", "sleep")
  /\ listening' = FALSE
  /\ UNCHANGED <<pool, cancelled, listenThread, stopped, inFlight>>

\* usleep returns, whatever the listening thread has got to by then.
Awake ==
  /\ StopGoes("sleep", IF phase = "none" THEN "cancel" ELSE "release")
  /\ inFlight' = (lpc = "dispatch")
  /\ UNCHANGED <<pool, listening, cancelled, listenThread, stopped>>

\* Seeded fault: a pool that is not running is waited for.
ReleaseRaw ==
  /\ StopGoes("release", "drain")
  /\ phase = "raw"
  /\ UNCHANGED <<pool, listening, cancelled, listenThread, stopped, inFlight>>

\* A pool that was never initialised is not running: NS_ERROR_THREAD_DESTORY.
ReleaseFails ==
  /\ StopGoes("release", "idle")
  /\ phase = "raw"
  /\ UNCHANGED <<pool, listening, cancelled, listenThread, stopped, inFlight>>

Release ==
  /\ StopGoes("release", "drain")
  /\ phase = "open" /\ Pool!Drain
  /\ UNCHANGED <<listening, cancelled, listenThread, stopped, inFlight>>

\* A release returns when no job is active ...
Released ==
  /\ StopGoes("drain", "delete")
  /\ Pool!Close
  /\ UNCHANGED <<listening, cancelled, listenThread, stopped, inFlight>>

\* ... or hangs then, with the pool's lock held: a thread that has a permit for a connection on the
\* stack and waits for that lock is joined (StuckInWindow of ThreadPool).
ReleaseHangs ==
  /\ StopGoes("drain", "hung")
  /\ InState("active") = {} /\ InState("waiting") # {}
  /\ UNCHANGED <<pool, listening, cancelled, listenThread, stopped, inFlight>>

Delete ==
  /\ StopGoes("delete", "cancel")
  /\ phase' = "none"
  /\ UNCHANGED <<job, listening, cancelled, listenThread, stopped, inFlight>>

Cancel ==
  /\ StopGoes("cancel", "join")
  /\ listenThread
  /\ cancelled' = TRUE
  /\ UNCHANGED <<pool, listening, listenThread, stopped, inFlight>>

\* Stop returns, to its caller or to Listen.
StopReturns(from) ==
  /\ StopGoes(from, IF target = NoPort THEN "idle" ELSE "setup")
  /\ listenThread' = FALSE
  /\ stopped' = (target = NoPort)
  /\ UNCHANGED <<pool, listening, cancelled, inFlight>>

\* Seeded fault: the thread is cancelled and not joined.
JoinMissing == StopReturns("join")

Join == lpc = "ended" /\ StopReturns("join")
NoThread == ~listenThread /\ StopReturns("cancel")

Stop ==
  \/ Shutdown \/ Awake \/ ReleaseFails \/ Release \/ Released \/ ReleaseHangs \/ Delete \/ Cancel \/ Join
  \/ NoThread

(***************************************************************************)
(* The rest of Listen.  A failure leaves behind what came before it, for   *)
(* the next Stop to clean up.                                              *)
(***************************************************************************)

SetUp ==
  /\ opc = "setup" /\ opc' = "idle"
  /\ isWorking' = TRUE
  /\ UNCHANGED <<job, target, stopped, inFlight, usedFreed>>

\* socket or bind fails; bind certainly does if the port is still held.
NoSocket == SetUp /\ UNCHANGED <<phase, thread, listening, held, cancelled, listenThread>>

Bind == SetUp /\ target \notin held /\ held' = held \cup {target}

ListenFails == Bind /\ UNCHANGED <<phase, thread, listening, cancelled, listenThread>>

\* The pool cannot be initialised, or the listening thread cannot be created.
ThreadCreateFails(pool_) ==
  /\ Bind
  /\ listening' = TRUE
  /\ phase' = pool_
  /\ UNCHANGED <<thread, cancelled, listenThread>>

\* afterSetup may still fail, with the server running.
Listening ==
  /\ Bind
  /\ listening' = TRUE
  /\ phase' = "open"
  /\ lpc' = "test" /\ linkfd' = NoConn /\ cancelled' = FALSE
  /\ listenThread' = TRUE

Listen == NoSocket \/ ListenFails \/ Listening \/ \E p \in {"raw", "open"} : ThreadCreateFails(p)

Next ==
  \/ ListenRoutine \/ Stop \/ Listen
  \/ \E c \in Conns : Accept(c) \/ SessionStarts(c) \/ SessionEnds(c)
  \/ \E port \in Ports \cup {NoPort} : Call(port)

Spec == Init /\ [][Next]_vars

\* accept has nothing to return.
Blocked == lpc = "accept" /\ listening

\* The threads run, and a call that was made goes on.  Nothing is assumed of sessions.
FairSpec ==
  /\ Spec
  /\ WF_vars(~Blocked /\ ListenRoutine) /\ WF_vars(Stop) /\ WF_vars(Listen)

(***************************************************************************)
(* Properties                                                              *)
(***************************************************************************)

\* Stop deletes the pool before it ends the listening thread.  The one way in which that thread
\* can dispatch to a deleted pool: it held a connection accepted before the shutdown when the
\* usleep of Stop, which is there to let it finish, was over.
FreedPoolUsedOnlyInFlight == usedFreed => inFlight

\* After a Stop that returned NS_ERROR_OK, whatever Listen had failed at before it, nothing of
\* the server runs: no listening thread, no session, no pool, and no connection waits in it.
StoppedMeansQuiet ==
  stopped =>
    /\ ~isWorking /\ ~listening /\ phase = "none"
    /\ lpc \in {"none", "ended"}
    /\ InState("active") = {} /\ InState("waiting") = {}

\* Stop, and Listen with it, waits for nothing but sessions, in particular not for the listening
\* thread, wherever shutdown and cancellation find it.  Without a session it comes to its end, or
\* hangs for ever in the release of a pool in which a connection waits.
StopReturnsOrHangs == []<>(opc \in {"idle", "hung"} \/ InState("active") # {})
=============================================================================
