--------------------------- MODULE NetServerProofs ---------------------------
(***************************************************************************)
(* Proofs about NetServer, for any number of connections, ports and        *)
(* threads.                                                                *)
(***************************************************************************)
EXTENDS NetServer, TLAPS

\* The pool's phase follows from where the owner is, but for what earlier calls left behind.
PhaseFits ==
  /\ opc \in {"idle", "shut", "sleep"} => phase \in {"none", "open", "raw"}
  /\ opc = "release" => phase \in {"open", "raw"}
  /\ opc \in {"drain", "hung"} => phase = "draining"
  /\ opc = "delete" => phase = "closed"
  /\ opc \in {"cancel", "join", "setup"} => phase = "none"

\* A listening thread that runs has a handle, and had a pool when this call of Stop began.
ThreadFits ==
  lpc \in {"test", "accept", "dispatch"} =>
    /\ listenThread
    /\ opc # "setup"
    /\ opc \in {"idle", "shut", "sleep", "release"} => phase = "open"

\* Once Stop has shut the socket down nothing is accepted, and it knows what was in flight.  A
\* call that begins finds no thread that could still use the pool of an earlier one.
ShutdownHolds ==
  /\ opc # "idle" => ~isWorking
  /\ opc \notin {"idle", "shut"} => ~listening
  /\ opc \notin {"idle", "shut", "sleep"} /\ lpc = "dispatch" => inFlight
  /\ opc \in {"shut", "sleep"} => ~usedFreed

\* Jobs belong to a pool that is there.
JobsInPool == ~PoolUsable => InState("active") = {} /\ InState("waiting") = {}

StoppedFits == stopped => opc = "idle" /\ ~isWorking /\ ~listening /\ phase = "none" /\ ~listenThread

IInv ==
  /\ TypeOK /\ PhaseFits /\ ThreadFits /\ ShutdownHolds /\ JobsInPool /\ StoppedFits
  /\ FreedPoolUsedOnlyInFlight

LEMMA InitIInv == Init => IInv
BY NamesAssumption DEF Init, IInv, TypeOK, PhaseFits, ThreadFits, ShutdownHolds, JobsInPool, StoppedFits,
  FreedPoolUsedOnlyInFlight, InState, PoolUsable, ThreadPoints, OwnerPoints, Pool!JobStates, Pool!Phases

\* The listening thread.
LEMMA ListenRoutineKeepsIInv == IInv /\ (ListenRoutine \/ \E c \in Conns : Accept(c)) => IInv'
<1> SUFFICES ASSUME IInv, ListenRoutine \/ \E c \in Conns : Accept(c) PROVE IInv'
  OBVIOUS
<1> USE DEF IInv, TypeOK, PhaseFits, ThreadFits, ShutdownHolds, JobsInPool, StoppedFits, PoolUsable,
  FreedPoolUsedOnlyInFlight, InState, ThreadPoints, OwnerPoints, Pool!JobStates, Pool!Phases,
  ThreadGoes, owner, pool
<1>1. CASE ThreadTest
  BY <1>1 DEF ThreadTest
<1>2. CASE AcceptFails
  BY <1>2 DEF AcceptFails
<1>3. CASE ThreadCancelled
  BY <1>3 DEF ThreadCancelled
<1>4. CASE Dispatch
  <2>1. TypeOK'
    BY <1>4 DEF Dispatch, Pool!Submit, Pool!Become
  <2>2. PoolUsable'
    BY <1>4 DEF Dispatch, Pool!Submit, Pool!Become
  <2> QED
    BY <1>4, <2>1, <2>2 DEF Dispatch, Pool!Submit
<1>5. CASE DispatchFreed
  <2>1. TypeOK'
    BY <1>5 DEF DispatchFreed, Pool!Become
  <2>2. JobsInPool'
    BY <1>5 DEF DispatchFreed, Pool!Become
  <2>3. inFlight
    BY <1>5 DEF DispatchFreed
  <2> QED
    BY <1>5, <2>1, <2>2, <2>3 DEF DispatchFreed
<1>6. ASSUME NEW c \in Conns, Accept(c) PROVE IInv'
  BY <1>6 DEF Accept
<1> QED
  BY <1>1, <1>2, <1>3, <1>4, <1>5, <1>6 DEF ListenRoutine

\* The sessions.
LEMMA SessionsKeepIInv ==
  ASSUME IInv, NEW c \in Conns, SessionStarts(c) \/ SessionEnds(c)
  PROVE  IInv'
<1> USE DEF IInv, TypeOK, Pool!Become, thread, owner
<1>1. job' \in [Conns -> Pool!JobStates] /\ phase' = phase
  BY DEF SessionStarts, SessionEnds, Pool!Start, Pool!Finish, Pool!JobStates
<1>2. PoolUsable
  BY DEF SessionStarts, SessionEnds, Pool!Finish, JobsInPool, InState
<1> QED
  BY <1>1, <1>2 DEF SessionStarts, SessionEnds, PhaseFits, ThreadFits, ShutdownHolds, JobsInPool,
    StoppedFits, PoolUsable, FreedPoolUsedOnlyInFlight

\* Stop.
LEMMA StopKeepsIInv == IInv /\ Stop => IInv'
<1> SUFFICES ASSUME IInv, Stop PROVE IInv'
  OBVIOUS
<1> USE NamesAssumption DEF IInv, TypeOK, PhaseFits, ThreadFits, ShutdownHolds, JobsInPool, StoppedFits,
  PoolUsable, FreedPoolUsedOnlyInFlight, InState, OwnerPoints, Pool!Phases,
  StopGoes, OwnerGoes, thread, pool
<1>1. CASE Shutdown
  BY <1>1 DEF Shutdown
<1>2. CASE Awake
  BY <1>2 DEF Awake
<1>3. CASE ReleaseFails
  BY <1>3 DEF ReleaseFails
<1>4. CASE Release
  BY <1>4 DEF Release, Pool!Drain
<1>5. CASE Released
  <2>1. job' \in [Conns -> Pool!JobStates]
    BY <1>5 DEF Released, Pool!Close, Pool!JobStates
  <2>2. InState("active")' = {} /\ InState("waiting")' = {}
    BY <1>5 DEF Released, Pool!Close
  <2> QED
    BY <1>5, <2>1, <2>2 DEF Released, Pool!Close
<1>6. CASE Delete
  BY <1>6 DEF Delete
<1>7. CASE Cancel
  BY <1>7 DEF Cancel
<1>8. CASE Join \/ NoThread
  <2>1. lpc \notin {"test", "accept", "dispatch"}
    BY <1>8 DEF Join, NoThread, StopReturns
  <2>2. opc \in {"join", "cancel"}
    BY <1>8 DEF Join, NoThread, StopReturns
  <2>3. /\ UNCHANGED <<isWorking, target, lpc, linkfd, held, usedFreed, job, phase, listening, inFlight>>
        /\ cancelled' = cancelled /\ listenThread' = FALSE
        /\ opc' = IF target = NoPort THEN "idle" ELSE "setup"
    BY <1>8 DEF Join, NoThread, StopReturns
  <2>4. stopped' \in BOOLEAN /\ (stopped' => target = NoPort)
    BY <1>8, Zenon DEF Join, NoThread, StopReturns
  <2> QED
    BY <2>1, <2>2, <2>3, <2>4
<1>9. CASE ReleaseHangs
  BY <1>9 DEF ReleaseHangs
<1> QED
  BY <1>1, <1>2, <1>3, <1>4, <1>5, <1>6, <1>7, <1>8, <1>9 DEF Stop

\* Listen, and the calls.
LEMMA ListenKeepsIInv == IInv /\ (Listen \/ \E port \in Ports \cup {NoPort} : Call(port)) => IInv'
<1> SUFFICES ASSUME IInv, Listen \/ \E port \in Ports \cup {NoPort} : Call(port) PROVE IInv'
  OBVIOUS
<1> USE DEF IInv, TypeOK, PhaseFits, ThreadFits, ShutdownHolds, JobsInPool, StoppedFits,
  PoolUsable, FreedPoolUsedOnlyInFlight, InState, ThreadPoints, OwnerPoints, Pool!Phases,
  SetUp, OwnerGoes, thread, pool
<1>1. CASE NoSocket
  BY <1>1 DEF NoSocket
<1>2. CASE ListenFails
  BY <1>2 DEF ListenFails, Bind
<1>3. CASE Listening
  BY <1>3 DEF Listening, Bind
<1>4. ASSUME NEW p \in {"raw", "open"}, ThreadCreateFails(p) PROVE IInv'
  BY <1>4 DEF ThreadCreateFails, Bind
<1>5. ASSUME NEW port \in Ports \cup {NoPort}, Call(port) PROVE IInv'
  BY <1>5 DEF Call
<1> QED
  BY <1>1, <1>2, <1>3, <1>4, <1>5 DEF Listen

\* The invariant is inductive.
LEMMA NextKeepsIInv == IInv /\ [Next]_vars => IInv'
<1>1. IInv /\ UNCHANGED vars => IInv'
  BY DEF vars, pool, thread, owner, IInv, TypeOK, PhaseFits, ThreadFits, ShutdownHolds, JobsInPool,
    StoppedFits, PoolUsable, FreedPoolUsedOnlyInFlight, InState
<1> QED
  BY <1>1, ListenRoutineKeepsIInv, SessionsKeepIInv, StopKeepsIInv, ListenKeepsIInv DEF Next

LEMMA SpecIInv == Spec => []IInv
<1>1. Init => IInv
  BY InitIInv
<1>2. IInv /\ [Next]_vars => IInv'
  BY NextKeepsIInv
<1> QED
  BY <1>1, <1>2, PTL DEF Spec

\* The types, whatever clients, sessions and the owner do.
THEOREM TypeCorrect == Spec => []TypeOK
<1>1. IInv => TypeOK
  BY DEF IInv
<1> QED
  BY <1>1, SpecIInv, PTL

\* The listening thread dispatches to a deleted pool only with a connection that it held when the
\* usleep of Stop was over: closing that one window would be enough.
THEOREM FreedPoolOnlyInFlight == Spec => []FreedPoolUsedOnlyInFlight
<1>1. IInv => FreedPoolUsedOnlyInFlight
  BY DEF IInv
<1> QED
  BY <1>1, SpecIInv, PTL

\* A Stop that returned NS_ERROR_OK leaves no thread, session or pool of the server.
THEOREM StopLeavesNothing == Spec => []StoppedMeansQuiet
<1>1. IInv => StoppedMeansQuiet
  BY DEF IInv, TypeOK, StoppedMeansQuiet, StoppedFits, JobsInPool, ThreadFits, PoolUsable, ThreadPoints
<1> QED
  BY <1>1, SpecIInv, PTL
=============================================================================
