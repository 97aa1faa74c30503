------------------------ MODULE CamControlServerProofs ------------------------
(***************************************************************************)
(* Proofs about CamControlServer, for any number of worker threads.        *)
(***************************************************************************)
EXTENDS CamControlServer, TLAPS

\* Sequences of messages, as sendMsg builds them.
LEMMA MessageSequences ==
  /\ << >> \in Seq(ServerMsgs)
  /\ \A m \in ServerMsgs : <<m>> \in Seq(ServerMsgs)
  /\ \A m \in ServerMsgs, s \in Seq(ServerMsgs) : Append(s, m) \in Seq(ServerMsgs)
OBVIOUS

LEMMA MessagesKnown ==
  /\ {"HELLO_PASSWD_INDICATE", "ERROR_LOGIN", "ERROR_SERIAL_OPEN_FAIL", "ERROR_SERIAL_OCCUPY",
      "ERROR_TIMEOUT", "ERROR_ILLEGAL_INST", "WARNING_SERVO_UNSTABLE", "OK"} = ServerMsgs
BY DEF ServerMsgs

\* The parts of the type invariant are inductive one by one; the flags first.
LEMMA FlagsTyped == TypeOfFlags /\ [Next]_vars => TypeOfFlags'
<1> SUFFICES ASSUME TypeOfFlags, [Next]_vars PROVE TypeOfFlags'
  OBVIOUS
<1> USE DEF TypeOfFlags, shared, network
<1>1. CASE UNCHANGED vars
  BY <1>1 DEF vars
<1>2. CASE EarlyConnect \/ AfterSetup \/ NetworkDown \/ ServoThread
  BY <1>2 DEF EarlyConnect, AfterSetup, NetworkDown, ServoThread
<1>3. ASSUME NEW w \in Workers, StartSession(w) \/ RecvTimeout(w) PROVE TypeOfFlags'
  BY <1>3 DEF StartSession, RecvTimeout
<1>4. ASSUME NEW w \in Workers, Client(w) PROVE TypeOfFlags'
  BY <1>4 DEF Client, RecvEof, RecvReset, AuthRight, AuthWrong, Query, Illegal, KeepOrSet, Reset, Drop, SetMove
<1>5. ASSUME NEW w \in Workers, Worker(w) PROVE TypeOfFlags'
  BY <1>5 DEF Worker, TryLock, LinkCheck, Reply, ResetX, ResetY, Unlock, StopX, StopY, Close
<1> QED
  BY <1>1, <1>2, <1>3, <1>4, <1>5 DEF Next

\* The flags of the sessions.
LEMMA SessionFlagsTyped == TypeOfSessionFlags /\ [Next]_vars => TypeOfSessionFlags'
<1> SUFFICES ASSUME TypeOfSessionFlags, [Next]_vars PROVE TypeOfSessionFlags'
  OBVIOUS
<1> USE DEF TypeOfSessionFlags, session
<1>1. CASE UNCHANGED vars
  BY <1>1 DEF vars
<1>2. CASE EarlyConnect \/ AfterSetup \/ NetworkDown \/ ServoThread
  BY <1>2 DEF EarlyConnect, AfterSetup, NetworkDown, ServoThread
<1>3. ASSUME NEW w \in Workers, StartSession(w) \/ RecvTimeout(w) PROVE TypeOfSessionFlags'
  BY <1>3 DEF StartSession, RecvTimeout
<1>4. ASSUME NEW w \in Workers, Client(w) PROVE TypeOfSessionFlags'
  BY <1>4 DEF Client, RecvEof, RecvReset, AuthRight, AuthWrong, Query, Illegal, KeepOrSet, Reset, Drop, SetMove
<1>5. ASSUME NEW w \in Workers, Worker(w) PROVE TypeOfSessionFlags'
  BY <1>5 DEF Worker, TryLock, LinkCheck, Reply, ResetX, ResetY, Unlock, StopX, StopY, Close
<1> QED
  BY <1>1, <1>2, <1>3, <1>4, <1>5 DEF Next

\* Where the sessions are, and why they ended.
LEMMA ControlTyped == TypeOfControl /\ [Next]_vars => TypeOfControl'
<1> SUFFICES ASSUME TypeOfControl, [Next]_vars PROVE TypeOfControl'
  OBVIOUS
<1> USE DEF TypeOfControl, Points, Reasons, session, Goto, Throw
<1>1. CASE UNCHANGED vars
  BY <1>1 DEF vars
<1>2. CASE EarlyConnect \/ AfterSetup \/ NetworkDown \/ ServoThread
  BY <1>2 DEF EarlyConnect, AfterSetup, NetworkDown, ServoThread
<1>3. ASSUME NEW w \in Workers, StartSession(w) \/ RecvTimeout(w) PROVE TypeOfControl'
  <2>1. CASE StartSession(w)
    BY <2>1 DEF StartSession
  <2>2. CASE RecvTimeout(w)
    BY <2>2 DEF RecvTimeout
  <2> QED
    BY <1>3, <2>1, <2>2
<1>4. ASSUME NEW w \in Workers, Client(w) PROVE TypeOfControl'
  <2>1. CASE RecvEof(w) \/ RecvReset(w)
    BY <2>1 DEF RecvEof, RecvReset
  <2>2. CASE AuthRight(w) \/ AuthWrong(w)
    BY <2>2 DEF AuthRight, AuthWrong
  <2>3. CASE Query(w) \/ Illegal(w) \/ KeepOrSet(w)
    BY <2>3 DEF Query, Illegal, KeepOrSet
  <2>5. CASE Drop(w) \/ Reset(w)
    BY <2>5 DEF Drop, Reset
  <2>4. ASSUME NEW a \in Axes, NEW d \in Directions, SetMove(w, a, d) PROVE TypeOfControl'
    BY <2>4 DEF SetMove
  <2> QED
    BY <1>4, <2>1, <2>2, <2>3, <2>4, <2>5 DEF Client
<1>5. ASSUME NEW w \in Workers, Worker(w) PROVE TypeOfControl'
  <2>1. CASE TryLock(w) \/ LinkCheck(w) \/ Reply(w)
    BY <2>1 DEF TryLock, LinkCheck, Reply
  <2>2. CASE ResetX(w) \/ ResetY(w)
    BY <2>2 DEF ResetX, ResetY
  <2>3. CASE Unlock(w) \/ StopX(w) \/ StopY(w) \/ Close(w)
    BY <2>3 DEF Unlock, StopX, StopY, Close
  <2> QED
    BY <1>5, <2>1, <2>2, <2>3 DEF Worker
<1> QED
  BY <1>1, <1>2, <1>3, <1>4, <1>5 DEF Next

\* What the sessions have sent, and what became of errno.
LEMMA AnswersTyped == TypeOfAnswers /\ [Next]_vars => TypeOfAnswers'
<1> SUFFICES ASSUME TypeOfAnswers, [Next]_vars PROVE TypeOfAnswers'
  OBVIOUS
<1> USE MessageSequences, MessagesKnown DEF TypeOfAnswers, Answer, AddReply, ErrnoMayChange
<1>1. CASE UNCHANGED vars
  BY <1>1 DEF vars, session
<1>2. CASE EarlyConnect \/ AfterSetup \/ NetworkDown \/ ServoThread
  BY <1>2 DEF session, EarlyConnect, AfterSetup, NetworkDown, ServoThread
<1>3. ASSUME NEW w \in Workers, StartSession(w) \/ RecvTimeout(w) PROVE TypeOfAnswers'
  BY <1>3 DEF StartSession, RecvTimeout
<1>4. ASSUME NEW w \in Workers, Client(w) PROVE TypeOfAnswers'
  <2>1. CASE RecvEof(w)
    BY <2>1 DEF RecvEof
  <2>2. CASE RecvReset(w)
    BY <2>2 DEF RecvReset
  <2>3. CASE AuthRight(w)
    BY <2>3 DEF AuthRight
  <2>4. CASE AuthWrong(w)
    BY <2>4 DEF AuthWrong
  <2>5. CASE Query(w)
    BY <2>5 DEF Query
  <2>6. CASE Illegal(w)
    BY <2>6 DEF Illegal
  <2>7. CASE KeepOrSet(w)
    BY <2>7 DEF KeepOrSet
  <2>8. CASE Reset(w)
    BY <2>8 DEF Reset
  <2>9. CASE Drop(w)
    BY <2>9 DEF Drop
  <2>10. ASSUME NEW a \in Axes, NEW d \in Directions, SetMove(w, a, d) PROVE TypeOfAnswers'
    BY <2>10 DEF SetMove
  <2> QED
    BY <1>4, <2>1, <2>2, <2>3, <2>4, <2>5, <2>6, <2>7, <2>8, <2>9, <2>10 DEF Client
<1>5. ASSUME NEW w \in Workers, Worker(w) PROVE TypeOfAnswers'
  <2>1. CASE TryLock(w)
    <3>1. CASE AddReply(w, "ERROR_SERIAL_OCCUPY")
      BY <3>1
    <3>2. CASE UNCHANGED <<sent, errno>>
      BY <3>2
    <3> QED
      BY <2>1, <3>1, <3>2, Zenon DEF TryLock
  <2>2. CASE LinkCheck(w)
    <3>1. CASE AddReply(w, "ERROR_SERIAL_OPEN_FAIL")
      BY <3>1
    <3>2. CASE UNCHANGED <<sent, errno>>
      BY <3>2
    <3> QED
      BY <2>2, <3>1, <3>2, Zenon DEF LinkCheck
  <2>3. CASE Reply(w)
    BY <2>3 DEF Reply
  <2>4. CASE ResetX(w)
    BY <2>4 DEF ResetX
  <2>5. CASE ResetY(w)
    BY <2>5 DEF ResetY
  <2>6. CASE Unlock(w) \/ StopX(w) \/ StopY(w)
    BY <2>6 DEF Unlock, StopX, StopY
  <2>7. CASE Close(w)
    BY <2>7 DEF Close
  <2> QED
    BY <1>5, <2>1, <2>2, <2>3, <2>4, <2>5, <2>6, <2>7 DEF Worker
<1> QED
  BY <1>1, <1>2, <1>3, <1>4, <1>5 DEF Next

\* The servo and the waiting connections.
LEMMA WorldTyped == TypeOfWorld /\ [Next]_vars => TypeOfWorld'
<1> SUFFICES ASSUME TypeOfWorld, [Next]_vars PROVE TypeOfWorld'
  OBVIOUS
<1> USE MaxEarlyAssumption, StatusesAssumption DEF TypeOfWorld, Axes, Directions, shared, network
<1>1. CASE UNCHANGED vars
  BY <1>1 DEF vars
<1>2. CASE EarlyConnect \/ AfterSetup \/ NetworkDown \/ ServoThread
  BY <1>2 DEF EarlyConnect, AfterSetup, NetworkDown, ServoThread
<1>3. ASSUME NEW w \in Workers, StartSession(w) \/ RecvTimeout(w) PROVE TypeOfWorld'
  BY <1>3 DEF StartSession, RecvTimeout
<1>4. ASSUME NEW w \in Workers, Client(w) PROVE TypeOfWorld'
  <2>1. CASE RecvEof(w) \/ RecvReset(w)
    BY <2>1 DEF RecvEof, RecvReset
  <2>2. CASE AuthRight(w) \/ AuthWrong(w)
    BY <2>2 DEF AuthRight, AuthWrong
  <2>3. CASE Query(w) \/ Illegal(w) \/ KeepOrSet(w) \/ Drop(w) \/ Reset(w)
    BY <2>3 DEF Query, Illegal, KeepOrSet, Drop, Reset
  <2>4. ASSUME NEW a \in Axes, NEW d \in Directions, SetMove(w, a, d) PROVE TypeOfWorld'
    BY <2>4 DEF SetMove
  <2> QED
    BY <1>4, <2>1, <2>2, <2>3, <2>4 DEF Client
<1>5. ASSUME NEW w \in Workers, Worker(w) PROVE TypeOfWorld'
  <2>1. CASE TryLock(w) \/ LinkCheck(w) \/ Reply(w)
    BY <2>1 DEF TryLock, LinkCheck, Reply
  <2>2. CASE ResetX(w) \/ ResetY(w)
    BY <2>2 DEF ResetX, ResetY
  <2>3. CASE Unlock(w) \/ StopX(w) \/ StopY(w) \/ Close(w)
    BY <2>3 DEF Unlock, StopX, StopY, Close
  <2> QED
    BY <1>5, <2>1, <2>2, <2>3 DEF Worker
<1> QED
  BY <1>1, <1>2, <1>3, <1>4, <1>5 DEF Next

\* Every variable keeps its type, whatever the sessions, the clients and the servo thread do.
THEOREM TypeCorrect == Spec => []TypeOK
<1>1. Init => TypeOK
  <2>1. Init => TypeOfControl
    BY DEF Init, TypeOfControl, Points, Reasons
  <2>2. Init => TypeOfAnswers
    BY MessageSequences DEF Init, TypeOfAnswers
  <2>3. Init => TypeOfWorld
    BY DEF Init, TypeOfWorld, Directions
  <2>4. Init => TypeOfSessionFlags
    BY DEF Init, TypeOfSessionFlags
  <2>5. Init => TypeOfFlags
    BY DEF Init, TypeOfFlags
  <2> QED
    BY <2>1, <2>2, <2>3, <2>4, <2>5 DEF TypeOK
<1>2. TypeOK /\ [Next]_vars => TypeOK'
  BY ControlTyped, AnswersTyped, WorldTyped, SessionFlagsTyped, FlagsTyped DEF TypeOK
<1> QED
  BY <1>1, <1>2, PTL DEF Spec

(***************************************************************************)
(* The lock                                                                *)
(***************************************************************************)

LEMMA HoldersControlKept ==
  TypeOfControl /\ TypeOfSessionFlags /\ HoldersControl /\ [Next]_vars => HoldersControl'
<1> SUFFICES ASSUME TypeOfControl, TypeOfSessionFlags, HoldersControl, [Next]_vars
             PROVE HoldersControl'
  OBVIOUS
<1> USE DEF HoldersControl, TypeOfControl, TypeOfSessionFlags, InControl, session, Goto, Throw
<1>1. CASE UNCHANGED vars
  BY <1>1 DEF vars
<1>2. CASE EarlyConnect \/ AfterSetup \/ NetworkDown \/ ServoThread
  BY <1>2 DEF EarlyConnect, AfterSetup, NetworkDown, ServoThread
<1>3. ASSUME NEW w \in Workers, StartSession(w) \/ RecvTimeout(w) PROVE HoldersControl'
  BY <1>3 DEF StartSession, RecvTimeout, Receiving
<1>4. ASSUME NEW w \in Workers, Client(w) PROVE HoldersControl'
  <2>1. CASE RecvEof(w) \/ RecvReset(w)
    BY <2>1 DEF RecvEof, RecvReset, Receiving
  <2>2. CASE AuthRight(w) \/ AuthWrong(w)
    BY <2>2 DEF AuthRight, AuthWrong
  <2>3. CASE Query(w) \/ Illegal(w) \/ KeepOrSet(w) \/ Drop(w) \/ Reset(w)
    BY <2>3 DEF Query, Illegal, KeepOrSet, Drop, Reset, Request
  <2>4. ASSUME NEW a \in Axes, NEW d \in Directions, SetMove(w, a, d) PROVE HoldersControl'
    BY <2>4 DEF SetMove, Request
  <2> QED
    BY <1>4, <2>1, <2>2, <2>3, <2>4 DEF Client
<1>5. ASSUME NEW w \in Workers, Worker(w) PROVE HoldersControl'
  <2>1. CASE TryLock(w) \/ LinkCheck(w) \/ Reply(w)
    BY <2>1 DEF TryLock, LinkCheck, Reply
  <2>2. CASE ResetX(w) \/ ResetY(w)
    BY <2>2 DEF ResetX, ResetY
  <2>3. CASE Unlock(w) \/ StopX(w) \/ StopY(w) \/ Close(w)
    BY <2>3 DEF Unlock, StopX, StopY, Close
  <2> QED
    BY <1>5, <2>1, <2>2, <2>3 DEF Worker
<1> QED
  BY <1>1, <1>2, <1>3, <1>4, <1>5 DEF Next

\* Only TryLock and Unlock touch the mutex and its history.
LEMMA LockUntouched ==
  ASSUME [Next]_vars, \A w \in Workers : ~TryLock(w) /\ ~Unlock(w)
  PROVE  UNCHANGED <<serialMutex, holding, stray>>
<1> USE DEF session, shared
<1>1. CASE UNCHANGED vars
  BY <1>1 DEF vars
<1>2. CASE EarlyConnect \/ AfterSetup \/ NetworkDown \/ ServoThread
  BY <1>2 DEF EarlyConnect, AfterSetup, NetworkDown, ServoThread
<1>3. ASSUME NEW w \in Workers, StartSession(w) \/ RecvTimeout(w)
      PROVE  UNCHANGED <<serialMutex, holding, stray>>
  BY <1>3 DEF StartSession, RecvTimeout
<1>4. ASSUME NEW w \in Workers, Client(w) PROVE UNCHANGED <<serialMutex, holding, stray>>
  BY <1>4 DEF Client, RecvEof, RecvReset, AuthRight, AuthWrong, Query, Illegal, KeepOrSet,
              Reset, Drop, SetMove
<1>5. ASSUME NEW w \in Workers, Worker(w) PROVE UNCHANGED <<serialMutex, holding, stray>>
  BY <1>5 DEF Worker, LinkCheck, Reply, ResetX, ResetY, StopX, StopY, Close
<1> QED
  BY <1>1, <1>2, <1>3, <1>4, <1>5 DEF Next

\* The three facts about the mutex are kept together.
LEMMA LockKept ==
  TypeOfSessionFlags /\ LockedByHolder /\ HolderLocked /\ OneHolder /\ [Next]_vars
  => LockedByHolder' /\ HolderLocked' /\ OneHolder'
<1> SUFFICES ASSUME TypeOfSessionFlags, LockedByHolder, HolderLocked, OneHolder, [Next]_vars
             PROVE  LockedByHolder' /\ HolderLocked' /\ OneHolder'
  OBVIOUS
<1> USE DEF TypeOfSessionFlags, LockedByHolder, HolderLocked, OneHolder
<1>1. CASE \A w \in Workers : ~TryLock(w) /\ ~Unlock(w)
  BY <1>1, LockUntouched
<1>2. ASSUME NEW w \in Workers, TryLock(w)
      PROVE  LockedByHolder' /\ HolderLocked' /\ OneHolder'
  BY <1>2 DEF TryLock
<1>3. ASSUME NEW w \in Workers, Unlock(w)
      PROVE  LockedByHolder' /\ HolderLocked' /\ OneHolder'
  <2>1. ~serialMutex' /\ holding' = [holding EXCEPT ![w] = FALSE]
    BY <1>3 DEF Unlock
  <2>2. LockedByHolder'
    BY <2>1
  <2>3. stray' \/ \A v \in Workers : ~holding'[v]
    BY <1>3, <2>1 DEF Unlock
  <2> QED
    BY <2>2, <2>3
<1> QED
  BY <1>1, <1>2, <1>3

LEMMA ControlInvariant == Spec => [](TypeOK /\ ControlInv)
<1>1. Init => ControlInv
  <2>1. Init => HoldersControl
    BY DEF Init, HoldersControl, InControl
  <2>2. Init => LockedByHolder /\ HolderLocked /\ OneHolder
    BY DEF Init, LockedByHolder, HolderLocked, OneHolder
  <2> QED
    BY <2>1, <2>2 DEF ControlInv
<1>2. TypeOK /\ ControlInv /\ [Next]_vars => ControlInv'
  BY HoldersControlKept, LockKept DEF TypeOK, ControlInv
<1> QED
  BY <1>1, <1>2, TypeCorrect, PTL DEF Spec

\* However a session ends, it does not leave the serial port locked: the mutex is locked only
\* while a session that locked it is in control or is about to unlock it.
THEOREM NoOrphanLockHolds == Spec => []NoOrphanLock
<1>1. ControlInv => NoOrphanLock
  BY DEF ControlInv, HoldersControl, LockedByHolder, NoOrphanLock
<1> QED
  BY <1>1, ControlInvariant, PTL

\* Up to the first unlock by a session that had not locked the mutex, one session at most
\* is in control of the camera.
THEOREM ExclusiveUnlessStrayHolds == Spec => []ExclusiveUnlessStray
<1>1. ControlInv => ExclusiveUnlessStray
  BY DEF ControlInv, HoldersControl, HolderLocked, OneHolder, ExclusiveUnlessStray
<1> QED
  BY <1>1, ControlInvariant, PTL

(***************************************************************************)
(* The movement                                                            *)
(***************************************************************************)

LEMMA UnattendedMeansStoppedKept ==
  TypeOfControl /\ TypeOfWorld /\ UnattendedMeansStopped /\ [Next]_vars
  => UnattendedMeansStopped'
<1> SUFFICES ASSUME TypeOfControl, TypeOfWorld, UnattendedMeansStopped, [Next]_vars
             PROVE  UnattendedMeansStopped'
  OBVIOUS
<1> USE DEF UnattendedMeansStopped, Attends, InControl, TypeOfControl, TypeOfWorld, Axes,
            session, shared, Goto, Throw
<1>1. CASE UNCHANGED vars
  BY <1>1 DEF vars
<1>2. CASE EarlyConnect \/ AfterSetup \/ NetworkDown
  BY <1>2 DEF EarlyConnect, AfterSetup, NetworkDown
<1>3. CASE ServoThread
  BY <1>3 DEF ServoThread
<1>4. ASSUME NEW w \in Workers, StartSession(w) \/ RecvTimeout(w)
      PROVE  UnattendedMeansStopped'
  BY <1>4 DEF StartSession, RecvTimeout, Receiving
<1>5. ASSUME NEW w \in Workers, Client(w) PROVE UnattendedMeansStopped'
  <2>1. CASE RecvEof(w) \/ RecvReset(w)
    BY <2>1 DEF RecvEof, RecvReset, Receiving
  <2>2. CASE AuthRight(w) \/ AuthWrong(w)
    BY <2>2 DEF AuthRight, AuthWrong
  <2>3. CASE Query(w) \/ Illegal(w) \/ KeepOrSet(w) \/ Drop(w) \/ Reset(w)
    BY <2>3 DEF Query, Illegal, KeepOrSet, Drop, Reset, Request
  <2>4. ASSUME NEW a \in Axes, NEW d \in Directions, SetMove(w, a, d)
        PROVE  UnattendedMeansStopped'
    BY <2>4 DEF SetMove, Request
  <2> QED
    BY <1>5, <2>1, <2>2, <2>3, <2>4 DEF Client
<1>6. ASSUME NEW w \in Workers, Worker(w) PROVE UnattendedMeansStopped'
  <2>1. CASE TryLock(w) \/ LinkCheck(w) \/ Reply(w)
    BY <2>1 DEF TryLock, LinkCheck, Reply
  <2>2. CASE ResetX(w) \/ ResetY(w)
    BY <2>2 DEF ResetX, ResetY
  <2>3. CASE Unlock(w) \/ StopX(w) \/ StopY(w) \/ Close(w)
    BY <2>3 DEF Unlock, StopX, StopY, Close
  <2> QED
    BY <1>6, <2>1, <2>2, <2>3 DEF Worker
<1> QED
  BY <1>1, <1>2, <1>3, <1>4, <1>5, <1>6 DEF Next

\* While an axis moves, some session is in control or on its way to stop it: the camera never
\* moves on its own, whichever way its sessions ended and however they interleave.
THEOREM UnattendedMeansStoppedHolds == Spec => []UnattendedMeansStopped
<1>1. Init => UnattendedMeansStopped
  BY DEF Init, UnattendedMeansStopped
<1>2. TypeOK /\ UnattendedMeansStopped /\ [Next]_vars => UnattendedMeansStopped'
  BY UnattendedMeansStoppedKept DEF TypeOK
<1> QED
  BY <1>1, <1>2, TypeCorrect, PTL DEF Spec

\* Only SetMove sets an axis in motion.
LEMMA OnlySetMoveMoves ==
  ASSUME TypeOfWorld, [Next]_vars, NEW a \in Axes, mov'[a] \notin {mov[a], "STOP"}
  PROVE  \E w \in Workers, d \in Directions : SetMove(w, a, d)
<1> USE DEF TypeOfWorld, Axes, shared
<1>1. ~UNCHANGED vars
  BY DEF vars
<1>2. ~(EarlyConnect \/ AfterSetup \/ NetworkDown \/ ServoThread)
  BY DEF EarlyConnect, AfterSetup, NetworkDown, ServoThread
<1>3. ASSUME NEW w \in Workers PROVE ~StartSession(w) /\ ~RecvTimeout(w) /\ ~Worker(w)
  BY DEF StartSession, RecvTimeout, Worker, TryLock, LinkCheck, Reply, ResetX, ResetY,
         Unlock, StopX, StopY, Close
<1>4. PICK w \in Workers : Client(w)
  BY <1>1, <1>2, <1>3 DEF Next
<1>5. PICK b \in Axes, d \in Directions : SetMove(w, b, d)
  BY <1>4 DEF Client, RecvEof, RecvReset, AuthRight, AuthWrong, Query, Illegal, KeepOrSet,
              Reset, Drop
<1>6. a = b
  BY <1>5 DEF SetMove
<1> QED
  BY <1>5, <1>6

\* An axis is set in motion only by a session that proved its password and locked the mutex.
THEOREM MovesOnlyForProvedHolderHolds == Spec => MovesOnlyForProvedHolder
<1> DEFINE Moves ==
      \A a \in Axes : mov'[a] \notin {mov[a], "STOP"} =>
        \E w \in Workers : pc[w] = "recv" /\ pc'[w] = "reply" /\ proved[w] /\ holding[w]
<1>1. TypeOK /\ ControlInv /\ [Next]_vars => [Moves]_vars
  <2> SUFFICES ASSUME TypeOK, ControlInv, [Next]_vars, NEW a \in Axes,
                      mov'[a] \notin {mov[a], "STOP"}
               PROVE  \E w \in Workers : pc[w] = "recv" /\ pc'[w] = "reply" /\ proved[w]
                                         /\ holding[w]
    OBVIOUS
  <2>1. PICK w \in Workers, d \in Directions : SetMove(w, a, d)
    BY OnlySetMoveMoves DEF TypeOK
  <2>2. pc[w] = "recv" /\ pc'[w] = "reply"
    BY <2>1 DEF SetMove, Request, Goto, TypeOK, TypeOfControl
  <2>3. proved[w] /\ holding[w]
    BY <2>2 DEF ControlInv, HoldersControl, InControl
  <2> QED
    BY <2>2, <2>3
<1> QED
  BY <1>1, ControlInvariant, PTL DEF Spec, MovesOnlyForProvedHolder

(***************************************************************************)
(* The answers                                                             *)
(***************************************************************************)

\* What the invariant asks of one session.
SessionAnswers(w) ==
  /\ pc[w] \in {"trylock", "linkcheck"} => Len(sent[w]) = 1
  /\ pc[w] \in {"resetX", "resetY"} => sent[w] = << >>
  /\ pc[w] = "reply" => sent[w] \in {<< >>, <<"ERROR_ILLEGAL_INST">>}
  /\ pc[w] = "recv" => Answered(w)
  /\ pc[w] \in {"unlock", "stopX", "stopY", "close"} => ReasonTold(w)

\* One message after another.
LEMMA OneMessage == ASSUME NEW m PROVE Len(<<m>>) = 1 /\ <<m>>[1] = m /\ <<m>> # << >>
OBVIOUS

LEMMA MessageAdded ==
  ASSUME NEW s \in Seq(ServerMsgs), NEW m \in ServerMsgs
  PROVE  /\ Len(s) = 0 => Len(Append(s, m)) = 1
         /\ Len(s) = 1 => Len(Append(s, m)) = 2
         /\ Append(s, m) # << >>
         /\ Append(s, m)[Len(Append(s, m))] = m
         /\ Len(s) = 1 => Append(s, m)[1] = s[1]
<1>1. Len(s) \in Nat /\ Len(Append(s, m)) = Len(s) + 1
  OBVIOUS
<1>2. \A n \in Nat : (n = 0 => n + 1 = 1) /\ (n = 1 => n + 1 = 2)
  OBVIOUS
<1>3. /\ Len(s) = 0 => Len(Append(s, m)) = 1
      /\ Len(s) = 1 => Len(Append(s, m)) = 2
  BY <1>1, <1>2, Zenon
<1>4. Append(s, m) # << >> /\ Append(s, m)[Len(Append(s, m))] = m
  OBVIOUS
<1>5. Len(s) = 1 => Append(s, m)[1] = s[1]
  OBVIOUS
<1> QED
  BY <1>3, <1>4, <1>5

\* A step of one session leaves the others' control and answers alone.
LEMMA OthersAnswersKept ==
  ASSUME NEW w \in Workers, NEW v \in Workers, v # w, TypeOfControl, TypeOfAnswers,
         StartSession(w) \/ RecvTimeout(w) \/ Client(w) \/ Worker(w)
  PROVE  pc'[v] = pc[v] /\ sent'[v] = sent[v] /\ reason'[v] = reason[v]
<1> USE DEF TypeOfControl, TypeOfAnswers, Goto, Throw, Answer, AddReply
<1>1. CASE StartSession(w) \/ RecvTimeout(w)
  BY <1>1 DEF StartSession, RecvTimeout
<1>2. CASE Client(w)
  <2>1. CASE RecvEof(w) \/ RecvReset(w) \/ AuthRight(w) \/ AuthWrong(w)
    BY <2>1 DEF RecvEof, RecvReset, AuthRight, AuthWrong
  <2>2. CASE Query(w) \/ Illegal(w) \/ KeepOrSet(w) \/ Reset(w) \/ Drop(w)
    BY <2>2 DEF Query, Illegal, KeepOrSet, Reset, Drop
  <2>3. ASSUME NEW a \in Axes, NEW d \in Directions, SetMove(w, a, d)
        PROVE  pc'[v] = pc[v] /\ sent'[v] = sent[v] /\ reason'[v] = reason[v]
    BY <2>3 DEF SetMove
  <2> QED
    BY <1>2, <2>1, <2>2, <2>3 DEF Client
<1>3. CASE Worker(w)
  <2>1. CASE TryLock(w) \/ LinkCheck(w) \/ Reply(w)
    BY <2>1 DEF TryLock, LinkCheck, Reply
  <2>2. CASE ResetX(w) \/ ResetY(w)
    BY <2>2 DEF ResetX, ResetY
  <2>3. CASE Unlock(w) \/ StopX(w) \/ StopY(w) \/ Close(w)
    BY <2>3 DEF Unlock, StopX, StopY, Close
  <2> QED
    BY <1>3, <2>1, <2>2, <2>3 DEF Worker
<1> QED
  BY <1>1, <1>2, <1>3

\* The end of a session: a reason of the server's own comes with its message.
LEMMA ReceiveEndsTold ==
  ASSUME NEW w \in Workers, TypeOfControl, TypeOfAnswers,
         RecvTimeout(w) \/ RecvEof(w) \/ RecvReset(w) \/ Drop(w)
  PROVE  SessionAnswers(w)'
<1> USE OneMessage DEF TypeOfControl, TypeOfAnswers, Goto, Throw, Answer, SessionAnswers, ReasonTold
<1>1. CASE RecvTimeout(w)
  BY <1>1 DEF RecvTimeout
<1>2. CASE RecvEof(w)
  BY <1>2 DEF RecvEof
<1>3. CASE RecvReset(w)
  BY <1>3 DEF RecvReset
<1>4. CASE Drop(w)
  BY <1>4 DEF Drop
<1> QED
  BY <1>1, <1>2, <1>3, <1>4

\* Hello and the authentication.
LEMMA LoginAnswered ==
  ASSUME NEW w \in Workers, TypeOfControl, TypeOfAnswers, SessionAnswers(w),
         StartSession(w) \/ AuthRight(w) \/ AuthWrong(w)
  PROVE  SessionAnswers(w)'
<1> USE OneMessage DEF TypeOfControl, TypeOfAnswers, Goto, Throw, Answer, SessionAnswers, ReasonTold
<1>1. CASE StartSession(w)
  BY <1>1 DEF StartSession
<1>2. CASE AuthRight(w)
  BY <1>2 DEF AuthRight
<1>3. CASE AuthWrong(w)
  BY <1>3 DEF AuthWrong
<1> QED
  BY <1>1, <1>2, <1>3

\* The requests, up to the reading of the servo status.
LEMMA RequestsAnswered ==
  ASSUME NEW w \in Workers, TypeOfControl, TypeOfAnswers, SessionAnswers(w),
         \/ Query(w) \/ Illegal(w) \/ KeepOrSet(w) \/ Reset(w)
         \/ \E a \in Axes, d \in Directions : SetMove(w, a, d)
  PROVE  SessionAnswers(w)'
<1> USE OneMessage DEF TypeOfControl, TypeOfAnswers, Goto, Answer, SessionAnswers, Answered,
        Request
<1>1. CASE Query(w)
  BY <1>1 DEF Query
<1>2. CASE Illegal(w)
  BY <1>2 DEF Illegal
<1>3. CASE KeepOrSet(w) \/ Reset(w)
  BY <1>3 DEF KeepOrSet, Reset
<1>4. ASSUME NEW a \in Axes, NEW d \in Directions, SetMove(w, a, d) PROVE SessionAnswers(w)'
  BY <1>4 DEF SetMove
<1> QED
  BY <1>1, <1>2, <1>3, <1>4

\* What a worker adds on its own.
LEMMA WorkerAnswers ==
  ASSUME NEW w \in Workers, TypeOfControl, TypeOfAnswers, SessionAnswers(w), Worker(w)
  PROVE  SessionAnswers(w)'
<1> USE MessagesKnown DEF TypeOfControl, TypeOfAnswers, Goto, Throw, AddReply,
        SessionAnswers
<1>1. CASE TryLock(w)
  BY <1>1, MessageAdded DEF TryLock, ReasonTold
<1>2. CASE LinkCheck(w)
  BY <1>2, MessageAdded DEF LinkCheck, ReasonTold, Answered
<1>3. CASE Reply(w)
  <2>1. PICK m \in ServerMsgs : sent'[w] = Append(sent[w], m)
    BY <1>3 DEF Reply
  <2>2. sent[w] \in {<< >>, <<"ERROR_ILLEGAL_INST">>} /\ pc'[w] = "recv"
    BY <1>3 DEF Reply
  <2>3. \/ Len(sent[w]) = 0
        \/ Len(sent[w]) = 1 /\ sent[w][1] = "ERROR_ILLEGAL_INST"
    BY <2>2, OneMessage
  <2>4. \/ Len(sent'[w]) = 1
        \/ Len(sent'[w]) = 2 /\ sent'[w][1] = "ERROR_ILLEGAL_INST"
    BY <2>1, <2>3, MessageAdded
  <2> QED
    BY <2>2, <2>4, Zenon DEF Answered
<1>4. CASE ResetX(w)
  BY <1>4 DEF ResetX
<1>5. CASE ResetY(w)
  BY <1>5, MessageAdded DEF ResetY, Answered
<1>6. CASE Unlock(w) \/ StopX(w) \/ StopY(w)
  BY <1>6 DEF Unlock, StopX, StopY, ReasonTold
<1>7. CASE Close(w)
  BY <1>7 DEF Close
<1> QED
  BY <1>1, <1>2, <1>3, <1>4, <1>5, <1>6, <1>7 DEF Worker

LEMMA AnswersKept ==
  TypeOfControl /\ TypeOfAnswers /\ AnswersInv /\ [Next]_vars => AnswersInv'
<1> SUFFICES ASSUME TypeOfControl, TypeOfAnswers, AnswersInv, [Next]_vars,
                    NEW v \in Workers
             PROVE  SessionAnswers(v)'
  BY DEF AnswersInv, SessionAnswers
<1>1. SessionAnswers(v)
  BY DEF AnswersInv, SessionAnswers
<1>2. CASE pc'[v] = pc[v] /\ sent'[v] = sent[v] /\ reason'[v] = reason[v]
  BY <1>1, <1>2 DEF SessionAnswers, Answered, ReasonTold
<1>3. CASE UNCHANGED vars \/ EarlyConnect \/ AfterSetup \/ NetworkDown \/ ServoThread
  BY <1>2, <1>3 DEF vars, session, EarlyConnect, AfterSetup, NetworkDown, ServoThread
<1>4. ASSUME NEW w \in Workers, StartSession(w) \/ RecvTimeout(w) \/ Client(w) \/ Worker(w)
      PROVE  SessionAnswers(v)'
  <2>1. CASE v # w
    BY <1>2, <1>4, <2>1, OthersAnswersKept
  <2>2. CASE v = w
    BY <1>1, <1>4, <2>2, ReceiveEndsTold, LoginAnswered, RequestsAnswered, WorkerAnswers
       DEF Client
  <2> QED
    BY <2>1, <2>2
<1> QED
  BY <1>3, <1>4 DEF Next

LEMMA AnswersInvariant == Spec => []AnswersInv
<1>1. Init => AnswersInv
  BY DEF Init, AnswersInv
<1>2. TypeOK /\ AnswersInv /\ [Next]_vars => AnswersInv'
  BY AnswersKept DEF TypeOK
<1> QED
  BY <1>1, <1>2, TypeCorrect, PTL DEF Spec

\* A session never waits for the next request with the last one unanswered, nor with two
\* answers to it except a refusal followed by the closing reply.
THEOREM EveryRequestAnsweredHolds == Spec => []EveryRequestAnswered
<1>1. AnswersInv => EveryRequestAnswered
  BY DEF AnswersInv, EveryRequestAnswered
<1> QED
  BY <1>1, AnswersInvariant, PTL

\* However a session ends for a reason of the server's own, its client was told it.
THEOREM ClientToldWhyHolds == Spec => []ClientToldWhy
<1>1. AnswersInv => ClientToldWhy
  BY DEF AnswersInv, ClientToldWhy
<1> QED
  BY <1>1, AnswersInvariant, PTL
=============================================================================
