--------------------------- MODULE CamControlServer ---------------------------
(***************************************************************************)
(* The network session of the camera server: CamControlServer::innerAction *)
(* as it is run, concurrently, by the worker threads of the thread pool.   *)
(*                                                                         *)
(* A session says hello, authenticates its client (five attempts), tries   *)
(* to lock the serial port, serves five-byte requests until the client     *)
(* drops, vanishes or is silent for too long, and cleans up: it unlocks    *)
(* the port and stops both axes.  Every access to the shared state (the    *)
(* mutex, the movement of each axis, the servo status) is a step of its    *)
(* own, so sessions interleave as the threads do.                          *)
(*                                                                         *)
(* Clients are the environment: any client may send any request, or be     *)
(* silent, or close.  A reply is recorded by its kind; its payload (a      *)
(* position, a speed) is left out.                                         *)
(***************************************************************************)
EXTENDS Naturals, Sequences

CONSTANTS
  Workers,   \* the pool's worker threads; main() starts two
  Statuses,  \* the servo statuses a session tells apart: zero ("OK"), the SERVO_LINKDOWN
             \* bit ("LINKDOWN"), any other flag
  MaxEarly   \* bound: connections established before afterSetup() has run

ASSUME StatusesAssumption == {"OK", "LINKDOWN"} \subseteq Statuses
ASSUME MaxEarlyAssumption == MaxEarly \in Nat

Axes == {"X", "Y"}

\* What a movement field can hold: stop, either way of moving, or a byte that is neither.
Directions == {"STOP", "MOVE", "OTHER"}

ServerMsgs == {"HELLO_PASSWD_INDICATE", "ERROR_LOGIN", "ERROR_SERIAL_OPEN_FAIL",
               "ERROR_SERIAL_OCCUPY", "ERROR_TIMEOUT", "ERROR_ILLEGAL_INST",
               "WARNING_SERVO_UNSTABLE", "OK"}

Reasons == {"NONE", "ERROR_SERIAL_OPEN_FAIL", "ERROR_SERIAL_OCCUPY",
            "ERROR_TIMEOUT", "CONNECTION_LOST", "OK"}

VARIABLES
  pc,           \* where each worker is in innerAction
  tries,        \* the loop variable i of the authentication loop
  reason,       \* the reason carried by the InternalException thrown last
  sent,         \* kinds of the messages sent since the last receive returned
  errno,        \* each thread's errno: EAGAIN, or anything else
  timed,        \* whether the connection's socket has a receive timeout
  serialMutex,  \* TRUE while the mutex is locked; it records no owner
  mov,          \* movX and movY of the servo control block
  status,       \* errorflag of the servo control block
  armed,        \* afterSetup() has put the timeouts on the listening socket
  early,        \* waiting connections that were established before that
  quiet,        \* the network is gone: no byte, no close, no new connection
  proved,       \* history: this session has received the right digest
  holding,      \* history: this session locked the mutex and has not unlocked it
  stray         \* history: some session unlocked a mutex it had not locked

session == <<pc, tries, reason, sent, errno, timed, proved, holding>>
shared  == <<serialMutex, mov, status, stray>>
network == <<armed, early, quiet>>
vars    == <<session, shared, network>>

Points == {"idle", "auth", "trylock", "linkcheck", "recv", "resetX", "resetY",
           "reply", "unlock", "stopX", "stopY", "close"}

\* The type invariant, in parts.
TypeOfControl ==
  /\ pc \in [Workers -> Points]
  /\ tries \in [Workers -> 0..4]
  /\ reason \in [Workers -> Reasons]

TypeOfAnswers ==
  /\ sent \in [Workers -> Seq(ServerMsgs)]
  /\ errno \in [Workers -> {"EAGAIN", "OTHER"}]

TypeOfWorld ==
  /\ mov \in [Axes -> Directions]
  /\ status \in Statuses
  /\ early \in Nat

TypeOfSessionFlags ==
  /\ timed \in [Workers -> BOOLEAN]
  /\ proved \in [Workers -> BOOLEAN]
  /\ holding \in [Workers -> BOOLEAN]

TypeOfFlags ==
  /\ serialMutex \in BOOLEAN
  /\ armed \in BOOLEAN
  /\ quiet \in BOOLEAN
  /\ stray \in BOOLEAN

TypeOK ==
  TypeOfControl /\ TypeOfAnswers /\ TypeOfWorld /\ TypeOfSessionFlags /\ TypeOfFlags

Init ==
  /\ pc = [w \in Workers |-> "idle"]
  /\ tries = [w \in Workers |-> 0]
  /\ reason = [w \in Workers |-> "NONE"]
  /\ sent = [w \in Workers |-> << >>]
  /\ errno = [w \in Workers |-> "OTHER"]
  /\ timed = [w \in Workers |-> FALSE]
  /\ serialMutex = FALSE
  /\ mov = [a \in Axes |-> "STOP"]
  /\ status \in Statuses
  /\ armed = FALSE
  /\ early = 0
  /\ quiet = FALSE
  /\ proved = [w \in Workers |-> FALSE]
  /\ holding = [w \in Workers |-> FALSE]
  /\ stray = FALSE

(***************************************************************************)
(* Helpers                                                                 *)
(***************************************************************************)

Goto(w, point) == pc' = [pc EXCEPT ![w] = point]

\* sendMsg: the message goes out; a failing send, and the library calls made while
\* logging, may overwrite errno.  (A send that blocks until its own timeout, because the
\* client has stopped reading for thousands of replies, is left out.)  "Answer" opens the
\* answer to what was just received, "AddReply" continues it.
ErrnoMayChange(w) == \E e \in {errno[w], "OTHER"} : errno' = [errno EXCEPT ![w] = e]

Answer(w, msgs) == sent' = [sent EXCEPT ![w] = msgs] /\ ErrnoMayChange(w)

AddReply(w, msg) == sent' = [sent EXCEPT ![w] = Append(@, msg)] /\ ErrnoMayChange(w)

(***************************************************************************)
(* Seeded faults: variants of the definitions below (and of Throw) that a  *)
(* slip in the code would produce.  Nothing uses them; each is put in the  *)
(* place of the definition it varies to see a property catch it.           *)
(***************************************************************************)

\* The clean-up is skipped for a session that found the serial link down.
ThrowSkipsOpenFail(w, why) ==
  /\ reason' = [reason EXCEPT ![w] = why]
  /\ tries' = [tries EXCEPT ![w] = 0]
  /\ Goto(w, IF why \in {"ERROR_SERIAL_OCCUPY", "ERROR_SERIAL_OPEN_FAIL"}
             THEN "close" ELSE "unlock")

\* A thrown InternalException lands in the catch block, which skips the unlocking and
\* the stopping of the axes when, and only when, the port was found occupied.  The loop
\* variable is not used again.
Throw(w, why) ==
  /\ reason' = [reason EXCEPT ![w] = why]
  /\ tries' = [tries EXCEPT ![w] = 0]
  /\ Goto(w, IF why = "ERROR_SERIAL_OCCUPY" THEN "close" ELSE "unlock")

Receiving(w) == pc[w] \in {"auth", "recv"}

\* Seeded fault: accepted sockets do not get the listening socket's timeout.
StartSessionUntimed(w) ==
  /\ pc[w] = "idle" /\ armed /\ ~quiet
  /\ timed' = [timed EXCEPT ![w] = FALSE]
  /\ Answer(w, <<"HELLO_PASSWD_INDICATE">>)
  /\ tries' = [tries EXCEPT ![w] = 4]
  /\ Goto(w, "auth")
  /\ UNCHANGED <<reason, proved, holding, shared, network>>

\* Seeded fault: the attempts are counted down to -1 before giving up.
AuthWrongSixth(w) ==
  /\ ~quiet /\ pc[w] = "auth"
  /\ Answer(w, <<"ERROR_LOGIN">>)
  /\ IF tries[w] < 0 THEN Throw(w, "ERROR_TIMEOUT")
                      ELSE tries' = [tries EXCEPT ![w] = @ - 1] /\ UNCHANGED <<pc, reason>>
  /\ UNCHANGED <<timed, proved, holding, shared, network>>

\* Seeded fault: the test after the loop ("i < 0") is missing.
AuthWrongFallsThrough(w) ==
  /\ ~quiet /\ pc[w] = "auth"
  /\ Answer(w, <<"ERROR_LOGIN">>)
  /\ IF tries[w] > 0 THEN tries' = [tries EXCEPT ![w] = @ - 1] /\ UNCHANGED pc
                      ELSE Goto(w, "trylock") /\ UNCHANGED tries
  /\ UNCHANGED <<reason, timed, proved, holding, shared, network>>

\* Seeded fault: the result of pthread_mutex_trylock is not looked at.
TryLockIgnored(w) ==
  /\ pc[w] = "trylock"
  /\ serialMutex' = TRUE
  /\ holding' = [holding EXCEPT ![w] = TRUE]
  /\ Goto(w, "linkcheck")
  /\ UNCHANGED <<tries, reason, sent, errno, timed, proved, mov, status, stray, network>>

\* Seeded fault: an occupied port ends the session without a word.
TryLockSilent(w) ==
  /\ pc[w] = "trylock"
  /\ IF serialMutex
     THEN Throw(w, "ERROR_SERIAL_OCCUPY") /\ UNCHANGED <<serialMutex, holding>>
     ELSE /\ serialMutex' = TRUE
          /\ holding' = [holding EXCEPT ![w] = TRUE]
          /\ Goto(w, "linkcheck")
          /\ UNCHANGED <<tries, reason>>
  /\ UNCHANGED <<sent, errno, timed, proved, mov, status, stray, network>>

\* Seeded fault: a successful reset is not acknowledged.
ResetYSilent(w) ==
  /\ pc[w] = "resetY"
  /\ mov' = [mov EXCEPT !["Y"] = "STOP"]
  /\ Goto(w, "recv")
  /\ UNCHANGED <<tries, reason, sent, errno, timed, proved, holding, serialMutex,
                 status, stray, network>>

\* Seeded fault: the catch block stops the X axis twice.
StopYStopsX(w) ==
  /\ pc[w] = "stopY"
  /\ mov' = [mov EXCEPT !["X"] = "STOP"]
  /\ Goto(w, "close")
  /\ UNCHANGED <<tries, reason, sent, errno, timed, proved, holding, serialMutex,
                 status, stray, network>>

(***************************************************************************)
(* Connections                                                             *)
(***************************************************************************)

\* A client completes the handshake while the listening socket has no timeout yet:
\* listen() has been called, afterSetup() has not.
EarlyConnect ==
  /\ ~quiet /\ ~armed
  /\ early < MaxEarly
  /\ early' = early + 1
  /\ UNCHANGED <<session, shared, armed, quiet>>

AfterSetup ==
  /\ ~armed
  /\ armed' = TRUE
  /\ UNCHANGED <<session, shared, early, quiet>>

\* A worker takes a connection and says hello.  An accepted socket inherits the timeout
\* that the listening socket had when the connection was established.
StartSession(w) ==
  /\ pc[w] = "idle"
  /\ \/ /\ early > 0
        /\ early' = early - 1
        /\ timed' = [timed EXCEPT ![w] = FALSE]
     \/ /\ armed /\ ~quiet
        /\ timed' = [timed EXCEPT ![w] = TRUE]
        /\ UNCHANGED early
  /\ Answer(w, <<"HELLO_PASSWD_INDICATE">>)
  /\ tries' = [tries EXCEPT ![w] = 4]
  /\ Goto(w, "auth")
  /\ UNCHANGED <<reason, proved, holding, shared, armed, quiet>>

(***************************************************************************)
(* recvFix: the three ways a receive can fail                              *)
(***************************************************************************)

\* The socket's receive timeout expires: recv sets errno to EAGAIN.
RecvTimeout(w) ==
  /\ Receiving(w)
  /\ timed[w]
  /\ Throw(w, "ERROR_TIMEOUT")
  /\ sent' = [sent EXCEPT ![w] = <<"ERROR_TIMEOUT">>]
  /\ \E e \in {"EAGAIN", "OTHER"} : errno' = [errno EXCEPT ![w] = e]
  /\ UNCHANGED <<timed, proved, holding, shared, network>>

\* The client closes: recv returns 0 and leaves errno as some earlier call left it;
\* recvFix nevertheless decides by errno between "timeout" and "closed".
RecvEof(w) ==
  /\ ~quiet /\ Receiving(w)
  /\ \/ /\ errno[w] = "EAGAIN"
        /\ Answer(w, <<"ERROR_TIMEOUT">>)
        /\ Throw(w, "ERROR_TIMEOUT")
     \/ /\ errno[w] # "EAGAIN"
        /\ Throw(w, "CONNECTION_LOST")
        /\ sent' = [sent EXCEPT ![w] = << >>]
        /\ UNCHANGED errno
  /\ UNCHANGED <<timed, proved, holding, shared, network>>

\* The connection is reset: recv fails with an errno other than EAGAIN.
RecvReset(w) ==
  /\ ~quiet /\ Receiving(w)
  /\ errno' = [errno EXCEPT ![w] = "OTHER"]
  /\ Throw(w, "CONNECTION_LOST")
  /\ sent' = [sent EXCEPT ![w] = << >>]
  /\ UNCHANGED <<timed, proved, holding, shared, network>>

(***************************************************************************)
(* Authentication and the serial port's lock                               *)
(***************************************************************************)

\* The digest is right.
AuthRight(w) ==
  /\ ~quiet /\ pc[w] = "auth"
  /\ Answer(w, <<"OK">>)
  /\ tries' = [tries EXCEPT ![w] = 0]   \* not used again
  /\ proved' = [proved EXCEPT ![w] = TRUE]
  /\ Goto(w, "trylock")
  /\ UNCHANGED <<reason, timed, holding, shared, network>>

\* The digest is wrong: try again, or give up after the fifth attempt.
AuthWrong(w) ==
  /\ ~quiet /\ pc[w] = "auth"
  /\ Answer(w, <<"ERROR_LOGIN">>)
  /\ \/ /\ tries[w] > 0
        /\ tries' = [tries EXCEPT ![w] = @ - 1]
        /\ UNCHANGED <<pc, reason>>
     \/ /\ tries[w] = 0
        /\ Throw(w, "ERROR_TIMEOUT")
  /\ UNCHANGED <<timed, proved, holding, shared, network>>

TryLock(w) ==
  /\ pc[w] = "trylock"
  /\ \/ /\ serialMutex
        /\ AddReply(w, "ERROR_SERIAL_OCCUPY")
        /\ Throw(w, "ERROR_SERIAL_OCCUPY")
        /\ UNCHANGED <<serialMutex, holding>>
     \/ /\ ~serialMutex
        /\ serialMutex' = TRUE
        /\ holding' = [holding EXCEPT ![w] = TRUE]
        /\ Goto(w, "linkcheck")
        /\ UNCHANGED <<tries, reason, sent, errno>>
  /\ UNCHANGED <<timed, proved, mov, status, stray, network>>

LinkCheck(w) ==
  /\ pc[w] = "linkcheck"
  /\ \/ /\ status = "LINKDOWN"
        /\ AddReply(w, "ERROR_SERIAL_OPEN_FAIL")
        /\ Throw(w, "ERROR_SERIAL_OPEN_FAIL")
     \/ /\ status # "LINKDOWN"
        /\ Goto(w, "recv")
        /\ UNCHANGED <<tries, reason, sent, errno>>
  /\ UNCHANGED <<timed, proved, holding, shared, network>>

(***************************************************************************)
(* Requests                                                                *)
(***************************************************************************)

Request(w) == ~quiet /\ pc[w] = "recv"

\* A query, well formed or not; an unknown request; an unknown thing to set.
Query(w) ==
  /\ Request(w)
  /\ \E msg \in {"OK", "ERROR_ILLEGAL_INST"} : Answer(w, <<msg>>)
  /\ UNCHANGED <<pc, tries, reason, timed, proved, holding, shared, network>>

Illegal(w) ==
  /\ Request(w)
  /\ Answer(w, <<"ERROR_ILLEGAL_INST">>)
  /\ UNCHANGED <<pc, tries, reason, timed, proved, holding, shared, network>>

\* Keep-alive, or a new balance, position or speed (which this module does not keep):
\* the answer depends on the servo status read next.
KeepOrSet(w) ==
  /\ Request(w)
  /\ sent' = [sent EXCEPT ![w] = << >>]
  /\ Goto(w, "reply")
  /\ UNCHANGED <<tries, reason, errno, timed, proved, holding, shared, network>>

\* A direction that is none of the three is refused and then set all the same.
SetMove(w, a, d) ==
  /\ Request(w)
  /\ Answer(w, IF d = "OTHER" THEN <<"ERROR_ILLEGAL_INST">> ELSE << >>)
  /\ mov' = [mov EXCEPT ![a] = d]
  /\ Goto(w, "reply")
  /\ UNCHANGED <<tries, reason, timed, proved, holding, serialMutex, status, stray,
                 network>>

Reset(w) ==
  /\ Request(w)
  /\ sent' = [sent EXCEPT ![w] = << >>]
  /\ \E s \in {"OK", "LINKDOWN"} : status' = s   \* as the port opens again, or does not
  /\ Goto(w, "resetX")
  /\ UNCHANGED <<tries, reason, errno, timed, proved, holding, serialMutex, mov, stray,
                 network>>

ResetX(w) ==
  /\ pc[w] = "resetX"
  /\ mov' = [mov EXCEPT !["X"] = "STOP"]
  /\ Goto(w, "resetY")
  /\ UNCHANGED <<tries, reason, sent, errno, timed, proved, holding, serialMutex,
                 status, stray, network>>

ResetY(w) ==
  /\ pc[w] = "resetY"
  /\ mov' = [mov EXCEPT !["Y"] = "STOP"]
  /\ AddReply(w, "OK")
  /\ Goto(w, "recv")
  /\ UNCHANGED <<tries, reason, timed, proved, holding, serialMutex, status, stray,
                 network>>

Drop(w) ==
  /\ Request(w)
  /\ Answer(w, <<"OK">>)
  /\ Throw(w, "OK")
  /\ UNCHANGED <<timed, proved, holding, shared, network>>

\* The servo status is read after the request took effect, and decides the answer.
Reply(w) ==
  /\ pc[w] = "reply"
  /\ AddReply(w, IF status = "OK" THEN "OK" ELSE "WARNING_SERVO_UNSTABLE")
  /\ Goto(w, "recv")
  /\ UNCHANGED <<tries, reason, timed, proved, holding, shared, network>>

(***************************************************************************)
(* The catch block and the end of the session                              *)
(***************************************************************************)

\* Unlocking never fails, whoever holds the mutex, or nobody.
Unlock(w) ==
  /\ pc[w] = "unlock"
  /\ serialMutex' = FALSE
  /\ holding' = [holding EXCEPT ![w] = FALSE]
  /\ stray' = (stray \/ ~holding[w])
  /\ Goto(w, "stopX")
  /\ UNCHANGED <<tries, reason, sent, errno, timed, proved, mov, status, network>>

StopX(w) ==
  /\ pc[w] = "stopX"
  /\ mov' = [mov EXCEPT !["X"] = "STOP"]
  /\ Goto(w, "stopY")
  /\ UNCHANGED <<tries, reason, sent, errno, timed, proved, holding, serialMutex,
                 status, stray, network>>

StopY(w) ==
  /\ pc[w] = "stopY"
  /\ mov' = [mov EXCEPT !["Y"] = "STOP"]
  /\ Goto(w, "close")
  /\ UNCHANGED <<tries, reason, sent, errno, timed, proved, holding, serialMutex,
                 status, stray, network>>

\* The descriptor is shut down and innerAction returns to the pool; of the session's own
\* state only the thread's errno lives on.
Close(w) ==
  /\ pc[w] = "close"
  /\ Goto(w, "idle")
  /\ tries' = [tries EXCEPT ![w] = 0]
  /\ reason' = [reason EXCEPT ![w] = "NONE"]
  /\ sent' = [sent EXCEPT ![w] = << >>]
  /\ timed' = [timed EXCEPT ![w] = FALSE]
  /\ proved' = [proved EXCEPT ![w] = FALSE]
  /\ UNCHANGED <<errno, holding, shared, network>>

(***************************************************************************)
(* The rest of the world                                                   *)
(***************************************************************************)

\* The servo thread publishes any status, and stops an axis at the end of its travel or
\* both when it resets the port.  It never starts one.
ServoThread ==
  /\ status' \in Statuses
  /\ \E stopped \in SUBSET {a \in Axes : mov[a] # "STOP"} :
       mov' = [a \in Axes |-> IF a \in stopped THEN "STOP" ELSE mov[a]]
  /\ UNCHANGED <<session, serialMutex, stray, network>>

\* The clients vanish without a close: a cable is pulled, a route is lost.
NetworkDown ==
  /\ ~quiet
  /\ quiet' = TRUE
  /\ UNCHANGED <<session, shared, armed, early>>

Client(w) ==
  \/ RecvEof(w) \/ RecvReset(w)
  \/ AuthRight(w) \/ AuthWrong(w)
  \/ Query(w) \/ Illegal(w) \/ KeepOrSet(w) \/ Reset(w) \/ Drop(w)
  \/ \E a \in Axes, d \in Directions : SetMove(w, a, d)

\* What a worker does on its own, once scheduled.
Worker(w) ==
  \/ TryLock(w) \/ LinkCheck(w) \/ Reply(w) \/ ResetX(w) \/ ResetY(w)
  \/ Unlock(w) \/ StopX(w) \/ StopY(w) \/ Close(w)

Next ==
  \/ EarlyConnect \/ AfterSetup \/ NetworkDown \/ ServoThread
  \/ \E w \in Workers : StartSession(w) \/ RecvTimeout(w) \/ Client(w) \/ Worker(w)

Spec == Init /\ [][Next]_vars

\* The scheduler runs every runnable thread, and a receive that nothing else ends is ended
\* by the timeout set with setsockopt.  Nothing is assumed of the clients.
Fairness == \A w \in Workers : WF_vars(Worker(w) \/ RecvTimeout(w))

FairSpec == Spec /\ Fairness

(***************************************************************************)
(* Properties                                                              *)
(***************************************************************************)

InControl(w) == pc[w] \in {"linkcheck", "recv", "reply", "resetX", "resetY"}

\* Where a session may be while the axis it set in motion has not been stopped yet.
Attends(w, a) == \/ InControl(w)
                 \/ pc[w] \in {"unlock", "stopX"}
                 \/ a = "Y" /\ pc[w] = "stopY"

\* The camera does not move on its own: while an axis moves there is a session that is
\* in control, or is about to stop the axis (catch block, CamControlserver.cpp:231-235).
UnattendedMeansStopped ==
  \A a \in Axes : mov[a] # "STOP" => \E w \in Workers : Attends(w, a)

\* No session ends with the serial port locked: a locked mutex has an owner that is in
\* control or about to unlock it, however the session fails.
NoOrphanLock ==
  serialMutex => \E w \in Workers : holding[w] /\ (InControl(w) \/ pc[w] = "unlock")

\* As long as no session has unlocked a mutex it did not lock, at most one session is in
\* control of the camera, and it owns the mutex.
ExclusiveUnlessStray ==
  ~stray => \A v, w \in Workers :
              InControl(v) => serialMutex /\ (InControl(w) => v = w)

Answered(w) ==
  \/ Len(sent[w]) = 1
  \/ Len(sent[w]) = 2 /\ sent[w][1] = "ERROR_ILLEGAL_INST"

\* When the next request is awaited, the last one has been answered: by one message, or
\* by two the first of which refused it.
EveryRequestAnswered ==
  \A w \in Workers : pc[w] = "recv" => Answered(w)

\* The last message gave the reason, if it is one of the server's own (a fifth wrong digest
\* is an ERROR_LOGIN to the client, a timeout in the log).
ReasonTold(w) ==
  reason[w] \in {"ERROR_SERIAL_OPEN_FAIL", "ERROR_SERIAL_OCCUPY", "ERROR_TIMEOUT"} =>
    /\ sent[w] # << >>
    /\ \/ sent[w][Len(sent[w])] = reason[w]
       \/ reason[w] = "ERROR_TIMEOUT" /\ sent[w][Len(sent[w])] = "ERROR_LOGIN"

\* A client whose session ends for a reason of the server's own has been told the reason.
ClientToldWhy ==
  \A w \in Workers : pc[w] \in {"unlock", "close"} => ReasonTold(w)

\* An axis is set in motion only by a session that has proved its password and locked the
\* mutex itself: no path through innerAction reaches setmove without both.
MovesOnlyForProvedHolder ==
  [][\A a \in Axes : mov'[a] \notin {mov[a], "STOP"} =>
       \E w \in Workers : pc[w] = "recv" /\ pc'[w] = "reply" /\ proved[w] /\ holding[w]]_vars

\* When the network goes away the camera ends up stopped and the port unlocked, for good:
\* the receive timeouts end every session (CamControlServer::afterSetup).
LinkLossStopsCamera ==
  <>[](quiet => (\A a \in Axes : mov[a] = "STOP") /\ ~serialMutex)

(***************************************************************************)
(* The inductive invariant behind the safety properties                    *)
(***************************************************************************)

\* Only sessions that proved their password and locked the mutex are in control, and a
\* session that locked it is in control until it unlocks it.
HoldersControl ==
  \A w \in Workers :
    /\ InControl(w) => holding[w] /\ proved[w]
    /\ pc[w] = "trylock" => proved[w]
    /\ holding[w] => InControl(w) \/ pc[w] = "unlock"

LockedByHolder == serialMutex => \E w \in Workers : holding[w]

\* A stray unlock is what breaks the converse.
HolderLocked == stray \/ \A w \in Workers : holding[w] => serialMutex
OneHolder == stray \/ \A v, w \in Workers : holding[v] /\ holding[w] => v = w

ControlInv == HoldersControl /\ LockedByHolder /\ HolderLocked /\ OneHolder

\* What a session has sent since its last receive, point by point: nothing while it resets
\* the axes, a refusal at most before the closing reply, the reason once it has thrown.
AnswersInv ==
  \A w \in Workers :
    /\ pc[w] \in {"trylock", "linkcheck"} => Len(sent[w]) = 1
    /\ pc[w] \in {"resetX", "resetY"} => sent[w] = << >>
    /\ pc[w] = "reply" => sent[w] \in {<< >>, <<"ERROR_ILLEGAL_INST">>}
    /\ pc[w] = "recv" => Answered(w)
    /\ pc[w] \in {"unlock", "stopX", "stopY", "close"} => ReasonTold(w)

(***************************************************************************)
(* What the code does not keep                                             *)
(***************************************************************************)

\* Refuted.  "Serial port is locked by other user" (CamControlserver.h:15): a second
\* client is refused while a first one is in control.
ExclusiveControl ==
  \A v, w \in Workers : InControl(v) /\ InControl(w) => v = w
=============================================================================
