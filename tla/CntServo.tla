------------------------------- MODULE CntServo -------------------------------
(***************************************************************************)
(* The servo control of the server: CntServoControl, whose thread sends    *)
(* the position of each axis to the servo board again and again, and whose *)
(* setters and reset() are called by a session thread meanwhile.  Nothing  *)
(* guards the fields they share.                                           *)
(*                                                                         *)
(* The thread is started disabled and woken by enable() (thread_enabler).  *)
(* A field is read and written in one step, but the test of a bound and    *)
(* the assignment it guards are two, as are the two assignments by which   *)
(* errorflag keeps a bad link on record.  What sendPos returns is any      *)
(* result; ServoLink models how it comes about.                            *)
(***************************************************************************)
EXTENDS Integers

CONSTANTS
  Threshold,   \* COMM_BADCOMM_THRESHOLD, 100 in the code
  LinkResults, \* what sendPos may return, as sets of flags
  ClientAxes,  \* bound: the axes the session's calls name
  Mids,        \* bound: the balances it sets
  Speeds,      \* bound: the speeds it sets
  Positions,   \* bound: the positions it sets
  Moves        \* bound: the directions it sets

Axes == {"X", "Y"}
Flags == {"FAIL", "OFFLINE", "BADLINK", "LINKDOWN"}
Directions == {"STOP", "POSE", "NEGA", "OTHER"}

Max == 200     \* SERVO_X_MAX, SERVO_Y_MAX
Min == 0       \* SERVO_X_MIN, SERVO_Y_MIN
Blance == 89   \* ConfigManager::getServoBlanceX and Y: the setters of the balance keep nothing

\* A session takes the values it sets from its receive buffer, char buffer[32], and char is
\* signed where the server is built for (x86 and MIPS): a byte above 127 is a negative number.
Char == -128..127

ASSUME ThresholdAssumption == Threshold \in Nat
ASSUME LinkAssumption == LinkResults \subseteq {{}} \cup {{f} : f \in Flags}
ASSUME ClientAssumption ==
  /\ ClientAxes \subseteq Axes /\ Moves \subseteq Directions
  /\ Mids \subseteq Char /\ Speeds \subseteq Char /\ Positions \subseteq Char

VARIABLES
  mid, pos, spd, mov,  \* midX, midY, ... of the control block, by axis
  errorflag,           \* the status, as a set of flags; {} is SERVO_OK
  portOpen,            \* the serial port could be opened when it was last tried
  isenable,            \* of the thread enabler
  boot,                \* the constructing thread: "disabled", "broadcast", "done"
  wpc,                 \* where the servo thread is in workroutine
  axis,                \* the axis it is busy with
  curFlag,             \* its local variable cur_flag
  badlinkCnt,          \* its local variable badlink_cnt
  spc,                 \* the session thread: "idle", or within reset()
  sent,                \* history: the byte given to sendPos last for each axis
  dirty,               \* history: in this turn of the loop a sendPos failed or a bad link stayed
                       \* on record, and no session's reset() has set errorflag since
  chosen,              \* history: the direction workroutine found when it chose what to send
  raced                \* history: a call changed the axis between that choice and the sending

fields  == <<mid, pos, spd, mov>>
thread  == <<wpc, axis, curFlag, badlinkCnt>>
starter == <<isenable, boot>>
link    == <<sent, dirty>>
traces  == <<chosen, raced>>
vars    == <<fields, errorflag, portOpen, starter, thread, spc, link, traces>>

ThreadPoints == {"test", "towait", "blocked", "choose", "pose", "nega", "centre", "halt",
                 "send", "judge", "restore", "reopen", "opening", "resetX", "resetY", "flag", "sleep"}

TypeOK ==
  /\ mid \in [Axes -> Int] /\ pos \in [Axes -> Int] /\ spd \in [Axes -> Int]
  /\ mov \in [Axes -> Directions]
  /\ errorflag \subseteq Flags /\ curFlag \subseteq Flags
  /\ portOpen \in BOOLEAN /\ isenable \in BOOLEAN
  /\ raced \in BOOLEAN /\ dirty \in BOOLEAN
  /\ boot \in {"disabled", "broadcast", "done"}
  /\ wpc \in ThreadPoints /\ axis \in Axes
  /\ badlinkCnt \in 0..Threshold
  /\ spc \in {"idle", "opening", "resetX", "resetY"}
  /\ sent \in [Axes -> 0..255]
  /\ chosen \in Directions

Init ==
  /\ mid = [a \in Axes |-> Blance]
  /\ pos = [a \in Axes |-> Blance]
  /\ spd = [a \in Axes |-> 0]
  /\ mov = [a \in Axes |-> "STOP"]
  /\ errorflag = {}
  /\ portOpen \in BOOLEAN
  /\ isenable = FALSE
  /\ boot = "disabled"
  /\ wpc = "test"
  /\ axis = "X"
  /\ curFlag = {}
  /\ badlinkCnt = 0
  /\ spc = "idle"
  /\ sent = [a \in Axes |-> Blance]
  /\ dirty = FALSE
  /\ chosen = "STOP"
  /\ raced = FALSE

(***************************************************************************)
(* The rule for the next position                                          *)
(***************************************************************************)

\* Seeded fault: the limit itself is allowed.
MayNegaInclusive(a) == mid[a] - spd[a] >= Min

MayPose(a) == mid[a] + spd[a] < Max
MayNega(a) == mid[a] - spd[a] > Min

(***************************************************************************)
(* thread_enabler                                                          *)
(***************************************************************************)

EnablerTest ==
  /\ wpc = "test"
  /\ wpc' = IF isenable THEN "choose" ELSE "towait"
  /\ axis' = "X"
  /\ UNCHANGED <<fields, errorflag, portOpen, starter, curFlag, badlinkCnt, spc, link, traces>>

\* pthread_cond_wait: the flag is not looked at again.
CondWait ==
  /\ wpc = "towait"
  /\ wpc' = "blocked"
  /\ UNCHANGED <<fields, errorflag, portOpen, starter, axis, curFlag, badlinkCnt, spc, link, traces>>

Enable ==
  /\ boot = "disabled"
  /\ isenable' = TRUE
  /\ boot' = "broadcast"
  /\ UNCHANGED <<fields, errorflag, portOpen, thread, spc, link, traces>>

Broadcast ==
  /\ boot = "broadcast"
  /\ boot' = "done"
  /\ wpc' = IF wpc = "blocked" THEN "choose" ELSE wpc
  /\ UNCHANGED <<fields, errorflag, portOpen, isenable, axis, curFlag, badlinkCnt, spc, link, traces>>

(***************************************************************************)
(* The servo thread: workroutine                                           *)
(***************************************************************************)

Choose ==
  /\ wpc = "choose"
  /\ wpc' = CASE mov[axis] = "POSE" -> (IF MayPose(axis) THEN "pose" ELSE "halt")
              [] mov[axis] = "NEGA" -> (IF MayNega(axis) THEN "nega" ELSE "halt")
              [] OTHER              -> "centre"
  /\ chosen' = mov[axis]
  /\ raced' = FALSE
  /\ UNCHANGED <<fields, errorflag, portOpen, starter, axis, curFlag, badlinkCnt, spc, link>>

Move(position) ==
  /\ pos' = [pos EXCEPT ![axis] = position]
  /\ wpc' = "send"
  /\ UNCHANGED <<mid, spd, mov, errorflag, portOpen, starter, axis, curFlag, badlinkCnt, spc,
                 link, traces>>

Pose == wpc = "pose" /\ Move(mid[axis] + spd[axis])
Nega == wpc = "nega" /\ Move(mid[axis] - spd[axis])

\* Seeded fault: an axis at rest stays where it is.
CentreKeeps == wpc = "centre" /\ Move(pos[axis])

Centre == wpc = "centre" /\ Move(mid[axis])

Halt ==
  /\ wpc = "halt"
  /\ mov' = [mov EXCEPT ![axis] = "STOP"]
  /\ wpc' = "send"
  /\ UNCHANGED <<mid, pos, spd, errorflag, portOpen, starter, axis, curFlag, badlinkCnt, spc,
                 link, traces>>

\* Seeded fault: the flag of the second axis replaces the flag of the first.
SendForgetsX(result) ==
  /\ wpc = "send"
  /\ portOpen \/ result = {"LINKDOWN"}
  /\ sent' = [sent EXCEPT ![axis] = pos[axis] % 256]
  /\ dirty' = (dirty \/ result # {})
  /\ curFlag' = result
  /\ wpc' = "judge"
  /\ chosen' = "STOP"
  /\ raced' = FALSE
  /\ UNCHANGED <<fields, errorflag, portOpen, starter, axis, badlinkCnt, spc>>

\* sendPos: the position goes out as a byte; a port that is not open cannot be written to.
Send(result) ==
  /\ wpc = "send"
  /\ portOpen \/ result = {"LINKDOWN"}
  /\ sent' = [sent EXCEPT ![axis] = pos[axis] % 256]
  /\ dirty' = (dirty \/ result # {})
  /\ curFlag' = IF axis = "X" THEN result ELSE curFlag \cup result
  /\ wpc' = "judge"
  /\ chosen' = "STOP"
  /\ raced' = FALSE
  /\ UNCHANGED <<fields, errorflag, portOpen, starter, axis, badlinkCnt, spc>>

\* On to the other axis, or to sleep.
Proceed ==
  /\ wpc' = IF axis = "X" THEN "choose" ELSE "sleep"
  /\ axis' = "Y"

\* Seeded fault: the count is lowered below zero.
OnRecordAlways == badlinkCnt >= 0

OnRecord == badlinkCnt > 0

\* Seeded fault: a link that is down is recorded like any other failure.
JudgeWithoutReopening ==
  /\ wpc = "judge"
  /\ \/ /\ curFlag = {}
        /\ errorflag' = {}
        /\ IF OnRecord THEN wpc' = "restore" /\ UNCHANGED axis ELSE Proceed
        /\ UNCHANGED badlinkCnt
     \/ /\ curFlag # {}
        /\ errorflag' = errorflag \cup curFlag
        /\ badlinkCnt' = IF curFlag = {"BADLINK"} THEN Threshold ELSE badlinkCnt
        /\ Proceed
  /\ UNCHANGED <<fields, portOpen, starter, curFlag, spc, link, traces>>

Judge ==
  /\ wpc = "judge"
  /\ \/ /\ curFlag = {}
        /\ errorflag' = {}
        /\ IF OnRecord THEN wpc' = "restore" /\ UNCHANGED axis ELSE Proceed
        /\ UNCHANGED badlinkCnt
     \/ /\ curFlag = {"BADLINK"}
        /\ errorflag' = errorflag \cup {"BADLINK"}
        /\ badlinkCnt' = Threshold
        /\ Proceed
     \/ /\ curFlag = {"LINKDOWN"}
        /\ wpc' = "reopen"
        /\ UNCHANGED <<errorflag, badlinkCnt, axis>>
     \/ /\ curFlag \notin {{}, {"BADLINK"}, {"LINKDOWN"}}
        /\ errorflag' = errorflag \cup curFlag
        /\ Proceed
        /\ UNCHANGED badlinkCnt
  /\ UNCHANGED <<fields, portOpen, starter, curFlag, spc, link, traces>>

\* A bad link stays on record for the next Threshold good transmissions.
Restore ==
  /\ wpc = "restore"
  /\ badlinkCnt' = badlinkCnt - 1
  /\ errorflag' = errorflag \cup {"BADLINK"}
  /\ dirty' = (dirty \/ badlinkCnt' > 0)
  /\ Proceed
  /\ UNCHANGED <<fields, portOpen, starter, curFlag, spc, sent, traces>>

\* The flag is added after a reset that has just cleared it.
Flag ==
  /\ wpc = "flag"
  /\ errorflag' = errorflag \cup curFlag
  /\ Proceed
  /\ UNCHANGED <<fields, portOpen, starter, curFlag, badlinkCnt, spc, link, traces>>

Sleep ==
  /\ wpc = "sleep"
  /\ wpc' = "test"
  /\ dirty' = FALSE
  /\ UNCHANGED <<fields, errorflag, portOpen, starter, axis, curFlag, badlinkCnt, spc, sent,
                 chosen, raced>>

(***************************************************************************)
(* reset(), as called by the servo thread and by a session                 *)
(***************************************************************************)

Close == portOpen' = FALSE

\* openport: nothing to do if the other caller of reset() has opened the port meanwhile.
Open ==
  \E result \in {"OK", "OPEN_FAIL", "SET_FAIL"} :
    /\ portOpen => result = "OK"
    /\ portOpen' = (result # "OPEN_FAIL")
    /\ errorflag' = IF result = "OK" THEN {} ELSE {"LINKDOWN"}

ResetAxis(a) ==
  /\ mid' = [mid EXCEPT ![a] = Blance]
  /\ pos' = [pos EXCEPT ![a] = Blance]
  /\ spd' = [spd EXCEPT ![a] = 0]
  /\ mov' = [mov EXCEPT ![a] = "STOP"]

ThreadClose ==
  /\ wpc = "reopen"
  /\ Close
  /\ wpc' = "opening"
  /\ UNCHANGED <<fields, errorflag, starter, axis, curFlag, badlinkCnt, spc, link, traces>>

ThreadOpen ==
  /\ wpc = "opening"
  /\ Open
  /\ wpc' = "resetX"
  /\ UNCHANGED <<fields, starter, axis, curFlag, badlinkCnt, spc, link, traces>>

ThreadResetX ==
  /\ wpc = "resetX"
  /\ ResetAxis("X")
  /\ wpc' = "resetY"
  /\ UNCHANGED <<errorflag, portOpen, starter, axis, curFlag, badlinkCnt, spc, link, traces>>

ThreadResetY ==
  /\ wpc = "resetY"
  /\ ResetAxis("Y")
  /\ wpc' = "flag"
  /\ UNCHANGED <<errorflag, portOpen, starter, axis, curFlag, badlinkCnt, spc, link, traces>>

\* Whether a change of axis a now falls between the choice and the sending.
Races(a) == raced' = (raced \/ (axis = a /\ wpc \in {"pose", "nega", "centre", "halt", "send"}))

SessionReset ==
  /\ spc = "idle"
  /\ Close
  /\ spc' = "opening"
  /\ UNCHANGED <<fields, errorflag, starter, thread, link, traces>>

SessionOpen ==
  /\ spc = "opening"
  /\ Open
  /\ dirty' = FALSE
  /\ spc' = "resetX"
  /\ UNCHANGED <<fields, starter, thread, sent, traces>>

SessionResetX ==
  /\ spc = "resetX"
  /\ ResetAxis("X")
  /\ Races("X")
  /\ spc' = "resetY"
  /\ UNCHANGED <<errorflag, portOpen, starter, thread, link, chosen>>

SessionResetY ==
  /\ spc = "resetY"
  /\ ResetAxis("Y")
  /\ Races("Y")
  /\ spc' = "idle"
  /\ UNCHANGED <<errorflag, portOpen, starter, thread, link, chosen>>

(***************************************************************************)
(* The session's other calls                                               *)
(***************************************************************************)

Call(a) ==
  /\ spc = "idle"
  /\ Races(a)
  /\ UNCHANGED <<errorflag, portOpen, starter, thread, spc, link, chosen>>

setmove(a, direction) ==
  /\ Call(a)
  /\ mov' = [mov EXCEPT ![a] = direction]
  /\ UNCHANGED <<mid, pos, spd>>

setspeed(a, speed) ==
  /\ Call(a)
  /\ spd' = [spd EXCEPT ![a] = speed]
  /\ UNCHANGED <<mid, pos, mov>>

setpos(a, val) ==
  /\ Call(a)
  /\ pos' = [pos EXCEPT ![a] = val]
  /\ UNCHANGED <<mid, spd, mov>>

changeblance(a, newblance) ==
  /\ Call(a)
  /\ mid' = [mid EXCEPT ![a] = newblance]
  /\ UNCHANGED <<pos, spd, mov>>

Thread ==
  \/ EnablerTest \/ CondWait \/ Choose \/ Pose \/ Nega \/ Centre \/ Halt
  \/ Judge \/ Restore \/ Flag \/ Sleep
  \/ ThreadClose \/ ThreadOpen \/ ThreadResetX \/ ThreadResetY
  \/ \E result \in LinkResults \cup {{"LINKDOWN"}} : Send(result)

Starter == Enable \/ Broadcast

Session ==
  \/ SessionReset \/ SessionOpen \/ SessionResetX \/ SessionResetY
  \/ \E a \in ClientAxes :
       \/ \E d \in Moves : setmove(a, d)
       \/ \E v \in Speeds : setspeed(a, v)
       \/ \E v \in Positions : setpos(a, v)
       \/ \E v \in Mids : changeblance(a, v)

Next == Thread \/ Starter \/ Session

Spec == Init /\ [][Next]_vars

\* The two server threads run; the session need not call anything, but it finishes reset().
FairSpec ==
  /\ Spec
  /\ WF_vars(Thread) /\ WF_vars(Starter)
  /\ WF_vars(SessionOpen \/ SessionResetX \/ SessionResetY)

(***************************************************************************)
(* Properties                                                              *)
(***************************************************************************)

\* A session that reads the status finds it clean after a failure of this turn, or with a bad
\* link on record, only while the thread has not recorded the failure yet or is between clearing
\* the status and putting the bad link back; or another session has reset it.  The failure of X
\* must survive the success of Y (cur_flag |=, CntServoControl.cpp:74).
StatusHonest ==
  errorflag = {} /\ dirty =>
    wpc \in {"judge", "restore", "reopen", "opening", "resetX", "resetY", "flag"}

\* Each way of moving keeps the bound it is tested for, and an axis whose balance is within its
\* travel and whose speed is not negative stays strictly within it, unless a call changed the
\* axis between the test of the bound and the assignment or the sending (workroutine).
InRangeUnlessRaced ==
  wpc = "send" /\ chosen \in {"POSE", "NEGA"} /\ ~raced /\ mov[axis] = chosen =>
    /\ chosen = "POSE" => pos[axis] < Max
    /\ chosen = "NEGA" => Min < pos[axis]
    /\ spd[axis] >= 0 /\ Min < mid[axis] /\ mid[axis] < Max =>
         Min < pos[axis] /\ pos[axis] < Max

Asleep == wpc = "blocked" /\ boot = "done"

\* If the session's calls change nothing any more, each stopped axis is sent, and goes on being
\* sent, to its balance, unless the thread has slept through enable().
StoppedAxisIsCentred ==
  []<><<Session>>_vars
  \/ <>[](Asleep \/ \A a \in Axes : mov[a] \in {"STOP", "OTHER"} => sent[a] = mid[a] % 256)

\* The position of axis a goes out while the port is open.
SentTo(a) == wpc = "send" /\ axis = a /\ portOpen /\ wpc' = "judge"
OpenFails == (ThreadOpen \/ SessionOpen) /\ ~portOpen'

\* If from some time on no session resets the control and no opening of the port fails, then
\* both axes, and not only one of them, are sent to over an open port again and again, whatever
\* has been recorded of the link meanwhile.  The failure of Y alone does not reopen a port when X
\* has left another flag in cur_flag; the next turn's X does (CntServoControl.cpp:50, 74, 88).
\* The thread that slept through enable() is excepted.
AxesAreServed ==
  \/ <>[]Asleep
  \/ []<><<SessionReset>>_vars
  \/ []<><<OpenFails>>_vars
  \/ \A a \in Axes : []<><<SentTo(a)>>_vars

(***************************************************************************)
(* The inductive invariants behind the safety properties                   *)
(***************************************************************************)

BeforeSending == {"choose", "pose", "nega", "centre", "halt", "send"}

\* What the thread's place in its turn says of the failures of this turn.  At the second axis,
\* a failure that the flag no longer carries is a bad link that is still on record.
TurnInv ==
  /\ wpc \in {"test", "towait", "blocked"} => ~dirty
  /\ axis = "X" /\ wpc \in BeforeSending \cup {"restore"} => ~dirty
  /\ axis = "X" /\ wpc = "judge" /\ dirty => curFlag # {}
  /\ axis = "Y" /\ wpc \in BeforeSending \cup {"judge"} /\ dirty => curFlag # {} \/ badlinkCnt > 0
  /\ wpc = "restore" => badlinkCnt > 0
  /\ wpc \in {"reopen", "opening", "resetX", "resetY", "flag"} => curFlag # {}

\* What the bound's test has found still holds when the position is assigned.
ChoiceInv ==
  ~raced =>
    /\ wpc = "pose" => chosen = "POSE" /\ MayPose(axis)
    /\ wpc = "nega" => chosen = "NEGA" /\ MayNega(axis)
    /\ wpc = "centre" => chosen \notin {"POSE", "NEGA"}
=============================================================================
