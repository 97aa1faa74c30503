--------------------------- MODULE CntServoProofs ---------------------------
(***************************************************************************)
(* Proofs about CntServo, for any threshold, any results of sendPos and    *)
(* any bytes that a client may set.                                        *)
(***************************************************************************)
EXTENDS CntServo, TLAPS

LEMMA Bytes == \A n \in Int : n % 256 \in 0..255
OBVIOUS

\* A step is one of these; the lemmas below go through them.
ThreadAlone ==
  EnablerTest \/ CondWait \/ Choose \/ Pose \/ Nega \/ Centre \/ Halt

ThreadAfter ==
  \/ Judge \/ Restore \/ Flag \/ Sleep \/ ThreadClose \/ ThreadOpen \/ ThreadResetX \/ ThreadResetY

SessionCall ==
  \E a \in Axes :
    \/ \E d \in Directions : setmove(a, d)
    \/ \E v \in Char : setspeed(a, v) \/ setpos(a, v) \/ changeblance(a, v)

LEMMA Steps ==
  ASSUME [Next]_vars
  PROVE  \/ UNCHANGED vars
         \/ ThreadAlone \/ ThreadAfter \/ Starter
         \/ \E result \in SUBSET Flags : Send(result)
         \/ SessionReset \/ SessionOpen \/ SessionResetX \/ SessionResetY \/ SessionCall
<1>1. LinkResults \cup {{"LINKDOWN"}} \subseteq SUBSET Flags
  BY LinkAssumption DEF Flags
<1>2. Session => SessionReset \/ SessionOpen \/ SessionResetX \/ SessionResetY \/ SessionCall
  BY ClientAssumption DEF Session, SessionCall
<1> QED
  BY <1>1, <1>2 DEF Next, Thread, ThreadAlone, ThreadAfter

(***************************************************************************)
(* The types                                                               *)
(***************************************************************************)

\* The control block's fields hold integers and directions.
FieldsTyped ==
  /\ mid \in [Axes -> Int] /\ pos \in [Axes -> Int] /\ spd \in [Axes -> Int]
  /\ mov \in [Axes -> Directions]
  /\ sent \in [Axes -> 0..255]
  /\ axis \in Axes

LEMMA FieldsTypedKept == FieldsTyped /\ [Next]_vars => FieldsTyped'
<1> SUFFICES ASSUME FieldsTyped, [Next]_vars PROVE FieldsTyped'
  OBVIOUS
<1> USE DEF FieldsTyped, fields, starter, thread, link, traces, Axes, Directions, Blance
<1>1. CASE UNCHANGED vars
  BY <1>1 DEF vars
<1>2. CASE ThreadAlone
  BY <1>2 DEF ThreadAlone, EnablerTest, CondWait, Choose, Pose, Nega, Centre, Halt, Move
<1>3. CASE ThreadAfter
  BY <1>3 DEF ThreadAfter, Judge, Restore, Flag, Sleep, ThreadClose, ThreadOpen, ThreadResetX,
              ThreadResetY, Proceed, ResetAxis
<1>4. CASE Starter
  BY <1>4 DEF Starter, Enable, Broadcast
<1>5. ASSUME NEW result \in SUBSET Flags, Send(result) PROVE FieldsTyped'
  <2>1. pos[axis] % 256 \in 0..255
    BY Bytes
  <2> QED
    BY <1>5, <2>1 DEF Send
<1>6. CASE SessionReset \/ SessionOpen
  BY <1>6 DEF SessionReset, SessionOpen
<1>7. CASE SessionResetX \/ SessionResetY
  BY <1>7 DEF SessionResetX, SessionResetY, ResetAxis
<1>8. CASE SessionCall
  BY <1>8 DEF SessionCall, Call, setmove, setspeed, setpos, changeblance, Char
<1> QED
  BY <1>1, <1>2, <1>3, <1>4, <1>5, <1>6, <1>7, <1>8, Steps

ControlTyped ==
  /\ errorflag \subseteq Flags /\ curFlag \subseteq Flags
  /\ portOpen \in BOOLEAN /\ isenable \in BOOLEAN
  /\ raced \in BOOLEAN /\ dirty \in BOOLEAN
  /\ boot \in {"disabled", "broadcast", "done"}
  /\ wpc \in ThreadPoints
  /\ badlinkCnt \in 0..Threshold
  /\ wpc = "restore" => badlinkCnt > 0
  /\ spc \in {"idle", "opening", "resetX", "resetY"}
  /\ chosen \in Directions

LEMMA ControlTypedKept == FieldsTyped /\ ControlTyped /\ [Next]_vars => ControlTyped'
<1> SUFFICES ASSUME FieldsTyped, ControlTyped, [Next]_vars PROVE ControlTyped'
  OBVIOUS
<1> USE ThresholdAssumption DEF ControlTyped, ThreadPoints, fields, starter, thread, link, traces
<1>1. CASE UNCHANGED vars
  BY <1>1 DEF vars
<1>2. CASE ThreadAlone
  <2>1. CASE Choose
    BY <2>1 DEF Choose, FieldsTyped
  <2> QED
    BY <1>2, <2>1 DEF ThreadAlone, EnablerTest, CondWait, Pose, Nega, Centre, Halt, Move
<1>3. CASE ThreadAfter
  <2>1. CASE Judge
    <3>1. wpc' \in ThreadPoints /\ (wpc' = "restore" => badlinkCnt' > 0)
      BY <2>1 DEF Judge, Proceed, OnRecord
    <3>2. errorflag' \subseteq Flags
      BY <2>1 DEF Judge, Flags
    <3>3. badlinkCnt' \in 0..Threshold
      BY <2>1 DEF Judge
    <3> QED
      BY <2>1, <3>1, <3>2, <3>3 DEF Judge
  <2>2. CASE Restore
    BY <2>2 DEF Restore, Proceed, Flags
  <2>3. CASE ThreadOpen
    BY <2>3 DEF ThreadOpen, Open, Flags
  <2> QED
    BY <1>3, <2>1, <2>2, <2>3 DEF ThreadAfter, Flag, Sleep, ThreadClose, ThreadResetX, ThreadResetY,
       Proceed, Close
<1>4. CASE Starter
  BY <1>4 DEF Starter, Enable, Broadcast
<1>5. ASSUME NEW result \in SUBSET Flags, Send(result) PROVE ControlTyped'
  BY <1>5 DEF Send, Directions
<1>6. CASE SessionReset \/ SessionOpen
  BY <1>6 DEF SessionReset, SessionOpen, Open, Close, Flags
<1>7. CASE SessionResetX \/ SessionResetY
  BY <1>7 DEF SessionResetX, SessionResetY, Races
<1>8. CASE SessionCall
  BY <1>8 DEF SessionCall, Call, Races, setmove, setspeed, setpos, changeblance
<1> QED
  BY <1>1, <1>2, <1>3, <1>4, <1>5, <1>6, <1>7, <1>8, Steps

LEMMA Typed == Spec => [](FieldsTyped /\ ControlTyped)
<1>1. Init => FieldsTyped /\ ControlTyped
  <2> SUFFICES ASSUME Init PROVE FieldsTyped /\ ControlTyped
    OBVIOUS
  <2>1. FieldsTyped
    BY DEF Init, FieldsTyped, Axes, Directions, Blance
  <2>2. ControlTyped
    <3>1. 0 \in 0..Threshold
      BY ThresholdAssumption
    <3>2. wpc \in ThreadPoints /\ chosen \in Directions
      BY DEF Init, ThreadPoints, Directions
    <3> QED
      BY <3>1, <3>2, Zenon DEF Init, ControlTyped
  <2> QED
    BY <2>1, <2>2
<1>2. FieldsTyped /\ ControlTyped /\ [Next]_vars => FieldsTyped' /\ ControlTyped'
  BY FieldsTypedKept, ControlTypedKept
<1> QED
  BY <1>1, <1>2, PTL DEF Spec

\* Every variable keeps its type; the count of good transmissions since a bad one, in
\* particular, does not fall below zero.
THEOREM TypeCorrect == Spec => []TypeOK
<1>1. FieldsTyped /\ ControlTyped => TypeOK
  BY DEF FieldsTyped, ControlTyped, TypeOK
<1> QED
  BY <1>1, Typed, PTL

(***************************************************************************)
(* The status                                                              *)
(***************************************************************************)

LEMMA TurnKept ==
  FieldsTyped /\ ControlTyped /\ TurnInv /\ StatusHonest /\ [Next]_vars
  => TurnInv' /\ StatusHonest'
<1> SUFFICES ASSUME FieldsTyped, ControlTyped, TurnInv, StatusHonest, [Next]_vars
             PROVE  TurnInv' /\ StatusHonest'
  OBVIOUS
<1>a. wpc \in ThreadPoints /\ axis \in Axes
  BY DEF FieldsTyped, ControlTyped
<1> USE DEF TurnInv, StatusHonest, BeforeSending, fields, starter, thread, link, traces
<1>1. CASE UNCHANGED vars
  BY <1>1 DEF vars
<1>2. CASE ThreadAlone
  BY <1>a, <1>2 DEF ThreadAlone, EnablerTest, CondWait, Choose, Pose, Nega, Centre, Halt, Move
<1>3. CASE ThreadAfter
  <2>1. CASE Judge
    BY <1>a, <2>1 DEF Judge, Proceed, OnRecord, Axes
  <2>2. CASE Restore
    BY <1>a, <2>2 DEF Restore, Proceed, Axes
  <2>3. CASE Flag
    BY <1>a, <2>3 DEF Flag, Proceed, Axes
  <2>4. CASE Sleep
    BY <2>4 DEF Sleep
  <2>5. CASE ThreadClose \/ ThreadOpen \/ ThreadResetX \/ ThreadResetY
    BY <2>5 DEF ThreadClose, ThreadOpen, ThreadResetX, ThreadResetY
  <2> QED
    BY <1>3, <2>1, <2>2, <2>3, <2>4, <2>5 DEF ThreadAfter
<1>4. CASE Starter
  BY <1>4 DEF Starter, Enable, Broadcast
<1>5. ASSUME NEW result \in SUBSET Flags, Send(result) PROVE TurnInv' /\ StatusHonest'
  BY <1>a, <1>5 DEF Send, Axes
<1>6. CASE SessionReset \/ SessionOpen
  BY <1>6 DEF SessionReset, SessionOpen
<1>7. CASE SessionResetX \/ SessionResetY
  BY <1>7 DEF SessionResetX, SessionResetY
<1>8. CASE SessionCall
  BY <1>8 DEF SessionCall, Call, setmove, setspeed, setpos, changeblance
<1> QED
  BY <1>1, <1>2, <1>3, <1>4, <1>5, <1>6, <1>7, <1>8, Steps

\* A status that reads clean hides no failure of this turn of the loop, except while the thread
\* is still recording it, whatever a session resets or sets meanwhile.
THEOREM StatusHonestHolds == Spec => []StatusHonest
<1>1. Init => TurnInv /\ StatusHonest
  BY DEF Init, TurnInv, StatusHonest, BeforeSending
<1>2. FieldsTyped /\ ControlTyped /\ TurnInv /\ StatusHonest /\ [Next]_vars
      => TurnInv' /\ StatusHonest'
  BY TurnKept
<1> QED
  BY <1>1, <1>2, Typed, PTL DEF Spec

(***************************************************************************)
(* The travel                                                              *)
(***************************************************************************)

\* The thread's own steps.
LEMMA ThreadKeepsRange ==
  ASSUME FieldsTyped, ControlTyped, ChoiceInv, InRangeUnlessRaced,
         ThreadAlone \/ ThreadAfter \/ \E result \in SUBSET Flags : Send(result)
  PROVE  ChoiceInv' /\ InRangeUnlessRaced'
<1> USE DEF ChoiceInv, InRangeUnlessRaced, fields, starter, thread, link, traces
<1>1. CASE EnablerTest \/ CondWait
  BY <1>1 DEF EnablerTest, CondWait
<1>2. CASE Choose
  BY <1>2 DEF Choose, MayPose, MayNega
<1>3. CASE Pose
  <2>1. pos'[axis] = mid[axis] + spd[axis] /\ wpc' = "send"
    BY <1>3 DEF Pose, Move, FieldsTyped
  <2>2. {mid[axis], spd[axis]} \subseteq Int
    BY DEF FieldsTyped
  <2> QED
    BY <1>3, <2>1, <2>2 DEF Pose, Move, MayPose, Min, Max
<1>4. CASE Nega
  <2>1. pos'[axis] = mid[axis] - spd[axis] /\ wpc' = "send"
    BY <1>4 DEF Nega, Move, FieldsTyped
  <2>2. {mid[axis], spd[axis]} \subseteq Int
    BY DEF FieldsTyped
  <2> QED
    BY <1>4, <2>1, <2>2 DEF Nega, Move, MayNega, Min, Max
<1>5. CASE Centre
  BY <1>5 DEF Centre, Move
<1>6. CASE Halt
  BY <1>6 DEF Halt, FieldsTyped
<1>7. CASE ThreadAfter
  BY <1>7 DEF ThreadAfter, Judge, Restore, Flag, Sleep, ThreadClose, ThreadOpen, ThreadResetX,
              ThreadResetY, Proceed
<1>8. ASSUME NEW result \in SUBSET Flags, Send(result) PROVE ChoiceInv' /\ InRangeUnlessRaced'
  BY <1>8 DEF Send
<1> QED
  BY <1>1, <1>2, <1>3, <1>4, <1>5, <1>6, <1>7, <1>8 DEF ThreadAlone

\* A call that changes the axis the thread is busy with is a race; one that changes the other
\* does not touch what the thread has found.
LEMMA SessionKeepsRange ==
  ASSUME FieldsTyped, ControlTyped, ChoiceInv, InRangeUnlessRaced,
         NEW a \in Axes, Races(a), UNCHANGED <<thread, chosen>>,
         \A b \in Axes \ {a} : /\ mid'[b] = mid[b] /\ pos'[b] = pos[b]
                               /\ spd'[b] = spd[b] /\ mov'[b] = mov[b]
  PROVE  ChoiceInv' /\ InRangeUnlessRaced'
<1>1. CASE axis = a
  BY <1>1 DEF ChoiceInv, InRangeUnlessRaced, Races, thread
<1>2. CASE axis # a
  <2>1. axis \in Axes \ {a} /\ axis' = axis
    BY <1>2 DEF FieldsTyped, thread
  <2>2. MayPose(axis)' = MayPose(axis) /\ MayNega(axis)' = MayNega(axis)
    BY <2>1 DEF MayPose, MayNega
  <2> QED
    BY <2>1, <2>2 DEF ChoiceInv, InRangeUnlessRaced, Races, thread
<1> QED
  BY <1>1, <1>2

LEMMA RangeKept ==
  FieldsTyped /\ ControlTyped /\ ChoiceInv /\ InRangeUnlessRaced /\ [Next]_vars
  => ChoiceInv' /\ InRangeUnlessRaced'
<1> SUFFICES ASSUME FieldsTyped, ControlTyped, ChoiceInv, InRangeUnlessRaced, [Next]_vars
             PROVE  ChoiceInv' /\ InRangeUnlessRaced'
  OBVIOUS
<1>1. CASE UNCHANGED vars
  BY <1>1 DEF vars, fields, thread, traces, ChoiceInv, InRangeUnlessRaced, MayPose, MayNega
<1>2. CASE ThreadAlone \/ ThreadAfter \/ \E result \in SUBSET Flags : Send(result)
  BY <1>2, ThreadKeepsRange
<1>3. CASE Starter
  BY <1>3 DEF Starter, Enable, Broadcast, fields, thread, traces, ChoiceInv, InRangeUnlessRaced,
              MayPose, MayNega
<1>4. CASE SessionReset \/ SessionOpen
  BY <1>4 DEF SessionReset, SessionOpen, fields, thread, traces, ChoiceInv, InRangeUnlessRaced,
              MayPose, MayNega
<1>5. CASE SessionResetX
  BY <1>5, SessionKeepsRange DEF SessionResetX, ResetAxis, FieldsTyped, Axes
<1>6. CASE SessionResetY
  BY <1>6, SessionKeepsRange DEF SessionResetY, ResetAxis, FieldsTyped, Axes
<1>7. CASE SessionCall
  <2>1. PICK a \in Axes :
          \/ \E d \in Directions : setmove(a, d)
          \/ \E v \in Char : setspeed(a, v) \/ setpos(a, v) \/ changeblance(a, v)
    BY <1>7 DEF SessionCall
  <2>2. Races(a) /\ UNCHANGED <<thread, chosen>>
    BY <2>1 DEF setmove, setspeed, setpos, changeblance, Call
  <2>3. \A b \in Axes \ {a} : /\ mid'[b] = mid[b] /\ pos'[b] = pos[b]
                              /\ spd'[b] = spd[b] /\ mov'[b] = mov[b]
    BY <2>1 DEF setmove, setspeed, setpos, changeblance, FieldsTyped
  <2> QED
    BY <2>2, <2>3, SessionKeepsRange
<1> QED
  BY <1>1, <1>2, <1>3, <1>4, <1>5, <1>6, <1>7, Steps

\* Only a call between the test of a bound and the sending takes an axis past that bound, and,
\* for a balance within the travel and a speed that is not negative, past the other one.
THEOREM InRangeUnlessRacedHolds == Spec => []InRangeUnlessRaced
<1>1. Init => ChoiceInv /\ InRangeUnlessRaced
  BY DEF Init, ChoiceInv, InRangeUnlessRaced
<1>2. FieldsTyped /\ ControlTyped /\ ChoiceInv /\ InRangeUnlessRaced /\ [Next]_vars
      => ChoiceInv' /\ InRangeUnlessRaced'
  BY RangeKept
<1> QED
  BY <1>1, <1>2, Typed, PTL DEF Spec
=============================================================================
