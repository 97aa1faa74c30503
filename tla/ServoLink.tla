------------------------------ MODULE ServoLink ------------------------------
(***************************************************************************)
(* The serial line between the server and the servo board: sendPos with    *)
(* readfix on one end, the loop of servo.ino on the other, and the bytes   *)
(* on their way.  The thread of CntServoControl sends a position for one   *)
(* axis after the other; when sendPos fails it writes three bytes 'I' to   *)
(* bring the board back to the start of a command, and throws away what it *)
(* has received.                                                           *)
(*                                                                         *)
(* A byte is its code, because the bytes of a command are told apart by    *)
(* nothing else: 'X' is also position 88, 'Y' is also position 89, and the *)
(* balance, and 'I' is also position 73.  A fault is a byte lost, a write  *)
(* that fails, a wait that ends before the board has answered, or bytes    *)
(* that are still on the wire when what was received is thrown away.       *)
(***************************************************************************)
EXTENDS Naturals, Sequences

CONSTANTS
  Positions, \* bound: the positions sent
  MaxFaults  \* bound: the faults

X == 88
Y == 89
I == 73
S == 83
F == 70
U == 85

Bytes == 0..255

Highest == 200  \* the board's limit
Middle == 90    \* MIDDLE_AXISX, MIDDLE_AXISY
Tries == 3
Greeting == <<67, 111, 110, 116>>  \* the line the board prints when it is ready, cut short

ASSUME PositionsAssumption == Positions \subseteq Bytes /\ Positions # {}
ASSUME FaultsAssumption == MaxFaults \in Nat

VARIABLES
  spc,       \* where the servo thread is in sendPos
  axis,      \* its arguments: 'X' or 'Y'
  deg,
  i,         \* its loop variable
  rxbuf,     \* what readfix has read so far
  result,    \* what it returned last
  flawed,    \* cur_flag # SERVO_OK: some call of this turn, for X or for Y, did not return OK
  toBoard,   \* the bytes on their way to the board, and in the buffers at both ends
  toHost,    \* the bytes on their way back
  bpc,       \* what the board waits for: "axis" or "value"
  axispart,  \* the first byte of its command
  position,  \* posX and posY of the board
  faults     \* faults so far

server == <<spc, axis, deg, i, rxbuf, result, flawed>>
line   == <<toBoard, toHost>>
board  == <<bpc, axispart, position>>
vars   == <<server, line, board, faults>>

TypeOK ==
  /\ spc \in {"idle", "write", "sleep", "read", "judge", "flush"}
  /\ axis \in {X, Y}
  /\ deg \in Bytes
  /\ i \in 0..Tries
  /\ rxbuf \in Seq(Bytes) /\ Len(rxbuf) <= 3
  /\ result \in {"OK", "FAIL", "OFFLINE", "BADLINK", "LINKDOWN"}
  /\ flawed \in BOOLEAN
  /\ toBoard \in Seq(Bytes) /\ toHost \in Seq(Bytes)
  /\ bpc \in {"axis", "value"}
  /\ axispart \in Bytes
  /\ position \in [{X, Y} -> 0..Highest]
  /\ faults \in 0..MaxFaults

Init ==
  /\ spc = "idle"
  /\ axis = Y
  /\ deg = Middle
  /\ i = 0
  /\ rxbuf = << >>
  /\ result = "OK"
  /\ flawed = FALSE
  /\ toBoard = << >>
  /\ toHost \in {<< >>, Greeting}
  /\ bpc = "axis"
  /\ axispart = 0
  /\ position = [a \in {X, Y} |-> Middle]
  /\ faults = 0

Fault == faults < MaxFaults /\ faults' = faults + 1

(***************************************************************************)
(* The servo thread                                                        *)
(***************************************************************************)

\* workroutine calls sendPos for the other axis.
Call(position_) ==
  /\ spc = "idle"
  /\ axis' = IF axis = X THEN Y ELSE X
  /\ deg' = position_
  /\ i' = 0
  /\ spc' = "write"
  /\ UNCHANGED <<rxbuf, result, flawed, line, board, faults>>

Write ==
  /\ spc = "write"
  /\ toBoard' = toBoard \o <<axis, deg>>
  /\ rxbuf' = << >>
  /\ spc' = "sleep"
  /\ UNCHANGED <<axis, deg, i, result, flawed, toHost, board, faults>>

\* The waits of the server are long enough for the board unless there is a fault.
Patience == IF toBoard = << >> THEN UNCHANGED faults ELSE Fault

\* usleep(100000)
Sleep ==
  /\ spc = "sleep"
  /\ Patience
  /\ spc' = "read"
  /\ UNCHANGED <<axis, deg, i, rxbuf, result, flawed, line, board>>

\* The flag of Y is added to that of X.
Return(flag) ==
  /\ result' = flag
  /\ flawed' = (flag # "OK" \/ (axis = Y /\ flawed))
  /\ spc' = "judge"
  /\ UNCHANGED <<axis, deg, rxbuf, board>>

WriteFails ==
  /\ spc = "write" /\ Fault
  /\ Return("LINKDOWN")
  /\ UNCHANGED <<i, line>>

\* One turn of readfix.
ReadByte ==
  /\ spc = "read" /\ Len(rxbuf) < 3
  /\ toHost # << >>
  /\ rxbuf' = Append(rxbuf, Head(toHost))
  /\ toHost' = Tail(toHost)
  /\ UNCHANGED <<spc, axis, deg, i, result, flawed, toBoard, board, faults>>

\* Seeded fault: one try too many.
ReadTimeoutLate ==
  /\ spc = "read" /\ Len(rxbuf) < 3
  /\ toHost = << >>
  /\ Patience
  /\ i' = i + 1
  /\ \/ i' <= Tries /\ spc' = "write" /\ UNCHANGED <<axis, deg, rxbuf, result, flawed, board>>
     \/ i' > Tries /\ Return("OFFLINE")
  /\ UNCHANGED line

\* readfix gives up when the port's timeout has passed, and sendPos tries again.
ReadTimeout ==
  /\ spc = "read" /\ Len(rxbuf) < 3
  /\ toHost = << >>
  /\ Patience
  /\ i' = i + 1
  /\ \/ i' < Tries /\ spc' = "write" /\ UNCHANGED <<axis, deg, rxbuf, result, flawed, board>>
     \/ i' = Tries /\ Return("OFFLINE")
  /\ UNCHANGED line

\* Seeded fault: the first byte of the answer is enough.
AnsweredCarelessly ==
  /\ spc = "read" /\ Len(rxbuf) = 3
  /\ Return(IF rxbuf[1] = S THEN "OK" ELSE IF rxbuf[1] = F THEN "FAIL" ELSE "BADLINK")
  /\ UNCHANGED <<i, line, faults>>

Answered ==
  /\ spc = "read" /\ Len(rxbuf) = 3
  /\ Return(IF rxbuf = <<S, axis, deg>> THEN "OK"
            ELSE IF rxbuf[1] = F THEN "FAIL" ELSE "BADLINK")
  /\ UNCHANGED <<i, line, faults>>

Judge ==
  /\ spc = "judge" /\ ~flawed
  /\ spc' = "idle"
  /\ UNCHANGED <<axis, deg, i, rxbuf, result, flawed, line, board, faults>>

\* Seeded fault: the recovery sequence is not written.
RecoverMissing ==
  /\ spc = "judge" /\ flawed
  /\ spc' = "flush"
  /\ UNCHANGED <<axis, deg, i, rxbuf, result, flawed, line, board, faults>>

\* BUFFER_INST_RECOVERY; it does not get through a port that is down.
Recover ==
  /\ spc = "judge" /\ flawed
  /\ \/ toBoard' = toBoard \o <<I, I, I>>
     \/ result = "LINKDOWN" /\ UNCHANGED toBoard
  /\ spc' = "flush"
  /\ UNCHANGED <<axis, deg, i, rxbuf, result, flawed, toHost, board, faults>>

\* tcflush(TCIFLUSH) drops what has been received: all there is, unless some is late.
Flush ==
  /\ spc = "flush"
  /\ \/ toHost' = << >> /\ UNCHANGED faults
     \/ Fault /\ \E k \in 1..Len(toHost) : toHost' = SubSeq(toHost, k, Len(toHost))
  /\ spc' = "idle"
  /\ UNCHANGED <<axis, deg, i, rxbuf, result, flawed, toBoard, board>>

Server ==
  \/ Write \/ Sleep \/ ReadByte \/ ReadTimeout \/ Answered \/ Judge \/ Recover \/ Flush
  \/ \E p \in Positions : Call(p)

(***************************************************************************)
(* The board: loop of servo.ino                                            *)
(***************************************************************************)

Reply(bytes) == toHost' = toHost \o bytes

ReadAxis ==
  /\ bpc = "axis" /\ toBoard # << >>
  /\ toBoard' = Tail(toBoard)
  /\ axispart' = Head(toBoard)
  /\ bpc' = IF Head(toBoard) = I THEN "axis" ELSE "value"
  /\ UNCHANGED <<server, toHost, position, faults>>

ReadValue ==
  /\ bpc = "value" /\ toBoard # << >>
  /\ LET value == Head(toBoard)
         known == axispart \in {X, Y}
     IN /\ toBoard' = Tail(toBoard)
        /\ IF value # I /\ known /\ value <= Highest
             THEN position' = [position EXCEPT ![axispart] = value]
             ELSE UNCHANGED position
        /\ IF value = I THEN UNCHANGED toHost
           ELSE Reply(IF ~known THEN <<F, U, 0>>
                      ELSE <<IF value <= Highest THEN S ELSE F, axispart,
                             IF value <= Highest THEN value ELSE 0>>)
  /\ bpc' = "axis"
  /\ UNCHANGED <<server, axispart, faults>>

Board == ReadAxis \/ ReadValue

(***************************************************************************)
(* The line                                                                *)
(***************************************************************************)

Without(seq, k) == SubSeq(seq, 1, k - 1) \o SubSeq(seq, k + 1, Len(seq))

LoseByte ==
  /\ Fault
  /\ \/ \E k \in 1..Len(toBoard) : toBoard' = Without(toBoard, k) /\ UNCHANGED toHost
     \/ \E k \in 1..Len(toHost) : toHost' = Without(toHost, k) /\ UNCHANGED toBoard
  /\ UNCHANGED <<server, board>>

Next == Server \/ Board \/ WriteFails \/ LoseByte

Spec == Init /\ [][Next]_vars

\* Both ends run; faults need not happen.
FairSpec == Spec /\ WF_vars(Server) /\ WF_vars(Board)

(***************************************************************************)
(* Properties                                                              *)
(***************************************************************************)

\* A position that is acknowledged is the position the board has taken up, whatever was lost
\* on the way and however the commands were misread (sendPos).  It takes five faults to break it:
\* four waits that end early and a byte lost from one of the tries that are then on their way.
AckMeansMoved == spc = "judge" /\ result = "OK" => position[axis] = deg

\* No wait of the server ends before the board has read all that was sent, and what the board has
\* answered is received before it is thrown away.  AckMeansMoved needs it beyond four faults: every
\* wait that ends early leaves the board one command further behind.
Prompt ==
  /\ Sleep \/ ReadTimeout => toBoard = << >>
  /\ Flush => toHost' = << >>

\* Bytes that get no answer from the board, in whatever state it is, and bytes that get one at most.
OnlyI(seq) == \A j \in 1..Len(seq) : seq[j] = I
NoPair(seq) == \A j, k \in 1..Len(seq) : j < k => I \in {seq[j], seq[k]}
NoTriple(seq) == \A j, k, m \in 1..Len(seq) : j < k /\ k < m => I \in {seq[j], seq[k], seq[m]}

Answerless == IF bpc = "axis" THEN NoPair(toBoard) ELSE OnlyI(toBoard)

\* Bytes without an acknowledgement, and bytes that end in one, whole and true, if in any.
Untold(seq) == \A j \in 1..Len(seq) : seq[j] # S
Truthful(seq, taken) ==
  \A j \in 1..Len(seq) : seq[j] = S =>
    /\ Len(seq) <= j + 2
    /\ Len(seq) = j + 2 => seq[j + 1] \in {X, Y} /\ taken[seq[j + 1]] = seq[j + 2]

\* As long as the server waits for the board, a try gets one answer at most, and none is left over
\* for the next.
LineInv ==
  /\ spc # "sleep" => OnlyI(toBoard)
  /\ spc \in {"idle", "write"} => Untold(toHost)
  /\ spc = "sleep" =>
       /\ rxbuf = << >>
       /\ (NoTriple(toBoard) /\ Untold(toHost)) \/ (Answerless /\ Truthful(toHost, position))
  /\ spc = "read" => toBoard = << >> /\ Truthful(rxbuf \o toHost, position)
  /\ spc = "judge" /\ ~flawed => Untold(toHost)
  /\ AckMeansMoved

\* What sendPos returns over a line without faults: the byte 'I' is no position to the board.
Truth(position_) ==
  IF position_ = I THEN "OFFLINE" ELSE IF position_ > Highest THEN "FAIL" ELSE "OK"

\* After the last fault both ends are in step again before long, and stay so: the recovery
\* sequence brings the board back to the start of a command, and no answer is left over.
LinkRecovers == <>[](spc = "judge" => result = Truth(deg))
=============================================================================
