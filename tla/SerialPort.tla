------------------------------ MODULE SerialPort ------------------------------
(***************************************************************************)
(* The serial port's descriptor: SerialPort::serialfd, and the table of    *)
(* descriptors it is a number in.                                          *)
(*                                                                         *)
(* reset() closes the port and opens it again.  The servo thread calls it  *)
(* when a write fails and sessions call it for their clients, and nothing  *)
(* keeps two calls apart.  The listening thread takes descriptors of the   *)
(* same table for the connections it accepts.  A session ends with a       *)
(* shutdown, which keeps the descriptor: none of those is ever given back, *)
(* and a write to one fails.                                               *)
(*                                                                         *)
(* What reset() does to the axes and to errorflag is in CntServo.          *)
(***************************************************************************)
EXTENDS Integers, FiniteSets

CONSTANTS
  Fds,        \* bound: the numbers of the descriptor table
  Sessions,   \* the sessions that call reset()
  Thread,     \* the servo thread
  MaxOverlaps \* bound: the calls of reset() that begin while another is under way

ASSUME FdsAssumption == Fds \subseteq Nat /\ IsFiniteSet(Fds)
ASSUME CallersAssumption == Thread \notin Sessions
ASSUME OverlapsAssumption == MaxOverlaps \in Nat

VARIABLES
  serialfd,
  kind,     \* what each descriptor of the process is: a connection is a "socket", or "shut"
  pc,       \* where each caller is in reset()
  fd,       \* the descriptor a caller has in its hands: to close, or just opened
  overlaps, \* history: the calls of reset() that began while another was under way
  robbed    \* history: a client's connection was closed as the port

vars == <<serialfd, kind, pc, fd, overlaps, robbed>>

Callers == Sessions \cup {Thread}
NoFd == -1

ResetPoints == {"idle", "closeport", "close", "forget", "openport", "open", "assign"}

TypeOK ==
  /\ serialfd \in Fds \cup {NoFd}
  /\ kind \in [Fds -> {"free", "tty", "socket", "shut"}]
  /\ pc \in [Callers -> ResetPoints]
  /\ fd \in [Callers -> Fds \cup {NoFd}]
  /\ overlaps \in 0..MaxOverlaps
  /\ robbed \in BOOLEAN

Terminals == {f \in Fds : kind[f] = "tty"}

\* The port could be opened by the constructor, or could not.
Init ==
  /\ serialfd \in Fds \cup {NoFd}
  /\ serialfd \in Fds => \A f \in Fds : serialfd <= f
  /\ kind = [f \in Fds |-> IF f = serialfd THEN "tty" ELSE "free"]
  /\ pc = [p \in Callers |-> "idle"]
  /\ fd = [p \in Callers |-> NoFd]
  /\ overlaps = 0
  /\ robbed = FALSE

\* The kernel gives away the lowest number that is free.
Allocate(f, what) ==
  /\ kind[f] = "free"
  /\ \A g \in Fds : kind[g] = "free" => f <= g
  /\ kind' = [kind EXCEPT ![f] = what]

Goes(p, from, to) == pc[p] = from /\ pc' = [pc EXCEPT ![p] = to]

(***************************************************************************)
(* The connections                                                         *)
(***************************************************************************)

Accept ==
  /\ \E f \in Fds : Allocate(f, "socket")
  /\ UNCHANGED <<serialfd, pc, fd, overlaps, robbed>>

SessionEnds ==
  /\ \E f \in Fds : kind[f] = "socket" /\ kind' = [kind EXCEPT ![f] = "shut"]
  /\ UNCHANGED <<serialfd, pc, fd, overlaps, robbed>>

(***************************************************************************)
(* reset()                                                                 *)
(***************************************************************************)

Enter(p) ==
  /\ Goes(p, "idle", "closeport")
  /\ overlaps' = IF \A q \in Callers : pc[q] = "idle" THEN overlaps ELSE overlaps + 1
  /\ overlaps' <= MaxOverlaps
  /\ UNCHANGED <<serialfd, kind, fd>>

SessionReset(s) == Enter(s) /\ UNCHANGED robbed

\* What can be written to: a terminal, and a connection, whose client gets the bytes.
Writable == serialfd \in Fds /\ kind[serialfd] \in {"tty", "socket"}

\* sendPos.  Writing to what is not writable fails (SIGPIPE is ignored); to a terminal it may, and
\* to a connection whose client is gone.
WriteFails == Enter(Thread) /\ UNCHANGED robbed

TestClose(p) ==
  /\ Goes(p, "closeport", IF serialfd \in Fds THEN "close" ELSE "openport")
  /\ fd' = [fd EXCEPT ![p] = serialfd]
  /\ UNCHANGED <<serialfd, kind, overlaps, robbed>>

\* Seeded fault: the port is forgotten without being closed.
CloseMissing(p) ==
  /\ Goes(p, "close", "forget")
  /\ UNCHANGED <<serialfd, kind, fd, overlaps, robbed>>

\* close may be given the number that was tested or the one serialfd has by now.
Close(p) ==
  /\ Goes(p, "close", "forget")
  /\ \E f \in {fd[p], serialfd} :
       /\ kind' = [g \in Fds |-> IF g = f THEN "free" ELSE kind[g]]
       /\ robbed' = (robbed \/ (f \in Fds /\ kind[f] \in {"socket", "shut"}))
  /\ fd' = [fd EXCEPT ![p] = NoFd]
  /\ UNCHANGED <<serialfd, overlaps>>

\* Seeded fault: closeport keeps the number.
ForgetMissing(p) ==
  /\ Goes(p, "forget", "openport")
  /\ UNCHANGED <<serialfd, kind, fd, overlaps, robbed>>

\* Seeded fault: the number for no port is 0.
ForgetZero(p) ==
  /\ Goes(p, "forget", "openport")
  /\ serialfd' = 0
  /\ UNCHANGED <<kind, fd, overlaps, robbed>>

Forget(p) ==
  /\ Goes(p, "forget", "openport")
  /\ serialfd' = NoFd
  /\ UNCHANGED <<kind, fd, overlaps, robbed>>

TestOpen(p) ==
  /\ Goes(p, "openport", IF serialfd \in Fds THEN "idle" ELSE "open")
  /\ UNCHANGED <<serialfd, kind, fd, overlaps, robbed>>

Open(p) ==
  /\ Goes(p, "open", "assign")
  /\ \E f \in Fds : Allocate(f, "tty") /\ fd' = [fd EXCEPT ![p] = f]
  /\ UNCHANGED <<serialfd, overlaps, robbed>>

\* There is no such device, or no descriptor is free.
OpenFails(p) ==
  /\ Goes(p, "open", "assign")
  /\ fd' = [fd EXCEPT ![p] = NoFd]
  /\ UNCHANGED <<serialfd, kind, overlaps, robbed>>

\* The settings of the port follow; they fail on what is not a terminal and leave it open.
Assign(p) ==
  /\ Goes(p, "assign", "idle")
  /\ serialfd' = fd[p]
  /\ UNCHANGED <<kind, fd, overlaps, robbed>>

Reset(p) ==
  \/ TestClose(p) \/ Close(p) \/ Forget(p) \/ TestOpen(p) \/ Open(p) \/ OpenFails(p) \/ Assign(p)

Next ==
  \/ Accept \/ SessionEnds \/ WriteFails
  \/ \E s \in Sessions : SessionReset(s)
  \/ \E p \in Callers : Reset(p)

Spec == Init /\ [][Next]_vars

\* A call of reset() goes on, and the servo thread writes.  That a write fails to what is
\* writable is a fault, which need not happen, and nobody has to connect or to end a session.
FairSpec ==
  /\ Spec
  /\ WF_vars(WriteFails /\ ~Writable)
  /\ \A p \in Callers : WF_vars(Reset(p))

(***************************************************************************)
(* Properties                                                              *)
(***************************************************************************)

\* As long as no two calls of reset() have overlapped, the process has the serial port open once
\* at most and serialfd names it or is about to; no connection is closed in its place, and the
\* servo thread can write to one only between the close of a session's reset() and the assignment
\* that follows it (closeport).
AloneOwnsPort ==
  overlaps = 0 =>
    /\ ~robbed
    /\ \A f \in Terminals : f = serialfd \/ \E p \in Callers : pc[p] = "assign" /\ fd[p] = f
    /\ \A f, g \in Terminals : f = g
    /\ serialfd \in Fds => kind[serialfd] = "tty" \/ \E p \in Callers : pc[p] = "forget"

\* A terminal that is open and that serialfd has forgotten is never closed; each overlap of two
\* calls loses one at most.
OneLeakPerOverlap == Cardinality(Terminals) <= 1 + overlaps

\* If sessions do not go on resetting for ever and opening does not fail for ever, the servo
\* thread comes back to a descriptor it can write to; that of a client it keeps only as long as
\* the client's session runs.
PortIsRecovered ==
  []<>(\/ Writable
       \/ \E p \in Callers : pc[p] = "assign" /\ fd[p] = NoFd
       \/ \E s \in Sessions : pc[s] # "idle")
=============================================================================
