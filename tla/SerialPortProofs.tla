-------------------------- MODULE SerialPortProofs --------------------------
(***************************************************************************)
(* Proofs about SerialPort, for any descriptor table and any number of     *)
(* sessions.                                                               *)
(***************************************************************************)
EXTENDS SerialPort, FiniteSetTheorems, TLAPS

\* While no two calls have overlapped, one caller at most is in reset(), and where it is decides
\* what is open and what serialfd is.
OneAtATime == \A p, q \in Callers : pc[p] # "idle" /\ pc[q] # "idle" => p = q

Closing ==
  /\ \A p \in Callers : pc[p] = "close" => serialfd \in Fds /\ fd[p] = serialfd
  /\ \A p \in Callers : pc[p] \in {"openport", "open", "assign"} => serialfd = NoFd

Opening == \A p \in Callers : pc[p] = "assign" /\ fd[p] \in Fds => kind[fd[p]] = "tty"

NamedIsOpen == serialfd \in Fds => kind[serialfd] = "tty" \/ \E p \in Callers : pc[p] = "forget"

OpenIsNamed ==
  \A f \in Terminals :
    \/ f = serialfd /\ \A p \in Callers : pc[p] \in {"idle", "closeport", "close"}
    \/ \E p \in Callers : pc[p] = "assign" /\ fd[p] = f

Alone == ~robbed /\ OneAtATime /\ Closing /\ Opening /\ NamedIsOpen /\ OpenIsNamed

IInv == TypeOK /\ (overlaps = 0 => Alone)

LEMMA NoFdOutside == NoFd \notin Fds
BY FdsAssumption DEF NoFd

LEMMA InitIInv == Init => IInv
<1> SUFFICES ASSUME Init PROVE IInv
  OBVIOUS
<1>1. TypeOK
  <2>1. kind \in [Fds -> {"free", "tty", "socket", "shut"}]
    BY DEF Init
  <2>2. overlaps \in 0..MaxOverlaps
    BY OverlapsAssumption DEF Init
  <2>3. pc \in [Callers -> ResetPoints] /\ fd \in [Callers -> Fds \cup {NoFd}]
    BY DEF Init, ResetPoints
  <2> QED
    BY <2>1, <2>2, <2>3 DEF Init, TypeOK
<1>2. \A p \in Callers : pc[p] = "idle"
  BY DEF Init
<1>3. \A f \in Terminals : f = serialfd
  BY DEF Init, Terminals
<1>4. serialfd \in Fds => kind[serialfd] = "tty"
  BY DEF Init
<1>5. ~robbed
  BY DEF Init
<1> QED
  BY <1>1, <1>2, <1>3, <1>4, <1>5 DEF IInv, Alone, OneAtATime, Closing, Opening, NamedIsOpen, OpenIsNamed

\* The types.
LEMMA TypesKept == TypeOK /\ [Next]_vars => TypeOK'
<1> SUFFICES ASSUME TypeOK, [Next]_vars PROVE TypeOK'
  OBVIOUS
<1> USE OverlapsAssumption DEF TypeOK, ResetPoints, Goes
<1>1. CASE UNCHANGED vars
  BY <1>1 DEF vars
<1>2. CASE Accept \/ SessionEnds
  BY <1>2 DEF Accept, SessionEnds, Allocate
<1>3. ASSUME NEW p \in Callers, Enter(p), UNCHANGED robbed PROVE TypeOK'
  BY <1>3 DEF Enter
<1>4. ASSUME NEW p \in Callers, Reset(p) PROVE TypeOK'
  <2>1. CASE TestClose(p)
    BY <2>1 DEF TestClose
  <2>2. CASE Close(p)
    BY <2>2 DEF Close
  <2>3. CASE Forget(p) \/ TestOpen(p)
    BY <2>3 DEF Forget, TestOpen
  <2>4. CASE Open(p)
    BY <2>4 DEF Open, Allocate
  <2>5. CASE OpenFails(p) \/ Assign(p)
    BY <2>5 DEF OpenFails, Assign
  <2> QED
    BY <1>4, <2>1, <2>2, <2>3, <2>4, <2>5 DEF Reset
<1> QED
  BY <1>1, <1>2, <1>3, <1>4 DEF Next, WriteFails, SessionReset, Callers

\* Only an overlap is counted.
LEMMA OverlapsGrow == TypeOK /\ [Next]_vars /\ overlaps' = 0 => overlaps = 0
<1> SUFFICES ASSUME TypeOK, [Next]_vars, overlaps' = 0 PROVE overlaps = 0
  OBVIOUS
<1>1. CASE UNCHANGED overlaps
  BY <1>1
<1>2. ASSUME NEW p \in Callers, Enter(p) PROVE overlaps = 0
  BY <1>2, OverlapsAssumption DEF Enter, TypeOK
<1> QED
  BY <1>1, <1>2 DEF Next, vars, Accept, SessionEnds, WriteFails, SessionReset, Callers, Reset, TestClose, Close, Forget,
    TestOpen, Open, OpenFails, Assign

\* A connection takes a number that is free.
LEMMA AcceptKeepsAlone == TypeOK /\ Alone /\ Accept => Alone'
<1> SUFFICES ASSUME TypeOK, Alone, NEW f \in Fds, Allocate(f, "socket"),
                    UNCHANGED <<serialfd, pc, fd, overlaps, robbed>>
             PROVE  Alone'
  BY DEF Accept
<1> QED
  BY DEF TypeOK, Alone, OneAtATime, Closing, Opening, NamedIsOpen, OpenIsNamed, Terminals, Allocate

\* What is shut down was a connection.
LEMMA EndKeepsAlone == TypeOK /\ Alone /\ SessionEnds => Alone'
<1> SUFFICES ASSUME TypeOK, Alone, NEW f \in Fds, kind[f] = "socket", kind' = [kind EXCEPT ![f] = "shut"],
                    UNCHANGED <<serialfd, pc, fd, overlaps, robbed>>
             PROVE  Alone'
  BY DEF SessionEnds
<1> QED
  BY DEF TypeOK, Alone, OneAtATime, Closing, Opening, NamedIsOpen, OpenIsNamed, Terminals

\* The steps of reset().
LEMMA ResetKeepsAlone ==
  ASSUME TypeOK, Alone, NEW p \in Callers, Reset(p)
  PROVE  Alone'
<1> USE NoFdOutside DEF TypeOK, Alone, OneAtATime, Closing, Opening, NamedIsOpen, OpenIsNamed, Terminals, Goes
<1>1. CASE TestClose(p)
  BY <1>1 DEF TestClose
<1>2. CASE Close(p)
  BY <1>2 DEF Close
<1>3. CASE Forget(p)
  BY <1>3 DEF Forget
<1>4. CASE TestOpen(p)
  BY <1>4 DEF TestOpen
<1>5. CASE Open(p)
  BY <1>5 DEF Open, Allocate
<1>6. CASE OpenFails(p)
  BY <1>6 DEF OpenFails
<1>7. CASE Assign(p)
  BY <1>7 DEF Assign
<1> QED
  BY <1>1, <1>2, <1>3, <1>4, <1>5, <1>6, <1>7 DEF Reset

\* A call that begins when every caller is idle.
LEMMA EnterKeepsAlone ==
  ASSUME TypeOK, Alone, overlaps' = 0, NEW p \in Callers, Enter(p), UNCHANGED robbed
  PROVE  Alone'
<1>1. \A q \in Callers : pc[q] = "idle"
  BY DEF Enter, TypeOK
<1>2. /\ pc' = [pc EXCEPT ![p] = "closeport"]
      /\ UNCHANGED <<serialfd, kind, fd>>
  BY DEF Enter, Goes
<1> QED
  BY <1>1, <1>2 DEF TypeOK, Alone, OneAtATime, Closing, Opening, NamedIsOpen, OpenIsNamed, Terminals

LEMMA NextKeepsIInv == IInv /\ [Next]_vars => IInv'
<1> SUFFICES ASSUME IInv, [Next]_vars PROVE IInv'
  OBVIOUS
<1>1. TypeOK /\ TypeOK'
  BY TypesKept DEF IInv
<1>2. ASSUME overlaps' = 0 PROVE Alone'
  <2>1. Alone
    BY <1>1, <1>2, OverlapsGrow DEF IInv
  <2>2. CASE UNCHANGED vars
    BY <2>1, <2>2 DEF vars, Alone, OneAtATime, Closing, Opening, NamedIsOpen, OpenIsNamed, Terminals
  <2>3. CASE Accept
    BY <1>1, <2>1, <2>3, AcceptKeepsAlone
  <2>6. CASE SessionEnds
    BY <1>1, <2>1, <2>6, EndKeepsAlone
  <2>4. ASSUME NEW p \in Callers, Reset(p) PROVE Alone'
    BY <1>1, <2>1, <2>4, ResetKeepsAlone
  <2>5. ASSUME NEW p \in Callers, Enter(p), UNCHANGED robbed PROVE Alone'
    BY <1>1, <1>2, <2>1, <2>5, EnterKeepsAlone
  <2> QED
    BY <2>2, <2>3, <2>4, <2>5, <2>6 DEF Next, WriteFails, SessionReset, Callers
<1> QED
  BY <1>1, <1>2 DEF IInv

LEMMA SpecIInv == Spec => []IInv
<1>1. Init => IInv
  BY InitIInv
<1>2. IInv /\ [Next]_vars => IInv'
  BY NextKeepsIInv
<1> QED
  BY <1>1, <1>2, PTL DEF Spec

\* Every variable keeps its type.
THEOREM TypeCorrect == Spec => []TypeOK
<1>1. IInv => TypeOK
  BY DEF IInv
<1> QED
  BY <1>1, SpecIInv, PTL

\* Whatever is accepted meanwhile, a process whose resets do not overlap has the serial port open
\* once and mistakes no connection for it.
THEOREM AloneOwnsThePort == Spec => []AloneOwnsPort
<1>1. IInv => AloneOwnsPort
  <2> SUFFICES ASSUME TypeOK, Alone PROVE AloneOwnsPort
    BY DEF IInv, AloneOwnsPort
  <2>1. \A f, g \in Terminals : f = g
    BY DEF Alone, OpenIsNamed, OneAtATime
  <2> QED
    BY <2>1 DEF Alone, AloneOwnsPort, OpenIsNamed, NamedIsOpen
<1> QED
  BY <1>1, SpecIInv, PTL

(***************************************************************************)
(* Leaks.  Every call under way, and every terminal that no caller is      *)
(* about to assign, is paid for: by an overlap, by the call that found     *)
(* every caller idle, or by serialfd while nobody has closed it yet.       *)
(***************************************************************************)

Active == {p \in Callers : pc[p] # "idle"}
InHand == {fd[p] : p \in {q \in Callers : pc[q] = "assign"}}
OnTheirOwn == Terminals \ InHand

\* No caller has closed the port, and those about to hold its number.
NotYetClosed ==
  \A p \in Callers : \/ pc[p] \in {"idle", "closeport"}
                     \/ pc[p] = "close" /\ fd[p] = serialfd

Busy == IF Active = {} THEN 0 ELSE 1
Named == IF NotYetClosed /\ serialfd \in Terminals THEN 1 ELSE 0

Paid ==
  /\ IsFiniteSet(Active)
  /\ Cardinality(OnTheirOwn) + Cardinality(Active) <= overlaps + Busy + Named

LEMMA SomeDescriptors == \A T \in SUBSET Fds : IsFiniteSet(T) /\ Cardinality(T) \in Nat
BY FdsAssumption, FS_Subset, FS_CardinalityType

LEMMA FiniteDescriptors ==
  /\ IsFiniteSet(Terminals) /\ Cardinality(Terminals) \in Nat
  /\ IsFiniteSet(OnTheirOwn) /\ Cardinality(OnTheirOwn) \in Nat
<1>1. Terminals \in SUBSET Fds /\ OnTheirOwn \in SUBSET Fds
  BY DEF Terminals, OnTheirOwn
<1> QED
  BY <1>1, SomeDescriptors

LEMMA InitPaid == Init => Paid
<1> SUFFICES ASSUME Init PROVE Paid
  OBVIOUS
<1>1. Active = {} /\ IsFiniteSet(Active) /\ Cardinality(Active) = 0
  BY FS_EmptySet DEF Init, Active
<1>2. OnTheirOwn = (IF serialfd \in Fds THEN {serialfd} ELSE {})
  BY DEF Init, OnTheirOwn, InHand, Terminals
<1>3. Cardinality(OnTheirOwn) = Named
  BY <1>2, FS_EmptySet, FS_Singleton DEF Init, Named, NotYetClosed, Terminals
<1> QED
  BY <1>1, <1>3 DEF Init, Paid, Busy, Named

\* A call begins: it is paid for by the callers' being idle, or counted.
LEMMA EnterPaid ==
  ASSUME TypeOK, Paid, NEW p \in Callers, Enter(p)
  PROVE  Paid'
<1>1. Active' = Active \cup {p} /\ p \notin Active
  BY DEF Enter, Goes, TypeOK, Active
<1>2. IsFiniteSet(Active') /\ Cardinality(Active') = Cardinality(Active) + 1
  BY <1>1, FS_AddElement DEF Paid
<1>3. OnTheirOwn' = OnTheirOwn /\ Named' = Named
  BY DEF Enter, Goes, TypeOK, OnTheirOwn, InHand, Terminals, Named, NotYetClosed
<1>4. overlaps' + Busy' = overlaps + Busy + 1
  BY <1>1, OverlapsAssumption DEF Enter, Busy, Active, TypeOK
<1>5. /\ Cardinality(OnTheirOwn) \in Nat /\ Cardinality(Active) \in Nat
      /\ {overlaps, Busy, Named, overlaps', Busy'} \subseteq Int
  BY FiniteDescriptors, FS_CardinalityType, OverlapsAssumption
     DEF Paid, TypeOK, Busy, Named, Enter
<1> QED
  BY <1>2, <1>3, <1>4, <1>5 DEF Paid

\* A step from one point of the call to a later one.
LEMMA StepPaid ==
  ASSUME TypeOK, Paid, NEW p \in Callers,
         TestClose(p) \/ Close(p) \/ Forget(p) \/ Open(p) \/ OpenFails(p)
  PROVE  Paid'
<1> USE NoFdOutside DEF TypeOK, Goes
<1>1. Active' = Active /\ overlaps' = overlaps
  BY DEF Active, TestClose, Close, Forget, Open, OpenFails
<1>2. Cardinality(OnTheirOwn') <= Cardinality(OnTheirOwn) + Named' - Named
  <2>1. CASE TestClose(p)
    <3>1. OnTheirOwn' = OnTheirOwn
      BY <2>1 DEF TestClose, OnTheirOwn, InHand, Terminals
    <3>2. Named' = Named /\ Named \in {0, 1}
      BY <2>1 DEF TestClose, Terminals, Named, NotYetClosed
    <3> QED
      BY <3>1, <3>2, FiniteDescriptors
  <2>2. CASE Close(p)
    <3>1. ~NotYetClosed' /\ Named' = 0
      BY <2>2 DEF Close, NotYetClosed, Named
    <3>2. InHand' = InHand /\ Terminals' \subseteq Terminals
      BY <2>2 DEF Close, InHand, Terminals
    <3>3. CASE NotYetClosed /\ serialfd \in Terminals
      <4>1. serialfd \in OnTheirOwn
        BY <3>3 DEF NotYetClosed, OnTheirOwn, InHand
      <4>2. serialfd \notin Terminals'
        BY <2>2, <3>3 DEF Close, NotYetClosed, Terminals
      <4>3. OnTheirOwn' \in SUBSET (OnTheirOwn \ {serialfd})
        BY <3>2, <4>2 DEF OnTheirOwn
      <4>4. /\ IsFiniteSet(OnTheirOwn \ {serialfd})
            /\ Cardinality(OnTheirOwn \ {serialfd}) = Cardinality(OnTheirOwn) - 1
        BY <4>1, FiniteDescriptors, FS_RemoveElement
      <4>5. Cardinality(OnTheirOwn') <= Cardinality(OnTheirOwn) - 1
        BY <4>3, <4>4, FS_Subset
      <4> QED
        BY <3>1, <3>3, <4>5, FiniteDescriptors DEF Named
    <3>4. CASE ~(NotYetClosed /\ serialfd \in Terminals)
      <4>1. OnTheirOwn' \in SUBSET OnTheirOwn
        BY <3>2 DEF OnTheirOwn
      <4>2. Cardinality(OnTheirOwn') <= Cardinality(OnTheirOwn)
        BY <4>1, FiniteDescriptors, FS_Subset
      <4> QED
        BY <3>1, <3>4, <4>2, FiniteDescriptors DEF Named
    <3> QED
      BY <3>3, <3>4
  <2>3. CASE Forget(p)
    <3>1. ~NotYetClosed /\ ~NotYetClosed'
      BY <2>3 DEF Forget, NotYetClosed
    <3>2. OnTheirOwn' = OnTheirOwn
      BY <2>3 DEF Forget, OnTheirOwn, InHand, Terminals
    <3> QED
      BY <3>1, <3>2, FiniteDescriptors DEF Named
  <2>4. CASE Open(p) \/ OpenFails(p)
    <3>1. ~NotYetClosed /\ ~NotYetClosed'
      BY <2>4 DEF Open, OpenFails, NotYetClosed
    <3>2. OnTheirOwn' \in SUBSET OnTheirOwn
      <4>1. /\ pc[p] = "open"
            /\ pc' = [pc EXCEPT ![p] = "assign"]
            /\ fd' = [fd EXCEPT ![p] = fd'[p]]
        BY <2>4 DEF Open, OpenFails
      <4>2. InHand' = InHand \cup {fd'[p]}
        BY <4>1 DEF InHand
      <4>3. Terminals' \subseteq Terminals \cup {fd'[p]}
        BY <2>4 DEF Open, OpenFails, Allocate, Terminals
      <4> QED
        BY <4>2, <4>3 DEF OnTheirOwn
    <3>3. Cardinality(OnTheirOwn') <= Cardinality(OnTheirOwn)
      BY <3>2, FiniteDescriptors, FS_Subset
    <3> QED
      BY <3>1, <3>3, FiniteDescriptors DEF Named
  <2> QED
    BY <2>1, <2>2, <2>3, <2>4
<1>3. /\ Cardinality(OnTheirOwn) \in Nat /\ Cardinality(OnTheirOwn') \in Nat
      /\ {Named, Named', Busy, overlaps, Cardinality(Active)} \subseteq Int
  <2>1. OnTheirOwn' \in SUBSET Fds
    BY DEF OnTheirOwn, Terminals
  <2> QED
    BY <2>1, SomeDescriptors, FiniteDescriptors, FS_CardinalityType, OverlapsAssumption
       DEF Paid, Busy, Named
<1> QED
  BY <1>1, <1>2, <1>3 DEF Paid, Busy

\* A call ends.
LEMMA LeavePaid ==
  ASSUME TypeOK, Paid, NEW p \in Callers, TestOpen(p) \/ Assign(p), pc'[p] = "idle"
  PROVE  Paid'
<1> USE DEF TypeOK, Goes
<1>1. Active' = Active \ {p} /\ p \in Active
  BY DEF Active, TestOpen, Assign
<1>2. IsFiniteSet(Active') /\ Cardinality(Active') = Cardinality(Active) - 1
  BY <1>1, FS_RemoveElement DEF Paid
<1>3. overlaps' = overlaps /\ Busy = 1 /\ Named = 0
  BY <1>1 DEF TestOpen, Assign, Busy, Named, NotYetClosed
<1>4. /\ OnTheirOwn' \in SUBSET (OnTheirOwn \cup {serialfd'})
      /\ ~(serialfd' \in Terminals) => OnTheirOwn' \in SUBSET OnTheirOwn
  <2>1. CASE TestOpen(p)
    BY <2>1 DEF TestOpen, OnTheirOwn, InHand, Terminals
  <2>2. CASE Assign(p)
    <3>1. InHand \subseteq InHand' \cup {serialfd'} /\ Terminals' = Terminals
      BY <2>2 DEF Assign, InHand, Terminals
    <3> QED
      BY <3>1 DEF OnTheirOwn
  <2> QED
    BY <2>1, <2>2
<1>5. /\ IsFiniteSet(OnTheirOwn \cup {serialfd'})
      /\ Cardinality(OnTheirOwn \cup {serialfd'}) <= Cardinality(OnTheirOwn) + 1
  <2>1. /\ IsFiniteSet(OnTheirOwn \cup {serialfd'})
        /\ \/ Cardinality(OnTheirOwn \cup {serialfd'}) = Cardinality(OnTheirOwn)
           \/ Cardinality(OnTheirOwn \cup {serialfd'}) = Cardinality(OnTheirOwn) + 1
    BY FiniteDescriptors, FS_AddElement, Zenon
  <2> QED
    BY <2>1, FiniteDescriptors
<1>6. /\ Cardinality(OnTheirOwn') <= Cardinality(OnTheirOwn \cup {serialfd'})
      /\ serialfd' \notin Terminals => Cardinality(OnTheirOwn') <= Cardinality(OnTheirOwn)
  BY <1>4, <1>5, FiniteDescriptors, FS_Subset
<1>7. Active' = {} /\ serialfd' \in Terminals => Named' = 1
  <2>1. Terminals' = Terminals
    BY DEF TestOpen, Assign, Terminals
  <2> QED
    BY <2>1 DEF Named, NotYetClosed, Active
<1>8. /\ Cardinality(OnTheirOwn) \in Nat /\ Cardinality(OnTheirOwn') \in Nat
      /\ Cardinality(OnTheirOwn \cup {serialfd'}) \in Nat
      /\ Cardinality(Active) \in Nat /\ overlaps \in Int /\ Named' \in {0, 1}
  <2>1. OnTheirOwn' \in SUBSET Fds
    BY DEF OnTheirOwn, Terminals
  <2> QED
    BY <1>5, <2>1, SomeDescriptors, FiniteDescriptors, FS_CardinalityType, OverlapsAssumption
       DEF Paid, Named
<1>9. CASE Active' = {}
  <2>1. Cardinality(Active') = 0 /\ Busy' = 0
    BY <1>9, FS_EmptySet DEF Busy
  <2> QED
    BY <1>2, <1>3, <1>5, <1>6, <1>7, <1>8, <1>9, <2>1 DEF Paid
<1>10. CASE Active' # {}
  <2>1. Busy' = 1
    BY <1>10 DEF Busy
  <2> QED
    BY <1>2, <1>3, <1>5, <1>6, <1>8, <2>1 DEF Paid
<1> QED
  BY <1>9, <1>10

LEMMA PaidKept == TypeOK /\ Paid /\ [Next]_vars => Paid'
<1> SUFFICES ASSUME TypeOK, Paid, [Next]_vars PROVE Paid'
  OBVIOUS
<1> DEFINE Unmoved == UNCHANGED <<Terminals, serialfd, pc, fd, overlaps>>
<1>1. CASE Unmoved
  BY <1>1 DEF Paid, Active, OnTheirOwn, InHand, Busy, Named, NotYetClosed
<1>2. CASE UNCHANGED vars
  BY <1>1, <1>2 DEF vars, Terminals
<1>3. CASE Accept \/ SessionEnds
  BY <1>1, <1>3 DEF Accept, SessionEnds, Allocate, Terminals, TypeOK
<1>4. ASSUME NEW p \in Callers, Reset(p) PROVE Paid'
  <2>1. CASE TestOpen(p) /\ pc'[p] # "idle"
    <3>1. Active' = Active /\ ~NotYetClosed /\ ~NotYetClosed'
      BY <2>1 DEF TestOpen, Goes, TypeOK, Active, NotYetClosed
    <3>2. OnTheirOwn' = OnTheirOwn /\ overlaps' = overlaps
      BY <2>1 DEF TestOpen, Goes, TypeOK, OnTheirOwn, InHand, Terminals
    <3> QED
      BY <3>1, <3>2 DEF Paid, Busy, Named
  <2>2. CASE Assign(p)
    BY <2>2, LeavePaid DEF Assign, Goes, TypeOK
  <2> QED
    BY <1>4, <2>1, <2>2, StepPaid, LeavePaid DEF Reset
<1>5. ASSUME NEW p \in Callers, Enter(p) PROVE Paid'
  BY <1>5, EnterPaid
<1> QED
  BY <1>2, <1>3, <1>4, <1>5 DEF Next, WriteFails, SessionReset, Callers

\* Each caller has one descriptor in its hands.
LEMMA InHandCounted ==
  ASSUME IsFiniteSet(Active)
  PROVE  IsFiniteSet(InHand) /\ Cardinality(InHand) <= Cardinality(Active)
<1> DEFINE A == {q \in Callers : pc[q] = "assign"}
           F == [q \in A |-> fd[q]]
<1>1. A \in SUBSET Active
  BY DEF Active
<1>2. IsFiniteSet(A) /\ Cardinality(A) <= Cardinality(Active)
  BY <1>1, FS_Subset
<1>3. F \in Surjection(A, InHand)
  BY DEF Surjection, InHand
<1> HIDE DEF A, F
<1>4. IsFiniteSet(InHand) /\ Cardinality(InHand) <= Cardinality(A)
  BY <1>2, <1>3, FS_Surjection
<1> QED
  BY <1>2, <1>4, FS_CardinalityType

\* A terminal that serialfd has forgotten is never closed, but however many sessions reset the
\* port, among themselves and with the servo thread, each overlap of two calls loses one at most.
THEOREM OneLeakPerOverlapHolds == Spec => []OneLeakPerOverlap
<1>1. TypeOK /\ Paid => OneLeakPerOverlap
  <2> SUFFICES ASSUME TypeOK, Paid PROVE OneLeakPerOverlap
    OBVIOUS
  <2>1. /\ IsFiniteSet(Active) /\ Cardinality(Active) \in Nat
        /\ Cardinality(OnTheirOwn) \in Nat /\ Cardinality(Terminals) \in Nat
        /\ overlaps \in Int
    BY FiniteDescriptors, FS_CardinalityType, OverlapsAssumption DEF Paid, TypeOK
  <2>2. CASE NotYetClosed
    <3>1. OnTheirOwn = Terminals
      BY <2>2 DEF NotYetClosed, OnTheirOwn, InHand
    <3>2. Active # {} => Cardinality(Active) >= 1
      BY <2>1, FS_EmptySet
    <3>3. Cardinality(OnTheirOwn) + Cardinality(Active) <= overlaps + Busy + 1
      BY <2>1 DEF Paid, Named, Busy
    <3> QED
      BY <2>1, <3>1, <3>2, <3>3 DEF OneLeakPerOverlap, Busy
  <2>3. CASE ~NotYetClosed
    <3>1. Cardinality(OnTheirOwn) + Cardinality(Active) <= overlaps + 1
      BY <2>1, <2>3 DEF Paid, Named, Busy
    <3>2. /\ IsFiniteSet(InHand) /\ Cardinality(InHand) \in Nat
          /\ Cardinality(InHand) <= Cardinality(Active)
      BY <2>1, InHandCounted, FS_CardinalityType
    <3>3. /\ IsFiniteSet(OnTheirOwn \cup InHand)
          /\ Cardinality(OnTheirOwn \cup InHand) <= Cardinality(OnTheirOwn) + Cardinality(InHand)
      <4>1. /\ IsFiniteSet(OnTheirOwn \cap InHand)
            /\ Cardinality(OnTheirOwn \cap InHand) \in Nat
        BY <3>2, FiniteDescriptors, FS_Intersection, FS_CardinalityType
      <4> QED
        BY <2>1, <3>2, <4>1, FiniteDescriptors, FS_Union
    <3>4. Terminals \in SUBSET (OnTheirOwn \cup InHand)
      BY DEF OnTheirOwn
    <3>5. Cardinality(Terminals) <= Cardinality(OnTheirOwn \cup InHand)
      BY <3>3, <3>4, FS_Subset
    <3>6. Cardinality(OnTheirOwn \cup InHand) \in Nat
      BY <3>3, FS_CardinalityType
    <3> QED
      BY <2>1, <3>1, <3>2, <3>3, <3>5, <3>6 DEF OneLeakPerOverlap
  <2> QED
    BY <2>2, <2>3
<1>2. Init => Paid
  BY InitPaid
<1>3. TypeOK /\ Paid /\ [Next]_vars => Paid'
  BY PaidKept
<1> QED
  BY <1>1, <1>2, <1>3, TypeCorrect, PTL DEF Spec
=============================================================================
