--------------------------- MODULE ThreadPoolProofs ---------------------------
(***************************************************************************)
(* Proofs about ThreadPool, for any finite set of workers and any set of   *)
(* jobs.                                                                   *)
(***************************************************************************)
EXTENDS ThreadPool, FiniteSetTheorems, SequenceTheorems, TLAPS

\* Where the owner is says whether the pool runs, and what it finds before it starts.
OwnerFits ==
  /\ isRunning => opc = "running"
  /\ opc = "running" => isRunning
  /\ opc = "new" => stack = << >> /\ jobsSem = 0 /\ busyCnt = 0 /\ dpc = "idle" /\ At({"none"}) = Workers

\* A thread that has been joined has ended.
JoinedHaveEnded ==
  /\ opc \in {"cancel", "join"} => \A w \in Workers : w \in joining \/ w \in Ended
  /\ opc \in {"free", "released"} => \A w \in Workers : w \in Ended

TaskFits == \A w \in Workers : task[w] # NoJob <=> wpc[w] = "work"

Due == IF dpc = "post" THEN 1 ELSE 0

\* While the pool runs every permit, given or due, stands for a job of its own on the stack; a
\* thread past the test of isRunning keeps its job when the release posts permits without one.
PermitsHaveJobs ==
  /\ isRunning => Len(stack) >= jobsSem + Cardinality(At({"check", "lock"})) + Due
  /\ Len(stack) >= Cardinality(At({"lock"}))

BusyCounted == opc # "released" => busyCnt = Cardinality(Busy)

IInv == TypeOK /\ OwnerFits /\ JoinedHaveEnded /\ TaskFits /\ PermitsHaveJobs /\ BusyCounted

LEMMA AtFinite ==
  ASSUME NEW P
  PROVE  /\ IsFiniteSet(At(P)) /\ Cardinality(At(P)) \in Nat
         /\ IsFiniteSet(At(P)') /\ Cardinality(At(P)') \in Nat
<1>1. At(P) \in SUBSET Workers /\ At(P)' \in SUBSET Workers
  BY DEF At
<1> QED
  BY <1>1, WorkersAssumption, FS_Subset, FS_CardinalityType

\* How the number of threads at some points changes when one of them goes to another.
LEMMA AtMoved ==
  ASSUME wpc \in [Workers -> WorkerPoints], NEW w \in Workers, NEW q, NEW P, Goto(w, q)
  PROVE  Cardinality(At(P)') = Cardinality(At(P)) + (IF q \in P THEN 1 ELSE 0) - (IF wpc[w] \in P THEN 1 ELSE 0)
<1>1. At(P)' = IF q \in P THEN At(P) \cup {w} ELSE At(P) \ {w}
  BY DEF At, Goto
<1>2. w \in At(P) <=> wpc[w] \in P
  BY DEF At
<1>3. /\ Cardinality(At(P) \cup {w}) = IF w \in At(P) THEN Cardinality(At(P)) ELSE Cardinality(At(P)) + 1
      /\ Cardinality(At(P) \ {w}) = IF w \in At(P) THEN Cardinality(At(P)) - 1 ELSE Cardinality(At(P))
  BY AtFinite, FS_AddElement, FS_RemoveElement
<1> QED
  BY <1>1, <1>2, <1>3, AtFinite

LEMMA InitIInv == Init => IInv
<1> SUFFICES ASSUME Init PROVE IInv
  OBVIOUS
<1>1. TypeOK
  <2>1. wpc \in [Workers -> WorkerPoints] /\ task \in [Workers -> Jobs \cup {NoJob}] /\ stack \in Seq(Jobs)
    BY DEF Init, WorkerPoints
  <2>2. outcome \in [Jobs -> {"none", "finished", "aborted", "dropped"}]
    BY DEF Init
  <2> QED
    BY <2>1, <2>2 DEF Init, TypeOK, OwnerPoints, Results
<1>2. At({"none"}) = Workers /\ At({"check", "lock"}) = {} /\ At({"lock"}) = {} /\ Busy = {}
  BY DEF Init, At, Busy
<1>3. OwnerFits /\ JoinedHaveEnded /\ TaskFits
  BY <1>2 DEF Init, OwnerFits, JoinedHaveEnded, TaskFits
<1>4. Cardinality(At({"lock"})) = 0 /\ Cardinality(Busy) = 0
  BY <1>2, FS_EmptySet
<1>5. PermitsHaveJobs /\ BusyCounted
  BY <1>4 DEF Init, PermitsHaveJobs, BusyCounted
<1> QED
  BY <1>1, <1>3, <1>5 DEF IInv

\* A step of a worker to q keeps the counts, if the ones that q enters or leaves are kept too.
LEMMA WorkerKeepsIInv ==
  ASSUME IInv, NEW w \in Workers, Worker(w) \/ JobReturns(w)
  PROVE  IInv'
<1> DEFINE L == Cardinality(At({"lock"}))
           C == Cardinality(At({"check", "lock"}))
           B == Cardinality(Busy)
<1>1. TypeOK /\ OwnerFits /\ JoinedHaveEnded /\ TaskFits /\ PermitsHaveJobs /\ BusyCounted
  BY DEF IInv
<1>2. /\ wpc \in [Workers -> WorkerPoints] /\ Len(stack) \in Nat /\ jobsSem \in Nat
      /\ Due \in Nat /\ L \in Nat /\ C \in Nat /\ B \in Nat
  BY <1>1, AtFinite DEF TypeOK, Due, Busy
<1>3. ASSUME NEW q, Goto(w, q)
      PROVE  /\ L' = L + (IF q = "lock" THEN 1 ELSE 0) - (IF wpc[w] = "lock" THEN 1 ELSE 0)
             /\ C' = C + (IF q \in {"check", "lock"} THEN 1 ELSE 0) - (IF wpc[w] \in {"check", "lock"} THEN 1 ELSE 0)
             /\ B' = B + (IF q \in {"work", "finish", "aborted"} THEN 1 ELSE 0)
                       - (IF wpc[w] \in {"work", "finish", "aborted"} THEN 1 ELSE 0)
  <2>1. ASSUME NEW P
        PROVE  Cardinality(At(P)') = Cardinality(At(P)) + (IF q \in P THEN 1 ELSE 0) - (IF wpc[w] \in P THEN 1 ELSE 0)
    BY <1>2, <1>3, AtMoved
  <2>2. L' = L + (IF q \in {"lock"} THEN 1 ELSE 0) - (IF wpc[w] \in {"lock"} THEN 1 ELSE 0)
    BY <2>1
  <2>3. C' = C + (IF q \in {"check", "lock"} THEN 1 ELSE 0) - (IF wpc[w] \in {"check", "lock"} THEN 1 ELSE 0)
    BY <2>1
  <2>4. B' = B + (IF q \in {"work", "finish", "aborted"} THEN 1 ELSE 0)
               - (IF wpc[w] \in {"work", "finish", "aborted"} THEN 1 ELSE 0)
    BY <2>1 DEF Busy
  <2> QED
    BY <2>2, <2>3, <2>4
<1>4. w \notin Ended /\ wpc[w] # "none"
  BY DEF Worker, JobReturns, LoopTest, SemWait, RunningTest, PopJob, CountOut, CancelledWaiting,
    CancelledWorking, Ended, At
<1>5. opc \notin {"new", "free", "released"} /\ UNCHANGED <<isRunning, opc, joining, dpc>>
  <2>1. opc \notin {"new", "free", "released"}
    BY <1>1, <1>4 DEF OwnerFits, JoinedHaveEnded, At
  <2> QED
    BY <2>1 DEF Worker, JobReturns, LoopTest, SemWait, RunningTest, PopJob, CountOut, CancelledWaiting,
      CancelledWorking, poolVars, ownerVars
<1>6. PICK q : Goto(w, q) /\ q \in WorkerPoints
  BY DEF Worker, JobReturns, LoopTest, SemWait, RunningTest, PopJob, CountOut, CancelledWaiting,
    CancelledWorking, WorkerPoints
<1>7. OwnerFits' /\ JoinedHaveEnded'
  BY <1>1, <1>2, <1>4, <1>5, <1>6 DEF OwnerFits, JoinedHaveEnded, Goto, Ended, At
<1> SUFFICES TypeOK' /\ TaskFits' /\ PermitsHaveJobs' /\ BusyCounted'
  BY <1>7 DEF IInv
<1>8. wpc' \in [Workers -> WorkerPoints] /\ wpc' = [wpc EXCEPT ![w] = q]
  BY <1>2, <1>6 DEF Goto
<1> USE DEF TypeOK, TaskFits, PermitsHaveJobs, BusyCounted, Due, poolVars, ownerVars, histories
<1>9. CASE LoopTest(w)
  <2>1. q \in {"sem", "exited"} /\ wpc[w] = "loop"
    BY <1>2, <1>8, <1>9 DEF LoopTest, Goto
  <2>2. UNCHANGED <<task, cancelled, poolVars, dpc, ownerVars, histories>>
    BY <1>9 DEF LoopTest
  <2>3. L' = L /\ C' = C /\ B' = B
    BY <1>2, <1>3, <1>6, <2>1
  <2> QED
    BY <1>1, <1>8, <2>1, <2>2, <2>3
<1>10. CASE SemWait(w)
  <2>1. q = "check" /\ wpc[w] = "sem"
    BY <1>2, <1>8, <1>10 DEF SemWait, Goto
  <2>2. /\ UNCHANGED <<task, cancelled, isRunning, lockHeld, stack, busyCnt, dpc, ownerVars, histories>>
        /\ jobsSem > 0 /\ jobsSem' = jobsSem - 1
    BY <1>10 DEF SemWait
  <2>3. L' = L /\ C' = C + 1 /\ B' = B
    BY <1>2, <1>3, <1>6, <2>1
  <2> QED
    BY <1>1, <1>2, <1>8, <2>1, <2>2, <2>3
<1>11. CASE RunningTest(w)
  <2>1. wpc[w] = "check" /\ q = IF isRunning THEN "lock" ELSE "exited"
    BY <1>2, <1>8, <1>11 DEF RunningTest, Goto
  <2>2. UNCHANGED <<task, cancelled, poolVars, dpc, ownerVars, histories>>
    BY <1>11 DEF RunningTest
  <2>3. CASE isRunning
    <3>1. L' = L + 1 /\ C' = C /\ B' = B
      BY <1>2, <1>3, <1>6, <2>1, <2>3
    <3>2. L' <= C'
      <4>1. At({"lock"})' \subseteq At({"check", "lock"})'
        BY DEF At
      <4> QED
        BY <4>1, FS_Subset, AtFinite
    <3> QED
      BY <1>1, <1>2, <1>8, <2>1, <2>2, <2>3, <3>1, <3>2
  <2>4. CASE ~isRunning
    <3>1. L' = L /\ B' = B
      BY <1>2, <1>3, <1>6, <2>1, <2>4
    <3> QED
      BY <1>1, <1>2, <1>8, <2>1, <2>2, <2>4, <3>1
  <2> QED
    BY <2>3, <2>4
<1>12. CASE PopJob(w)
  <2>1. q = "work" /\ wpc[w] = "lock"
    BY <1>2, <1>8, <1>12 DEF PopJob, Goto
  <2>2. /\ UNCHANGED <<cancelled, isRunning, jobsSem, lockHeld, dpc, ownerVars, histories>>
        /\ stack # << >> /\ stack' = SubSeq(stack, 1, Len(stack) - 1)
        /\ task' = [task EXCEPT ![w] = stack[Len(stack)]] /\ busyCnt' = busyCnt + 1
    BY <1>12 DEF PopJob
  <2>3. stack' \in Seq(Jobs) /\ Len(stack') = Len(stack) - 1 /\ stack[Len(stack)] \in Jobs
    <3>1. stack \in Seq(Jobs) /\ Len(stack) \in Nat \ {0}
      BY <1>1, <2>2
    <3>2. \A i \in 1..Len(stack) - 1 : stack[i] \in Jobs
      BY <3>1
    <3>3. PICK n \in Nat : n = Len(stack) - 1
      BY <3>1
    <3>4. /\ SubSeq(stack, 1, n) \in Seq(Jobs)
          /\ Len(SubSeq(stack, 1, n)) = IF 1 <= n THEN n - 1 + 1 ELSE 0
      <4>1. \A i \in 1..n : stack[i] \in Jobs
        BY <3>2, <3>3
      <4>2. 1 \in Int /\ n \in Int
        OBVIOUS
      <4> QED
        BY <4>1, <4>2, SubSeqProperties
    <3> QED
      BY <2>2, <3>1, <3>3, <3>4
  <2>4. L' = L - 1 /\ C' = C - 1 /\ B' = B + 1
    BY <1>2, <1>3, <1>6, <2>1
  <2>5. TypeOK' /\ TaskFits'
    BY <1>1, <1>8, <2>1, <2>2, <2>3, NoJobAssumption
  <2> QED
    BY <1>1, <1>2, <1>5, <2>2, <2>3, <2>4, <2>5
<1>13. CASE JobReturns(w) \/ CancelledWorking(w)
  <2>1. q \in {"finish", "aborted"} /\ wpc[w] = "work"
    BY <1>2, <1>8, <1>13 DEF JobReturns, CancelledWorking, Goto
  <2>2. /\ UNCHANGED <<cancelled, poolVars, dpc, ownerVars>>
        /\ task' = [task EXCEPT ![w] = NoJob]
        /\ outcome' \in [Jobs -> {"none", "finished", "aborted", "dropped"}] /\ dispatched' = dispatched
    BY <1>1, <1>13 DEF JobReturns, CancelledWorking
  <2>3. L' = L /\ C' = C /\ B' = B
    BY <1>2, <1>3, <1>6, <2>1
  <2> QED
    BY <1>1, <1>8, <2>1, <2>2, <2>3
<1>14. CASE CountOut(w)
  <2>1. q = "loop" /\ wpc[w] = "finish"
    BY <1>2, <1>8, <1>14 DEF CountOut, Goto
  <2>2. /\ UNCHANGED <<task, cancelled, isRunning, jobsSem, lockHeld, stack, dpc, ownerVars, histories>>
        /\ busyCnt' = busyCnt - 1
    BY <1>14 DEF CountOut
  <2>3. L' = L /\ C' = C /\ B' = B - 1
    BY <1>2, <1>3, <1>6, <2>1
  <2>4. B' \in Nat
    BY AtFinite DEF Busy
  <2> QED
    BY <1>1, <1>2, <1>5, <1>8, <2>1, <2>2, <2>3, <2>4
<1>15. CASE CancelledWaiting(w)
  <2>1. q = "exited" /\ wpc[w] = "sem"
    BY <1>2, <1>8, <1>15 DEF CancelledWaiting, Goto
  <2>2. UNCHANGED <<task, cancelled, poolVars, dpc, ownerVars, histories>>
    BY <1>15 DEF CancelledWaiting
  <2>3. L' = L /\ C' = C /\ B' = B
    BY <1>2, <1>3, <1>6, <2>1
  <2> QED
    BY <1>1, <1>8, <2>1, <2>2, <2>3
<1> QED
  BY <1>9, <1>10, <1>11, <1>12, <1>13, <1>14, <1>15 DEF Worker

\* Steps in which no thread moves.
LEMMA AtUnchanged ==
  ASSUME UNCHANGED wpc
  PROVE  /\ At({"check", "lock"})' = At({"check", "lock"}) /\ At({"lock"})' = At({"lock"})
         /\ Busy' = Busy /\ Ended' = Ended
         /\ Cardinality(At({"check", "lock"})) \in Nat /\ Cardinality(At({"lock"})) \in Nat
BY AtFinite DEF At, Busy, Ended

LEMMA DispatcherKeepsIInv ==
  IInv /\ (DispatchPost \/ \E j \in Jobs : DispatchPush(j) \/ DispatchFails(j)) => IInv'
<1> SUFFICES ASSUME IInv, DispatchPost \/ \E j \in Jobs : DispatchPush(j) \/ DispatchFails(j) PROVE IInv'
  OBVIOUS
<1> USE DEF IInv, OwnerFits, JoinedHaveEnded, TaskFits, PermitsHaveJobs, BusyCounted, Due, workerVars, ownerVars,
  DispatchBegins
<1>1. Len(stack) \in Nat /\ jobsSem \in Nat
  BY DEF TypeOK
<1>2. ASSUME NEW j \in Jobs, DispatchPush(j) PROVE IInv'
  <2>1. stack' \in Seq(Jobs) /\ Len(stack') = Len(stack) + 1
    BY <1>2 DEF DispatchPush, TypeOK
  <2>2. TypeOK'
    BY <1>2, <2>1 DEF DispatchPush, TypeOK
  <2>3. OwnerFits' /\ JoinedHaveEnded' /\ TaskFits' /\ BusyCounted'
    BY <1>2, AtUnchanged DEF DispatchPush
  <2>4. PermitsHaveJobs'
    BY <1>1, <1>2, <2>1, AtUnchanged DEF DispatchPush
  <2> QED
    BY <2>2, <2>3, <2>4
<1>3. ASSUME NEW j \in Jobs, DispatchFails(j) PROVE IInv'
  <2>1. TypeOK'
    BY <1>3 DEF DispatchFails, TypeOK
  <2> QED
    BY <1>1, <1>3, <2>1, AtUnchanged DEF DispatchFails
<1>4. CASE DispatchPost
  <2>1. TypeOK'
    BY <1>1, <1>4 DEF DispatchPost, TypeOK, histories
  <2>2. OwnerFits' /\ JoinedHaveEnded' /\ TaskFits' /\ BusyCounted'
    BY <1>4, AtUnchanged DEF DispatchPost
  <2>3. PermitsHaveJobs'
    BY <1>1, <1>4, AtUnchanged DEF DispatchPost
  <2> QED
    BY <2>1, <2>2, <2>3
<1> QED
  BY <1>2, <1>3, <1>4

\* The owner changes no thread's place but in InitThreadPool, and no count but in KillFree.
LEMMA OwnerKeepsIInv ==
  ASSUME IInv, Owner \/ InitThreadPool \/ KillRunning \/ \E times \in WaitTimes : ReleaseThreadPool(times)
  PROVE  IInv'
<1> USE DEF IInv, OwnerFits, JoinedHaveEnded, TaskFits, PermitsHaveJobs, BusyCounted, Due, workerVars, poolVars, histories
<1>1. Len(stack) \in Nat /\ jobsSem \in Nat /\ Cardinality(Workers) \in Nat
  BY WorkersAssumption, FS_CardinalityType DEF TypeOK
<1>2. CASE InitThreadPool
  <2>1. wpc' = [w \in Workers |-> "loop"]
    BY <1>2 DEF InitThreadPool
  <2>2. At({"check", "lock"})' = {} /\ At({"lock"})' = {} /\ Busy' = {}
    BY <2>1 DEF At, Busy
  <2>3. Cardinality(At({"check", "lock"})') = 0 /\ Cardinality(At({"lock"})') = 0 /\ Cardinality(Busy') = 0
    BY <2>2, FS_EmptySet
  <2>4. TypeOK'
    BY <1>2, <2>1 DEF InitThreadPool, TypeOK, WorkerPoints, OwnerPoints
  <2>5. \A w \in Workers : task[w] = NoJob
    BY <1>2 DEF InitThreadPool, At
  <2>6. OwnerFits' /\ JoinedHaveEnded'
    BY <1>2 DEF InitThreadPool
  <2>7. TaskFits'
    BY <1>2, <2>1, <2>5 DEF InitThreadPool
  <2>8. PermitsHaveJobs' /\ BusyCounted'
    BY <1>1, <1>2, <2>3 DEF InitThreadPool
  <2> QED
    BY <2>4, <2>6, <2>7, <2>8
<1>3. ASSUME NEW times \in WaitTimes, ReleaseThreadPool(times) PROVE IInv'
  <2>1. TypeOK'
    BY <1>3, WaitTimesAssumption DEF ReleaseThreadPool, TypeOK, OwnerPoints
  <2> QED
    BY <1>1, <1>3, <2>1, AtUnchanged DEF ReleaseThreadPool
<1>4. CASE KillRunning \/ GiveUp \/ FoundIdle \/ FoundBusy
  <2>1. TypeOK'
    <3>1. CASE FoundBusy
      BY <3>1 DEF FoundBusy, TypeOK
    <3> QED
      BY <1>4, <3>1 DEF KillRunning, GiveUp, FoundIdle, TypeOK, OwnerPoints, Results
  <2> QED
    BY <1>1, <1>4, <2>1, AtUnchanged DEF KillRunning, GiveUp, FoundIdle, FoundBusy
<1>5. CASE KillPost
  <2>1. TypeOK'
    BY <1>1, <1>5 DEF KillPost, TypeOK, OwnerPoints
  <2> QED
    BY <1>1, <1>5, <2>1, AtUnchanged DEF KillPost
<1>6. ASSUME NEW w \in Workers, KillCancel(w) \/ KillJoin(w) PROVE IInv'
  <2>1. TypeOK'
    BY <1>6 DEF KillCancel, KillJoin, TypeOK, OwnerPoints
  <2> QED
    BY <1>1, <1>6, <2>1, AtUnchanged DEF KillCancel, KillJoin
<1>7. CASE KillFree
  <2>1. At({"lock"})' = {}
    BY <1>7 DEF KillFree, At, Ended
  <2>2. Cardinality(At({"lock"})') = 0
    BY <2>1, FS_EmptySet
  <2>3. stack' = << >> /\ UNCHANGED <<wpc, task, cancelled, dpc, waitTimes, tryCnt, joining, result, dispatched>>
    BY <1>7 DEF KillFree
  <2>4. outcome' \in [Jobs -> {"none", "finished", "aborted", "dropped"}]
    BY <1>7 DEF KillFree, TypeOK
  <2>5. TypeOK'
    <3>1. stack' \in Seq(Jobs) /\ busyCnt' \in Nat /\ jobsSem' \in Nat
      BY <1>7 DEF KillFree
    <3> QED
      BY <1>7, <2>3, <2>4, <3>1 DEF KillFree, TypeOK, OwnerPoints
  <2> QED
    BY <1>7, <2>2, <2>3, <2>5, AtUnchanged DEF KillFree
<1> QED
  BY <1>2, <1>3, <1>4, <1>5, <1>6, <1>7 DEF Owner

LEMMA NextKeepsIInv == IInv /\ [Next]_vars => IInv'
<1> SUFFICES ASSUME IInv, [Next]_vars PROVE IInv'
  OBVIOUS
<1>1. CASE UNCHANGED vars
  BY <1>1, AtUnchanged DEF vars, workerVars, poolVars, ownerVars, histories, IInv, TypeOK, OwnerFits, JoinedHaveEnded,
    TaskFits, PermitsHaveJobs, BusyCounted, Due, At
<1> QED
  BY <1>1, WorkerKeepsIInv, DispatcherKeepsIInv, OwnerKeepsIInv DEF Next

LEMMA SpecIInv == Spec => []IInv
BY InitIInv, NextKeepsIInv, PTL DEF Spec

\* Every variable keeps its type: neither the semaphore nor busyCnt ever falls below zero.
THEOREM TypeCorrect == Spec => []TypeOK
<1>1. IInv => TypeOK
  BY DEF IInv
<1> QED
  BY <1>1, SpecIInv, PTL

\* A thread that is about to pop finds a job, and busyCnt counts the busy threads, for any number
\* of threads and of jobs dispatched while the pool runs and while it is released.
THEOREM CountsAlwaysAgree == Spec => []CountsAgree
<1>1. IInv => CountsAgree
  <2> SUFFICES ASSUME IInv, NEW w \in Workers, wpc[w] = "lock" PROVE stack # << >>
    BY DEF IInv, BusyCounted, CountsAgree
  <2>1. w \in At({"lock"})
    BY DEF At
  <2>2. Cardinality(At({"lock"})) # 0
    BY <2>1, AtFinite, FS_EmptySet
  <2> QED
    BY <2>2, AtFinite DEF IInv, PermitsHaveJobs, TypeOK
<1> QED
  BY <1>1, SpecIInv, PTL

\* What KillAllThreadImme frees no thread can touch any more.
THEOREM NothingFreedUnderAThread == Spec => []FreedAfterThreads
<1>1. IInv => FreedAfterThreads
  BY DEF IInv, JoinedHaveEnded, FreedAfterThreads
<1> QED
  BY <1>1, SpecIInv, PTL

(***************************************************************************)
(* The pool implements JobPool                                             *)
(***************************************************************************)

\* A thread is cancelled only once the outcome of the release is known, and a release is normal
\* only if no job runs, which the lock keeps so.
ReleaseFits ==
  /\ cancelled # {} => opc \notin {"new", "running", "try", "post"}
  /\ result = "NONE" => opc \in {"new", "running", "try"}
  /\ opc \in {"new", "running", "try"} => result = "NONE"
  /\ result = "PTP_RETURN_RELEASE_NORMAL" /\ opc # "released" =>
       lockHeld /\ \A w \in Workers : wpc[w] \notin {"work", "finish"}

LEMMA InitJobs == Init => EachJobOnce /\ ReleaseFits
BY NoJobAssumption DEF Init, EachJobOnce, ReleaseFits, Elements, InPool

LEMMA PopElements ==
  ASSUME IInv, NEW w \in Workers, PopJob(w)
  PROVE  /\ Len(stack) \in Nat \ {0} /\ Len(stack') = Len(stack) - 1
         /\ \A i \in 1..Len(stack') : stack'[i] = stack[i]
         /\ Elements(stack) = Elements(stack') \cup {stack[Len(stack)]}
<1>1. stack \in Seq(Jobs) /\ stack # << >> /\ stack' = SubSeq(stack, 1, Len(stack) - 1)
  BY DEF IInv, TypeOK, PopJob
<1>2. Len(stack) \in Nat \ {0}
  BY <1>1
<1>3. PICK n \in Nat : n = Len(stack) - 1
  BY <1>2
<1>4. /\ Len(SubSeq(stack, 1, n)) = IF 1 <= n THEN n - 1 + 1 ELSE 0
      /\ \A i \in 1..n - 1 + 1 : SubSeq(stack, 1, n)[i] = stack[1 + i - 1]
  <2>1. \A i \in 1..n : stack[i] \in Jobs
    BY <1>1, <1>3
  <2>2. 1 \in Int /\ n \in Int
    OBVIOUS
  <2> QED
    BY <2>1, <2>2, SubSeqProperties
<1>5. Len(stack') = n /\ \A i \in 1..n : stack'[i] = stack[i]
  BY <1>1, <1>3, <1>4
<1> QED
  BY <1>2, <1>3, <1>5 DEF Elements

LEMMA JobsKept == IInv /\ EachJobOnce /\ [Next]_vars => EachJobOnce'
<1> SUFFICES ASSUME IInv, EachJobOnce, [Next]_vars PROVE EachJobOnce'
  OBVIOUS
<1> USE DEF EachJobOnce
<1>1. TypeOK /\ TaskFits
  BY DEF IInv
<1>2. ASSUME UNCHANGED <<stack, task, histories>> PROVE EachJobOnce'
  BY <1>2 DEF Elements, InPool, histories
<1>3. ASSUME NEW j \in Jobs, DispatchPush(j) PROVE EachJobOnce'
  <2>1. /\ stack' = Append(stack, j) /\ task' = task /\ stack \in Seq(Jobs)
        /\ outcome' = [outcome EXCEPT ![j] = "none"] /\ dispatched' = dispatched \cup {j}
        /\ j \notin Elements(stack) /\ \A w \in Workers : task[w] # j
    BY <1>1, <1>3 DEF DispatchPush, DispatchBegins, InPool, TypeOK, workerVars
  <2>2. /\ Len(stack) \in Nat /\ Len(stack') = Len(stack) + 1
        /\ stack'[Len(stack) + 1] = j /\ \A i \in 1..Len(stack) : stack'[i] = stack[i]
    BY <2>1
  <2>3. Elements(stack') = Elements(stack) \cup {j}
    BY <2>2 DEF Elements
  <2>4. \A i, k \in 1..Len(stack') : stack'[i] = stack'[k] => i = k
    BY <2>1, <2>2 DEF Elements
  <2>5. \A k \in Jobs : outcome'[k] = IF k = j THEN "none" ELSE outcome[k]
    BY <1>1, <2>1 DEF TypeOK
  <2>6. \A k \in Jobs : InPool(k)' <=> InPool(k) \/ k = j
    BY <2>1, <2>3 DEF InPool, Elements
  <2> HIDE DEF EachJobOnce
  <2>7. \A k \in Jobs : k \in dispatched' <=> InPool(k)' \/ outcome'[k] # "none"
    BY <2>1, <2>5, <2>6 DEF EachJobOnce
  <2>8. \A k \in Jobs : outcome'[k] # "none" =>
          k \notin Elements(stack') /\ \A w \in Workers : task'[w] # k
    BY <2>1, <2>3, <2>5 DEF EachJobOnce
  <2>9. \A w \in Workers : task'[w] \notin Elements(stack')
    BY <2>1, <2>3 DEF EachJobOnce
  <2> QED
    BY <2>1, <2>4, <2>7, <2>8, <2>9 DEF EachJobOnce, Elements
<1>4. ASSUME NEW w \in Workers, PopJob(w) PROVE EachJobOnce'
  <2>1. /\ task' = [task EXCEPT ![w] = stack[Len(stack)]] /\ UNCHANGED <<outcome, dispatched>>
        /\ task \in [Workers -> Jobs \cup {NoJob}]
    BY <1>1, <1>4 DEF PopJob, TypeOK, histories
  <2>2. /\ stack[Len(stack)] \in Elements(stack)
        /\ stack[Len(stack)] \notin Elements(stack')
    BY <1>4, PopElements DEF Elements
  <2>3. \A i, k \in 1..Len(stack') : stack'[i] = stack'[k] => i = k
    BY <1>4, PopElements
  <2>4. Elements(stack) = Elements(stack') \cup {stack[Len(stack)]}
    BY <1>4, PopElements
  <2>5. \A v \in Workers : task'[v] = IF v = w THEN stack[Len(stack)] ELSE task[v]
    BY <2>1
  <2>6. task[w] = NoJob
    BY <1>1, <1>4 DEF PopJob, TaskFits
  <2>7. \A k \in Jobs : InPool(k)' <=> InPool(k)
    BY <2>4, <2>5, <2>6, NoJobAssumption DEF InPool, Elements
  <2> HIDE DEF EachJobOnce
  <2>8. \A u, v \in Workers : task'[u] = task'[v] /\ task'[u] # NoJob => u = v
    BY <2>2, <2>5 DEF EachJobOnce
  <2>9. \A k \in Jobs : outcome'[k] # "none" =>
          k \notin Elements(stack') /\ \A v \in Workers : task'[v] # k
    BY <2>1, <2>2, <2>4, <2>5 DEF EachJobOnce
  <2>10. \A v \in Workers : task'[v] \notin Elements(stack')
    BY <2>2, <2>4, <2>5 DEF EachJobOnce
  <2>11. \A k \in Jobs : k \in dispatched' <=> InPool(k)' \/ outcome'[k] # "none"
    BY <2>1, <2>7 DEF EachJobOnce
  <2> QED
    BY <2>3, <2>8, <2>9, <2>10, <2>11 DEF EachJobOnce, Elements
<1>5. ASSUME NEW w \in Workers, JobReturns(w) \/ CancelledWorking(w) PROVE EachJobOnce'
  <2>1. /\ task' = [task EXCEPT ![w] = NoJob] /\ task[w] # NoJob /\ UNCHANGED <<stack, dispatched>>
        /\ outcome'[task[w]] # "none" /\ \A j \in Jobs \ {task[w]} : outcome'[j] = outcome[j]
    BY <1>1, <1>5 DEF JobReturns, CancelledWorking, TypeOK, TaskFits, poolVars
  <2>2. NoJob \notin Elements(stack) /\ task \in [Workers -> Jobs \cup {NoJob}]
    BY <1>1, NoJobAssumption DEF TypeOK, Elements
  <2>3. \A v \in Workers : task'[v] = IF v = w THEN NoJob ELSE task[v]
    BY <2>1, <2>2
  <2>4. Elements(stack)' = Elements(stack)
    BY <2>1 DEF Elements
  <2>5. \A k \in Jobs \ {task[w]} : InPool(k)' <=> InPool(k)
    BY <2>3, <2>4, NoJobAssumption DEF InPool
  <2>6. InPool(task[w])
    BY DEF InPool
  <2> HIDE DEF EachJobOnce
  <2>7. \A k \in Jobs : k \in dispatched' <=> InPool(k)' \/ outcome'[k] # "none"
    BY <2>1, <2>2, <2>5, <2>6 DEF EachJobOnce
  <2>8. \A k \in Jobs : outcome'[k] # "none" =>
          k \notin Elements(stack)' /\ \A v \in Workers : task'[v] # k
    BY <2>1, <2>2, <2>3, <2>4, NoJobAssumption DEF EachJobOnce
  <2> QED
    BY <2>1, <2>2, <2>3, <2>4, <2>7, <2>8 DEF EachJobOnce
<1>6. CASE KillFree
  <2>1. /\ stack' = << >> /\ UNCHANGED <<task, dispatched>>
        /\ \A j \in Jobs : outcome'[j] = IF j \in Elements(stack) THEN "dropped" ELSE outcome[j]
    BY <1>6 DEF KillFree, workerVars
  <2>2. Elements(stack)' = {}
    BY <2>1 DEF Elements
  <2>3. \A i, k \in 1..Len(stack') : stack'[i] = stack'[k] => i = k
    BY <2>1
  <2>4. \A k \in Jobs : InPool(k)' <=> \E w \in Workers : task[w] = k
    BY <2>1, <2>2 DEF InPool
  <2> HIDE DEF EachJobOnce
  <2>5. \A k \in Jobs : k \in dispatched' <=> InPool(k)' \/ outcome'[k] # "none"
    BY <2>1, <2>4 DEF EachJobOnce, InPool
  <2>6. \A k \in Jobs : outcome'[k] # "none" =>
          k \notin Elements(stack)' /\ \A w \in Workers : task'[w] # k
    BY <2>1, <2>2 DEF EachJobOnce
  <2> QED
    BY <2>1, <2>2, <2>3, <2>5, <2>6 DEF EachJobOnce
<1>7. CASE UNCHANGED vars
  BY <1>2, <1>7 DEF vars, workerVars, poolVars
<1>8. CASE InitThreadPool \/ KillRunning \/ DispatchPost \/ GiveUp \/ FoundIdle \/ FoundBusy \/ KillPost
  BY <1>2, <1>8 DEF InitThreadPool, KillRunning, DispatchPost, GiveUp, FoundIdle, FoundBusy, KillPost,
    workerVars, poolVars
<1>9. ASSUME NEW times \in WaitTimes, ReleaseThreadPool(times) PROVE EachJobOnce'
  BY <1>2, <1>9 DEF ReleaseThreadPool, workerVars
<1>10. ASSUME NEW w \in Workers, KillCancel(w) \/ KillJoin(w) \/ LoopTest(w) \/ SemWait(w) \/ RunningTest(w)
                                   \/ CountOut(w) \/ CancelledWaiting(w)
       PROVE  EachJobOnce'
  BY <1>2, <1>10 DEF KillCancel, KillJoin, LoopTest, SemWait, RunningTest, CountOut, CancelledWaiting,
    workerVars, poolVars
<1>11. ASSUME NEW j \in Jobs, DispatchFails(j) PROVE EachJobOnce'
  <2>1. /\ UNCHANGED <<stack, task>> /\ ~InPool(j)
        /\ outcome' = [outcome EXCEPT ![j] = "dropped"] /\ dispatched' = dispatched \cup {j}
    BY <1>11 DEF DispatchFails, DispatchBegins, workerVars
  <2>2. \A k \in Jobs : outcome'[k] = IF k = j THEN "dropped" ELSE outcome[k]
    BY <1>1, <2>1 DEF TypeOK
  <2>3. Elements(stack)' = Elements(stack) /\ \A k \in Jobs : InPool(k)' <=> InPool(k)
    BY <2>1 DEF InPool, Elements
  <2> QED
    BY <2>1, <2>2, <2>3 DEF InPool
<1> QED
  BY <1>3, <1>4, <1>5, <1>6, <1>7, <1>8, <1>9, <1>10, <1>11 DEF Next, Owner, Worker

LEMMA ReleaseKept == IInv /\ ReleaseFits /\ [Next]_vars => ReleaseFits'
<1> SUFFICES ASSUME IInv, ReleaseFits, [Next]_vars PROVE ReleaseFits'
  OBVIOUS
<1> USE DEF ReleaseFits
<1>1. TypeOK /\ OwnerFits /\ BusyCounted
  BY DEF IInv
<1>2. ASSUME UNCHANGED <<cancelled, opc, result, lockHeld, wpc>> PROVE ReleaseFits'
  BY <1>2
<1>3. ASSUME NEW w \in Workers, Worker(w) \/ JobReturns(w) PROVE ReleaseFits'
  <2>1. UNCHANGED <<cancelled, opc, result, lockHeld>>
    BY <1>3 DEF Worker, JobReturns, LoopTest, SemWait, RunningTest, PopJob, CountOut, CancelledWaiting,
      CancelledWorking, poolVars, ownerVars
  <2>2. PICK q : /\ wpc' = [wpc EXCEPT ![w] = q]
                 /\ q \in {"work", "finish"} => ~lockHeld \/ wpc[w] = "work"
    BY <1>3 DEF Worker, JobReturns, LoopTest, SemWait, RunningTest, PopJob, CountOut, CancelledWaiting,
      CancelledWorking, Goto
  <2> QED
    BY <1>1, <2>1, <2>2 DEF TypeOK
<1>4. CASE FoundIdle
  <2>1. Busy = {}
    BY <1>1, <1>4, AtFinite, FS_EmptySet DEF FoundIdle, BusyCounted, Busy
  <2> QED
    BY <1>4, <2>1 DEF FoundIdle, Busy, At, workerVars
<1>5. CASE InitThreadPool
  BY <1>1, <1>5 DEF InitThreadPool
<1>6. CASE KillRunning \/ GiveUp \/ KillPost \/ KillFree
  BY <1>6 DEF KillRunning, GiveUp, KillPost, KillFree, workerVars, poolVars
<1>7. ASSUME NEW times \in WaitTimes, ReleaseThreadPool(times) PROVE ReleaseFits'
  BY <1>7 DEF ReleaseThreadPool, workerVars
<1>8. ASSUME NEW w \in Workers, KillCancel(w) \/ KillJoin(w) PROVE ReleaseFits'
  BY <1>8 DEF KillCancel, KillJoin, workerVars, poolVars
<1>9. ASSUME DispatchPost \/ FoundBusy \/ UNCHANGED vars \/ \E j \in Jobs : DispatchPush(j) \/ DispatchFails(j)
      PROVE  ReleaseFits'
  BY <1>2, <1>9 DEF DispatchPost, FoundBusy, DispatchPush, DispatchFails, DispatchBegins, vars, workerVars, poolVars, ownerVars
<1> QED
  BY <1>3, <1>4, <1>5, <1>6, <1>7, <1>8, <1>9 DEF Next, Owner

LEMMA SpecJobs == Spec => [](IInv /\ EachJobOnce /\ ReleaseFits)
BY InitIInv, NextKeepsIInv, InitJobs, JobsKept, ReleaseKept, PTL DEF Spec

\* A dispatched job is in one place, and stays in the pool until it has an outcome: none is lost
\* between DispatchJobs, the stack, a thread and the release, and none is taken twice.
THEOREM EachJobIsOnce == Spec => []EachJobOnce
BY SpecJobs, PTL

LEMMA JobStateIs ==
  ASSUME NEW j \in Jobs
  PROVE  /\ jobState[j] = IF outcome[j] # "none" THEN outcome[j]
                          ELSE IF \E w \in Workers : task[w] = j THEN "active"
                          ELSE IF j \notin Elements(stack) THEN "new"
                          ELSE IF opc = "released" THEN "dropped" ELSE "waiting"
         /\ jobState'[j] = IF outcome'[j] # "none" THEN outcome'[j]
                           ELSE IF \E w \in Workers : task'[w] = j THEN "active"
                           ELSE IF j \notin Elements(stack') THEN "new"
                           ELSE IF opc' = "released" THEN "dropped" ELSE "waiting"
BY DEF jobState, Elements

LEMMA JobStateFunctions == jobState = [j \in Jobs |-> jobState[j]] /\ jobState' = [j \in Jobs |-> jobState'[j]]
BY DEF jobState

\* Each active job has a thread of its own, so that a thread without one is to spare.
LEMMA ThreadToSpare ==
  ASSUME IInv, NEW w \in Workers, wpc[w] = "lock"
  PROVE  Cardinality({k \in Jobs : jobState[k] = "active"}) < Cardinality(Workers)
<1> DEFINE A == {k \in Jobs : jobState[k] = "active"}
           T == Workers \ {w}
           f == [k \in A |-> CHOOSE v \in Workers : task[v] = k]
<1>1. \A k \in A : \E v \in Workers : task[v] = k
  BY JobStateIs DEF IInv, TypeOK
<1>2. task[w] = NoJob
  BY DEF IInv, TaskFits
<1>3. \A k \in A : f[k] \in T /\ task[f[k]] = k
  BY <1>1, <1>2, NoJobAssumption
<1>4. f \in Injection(A, T)
  <2>1. f \in [A -> T] /\ DOMAIN f = A
    BY <1>3
  <2>2. IsInjective(f)
    <3> HIDE DEF f
    <3> QED
      BY <1>3, <2>1 DEF IsInjective
  <2> QED
    BY <2>1, <2>2 DEF Injection
<1>5. IsFiniteSet(T) /\ Cardinality(T) = Cardinality(Workers) - 1 /\ Cardinality(Workers) \in Nat
  BY WorkersAssumption, FS_RemoveElement, FS_CardinalityType
<1>6. IsFiniteSet(A) /\ Cardinality(A) <= Cardinality(T)
  <2> HIDE DEF A, T, f
  <2> QED
    BY <1>4, <1>5, FS_Injection
<1> QED
  BY <1>5, <1>6, FS_CardinalityType

LEMMA SameCardinality == \A S : Abstract!Cardinality(S) = Cardinality(S)
BY DEF Abstract!Cardinality, Cardinality

LEMMA InitRefines == Init => Abstract!Init
<1> SUFFICES ASSUME Init PROVE Abstract!Init
  OBVIOUS
<1>1. \A j \in Jobs : jobState[j] = "new"
  BY JobStateIs, NoJobAssumption DEF Init, Elements
<1>2. poolPhase = "open"
  BY DEF Init, poolPhase
<1> QED
  BY <1>1, <1>2, JobStateFunctions DEF Abstract!Init

\* Each step of the pool is one of JobPool or changes nothing JobPool knows of.
LEMMA NextRefines ==
  IInv /\ EachJobOnce /\ ReleaseFits /\ [Next]_vars => [Abstract!Next]_(Abstract!vars)
<1> SUFFICES ASSUME IInv, EachJobOnce, ReleaseFits, [Next]_vars
             PROVE  Abstract!Next \/ UNCHANGED <<jobState, poolPhase>>
  BY DEF Abstract!vars
<1>1. TypeOK /\ OwnerFits /\ JoinedHaveEnded /\ TaskFits
  BY DEF IInv
\* One job changes its state, and the phase stays.
<1>2. ASSUME NEW j \in Jobs, NEW s, \A k \in Jobs : jobState'[k] = IF k = j THEN s ELSE jobState[k]
      PROVE  Abstract!Become(j, s)
  BY <1>2, JobStateFunctions DEF Abstract!Become
<1>3. ASSUME UNCHANGED <<stack, task, outcome>>, opc' = "released" <=> opc = "released"
      PROVE  jobState' = jobState
  BY <1>3 DEF jobState, Elements
<1>4. ASSUME UNCHANGED <<opc, result>> PROVE poolPhase' = poolPhase
  BY <1>4 DEF poolPhase
<1>5. ASSUME NEW j \in Jobs, DispatchPush(j) \/ DispatchFails(j)
      PROVE  Abstract!Submit(j) \/ Abstract!SubmitLate(j)
  <2>1. /\ UNCHANGED <<task, opc, result>> /\ stack \in Seq(Jobs)
        /\ j \notin Elements(stack) /\ \A w \in Workers : task[w] # j
    BY <1>1, <1>5 DEF DispatchPush, DispatchFails, DispatchBegins, InPool, TypeOK, workerVars, ownerVars
  <2>2. Abstract!Idle(j)
    BY <1>1, <2>1, JobStateIs DEF Abstract!Idle, TypeOK
  <2>3. poolPhase' = poolPhase /\ (poolPhase = "closed" <=> opc = "released")
    BY <1>4, <2>1 DEF poolPhase
  <2>4. ASSUME DispatchPush(j)
        PROVE  \A k \in Jobs : jobState'[k] = IF k # j THEN jobState[k]
                                             ELSE IF opc = "released" THEN "dropped" ELSE "waiting"
    <3>1. stack' = Append(stack, j) /\ outcome' = [outcome EXCEPT ![j] = "none"]
      BY <2>4 DEF DispatchPush
    <3>2. Elements(stack') = Elements(stack) \cup {j}
      <4>1. /\ Len(stack) \in Nat /\ Len(stack') = Len(stack) + 1
            /\ stack'[Len(stack) + 1] = j /\ \A i \in 1..Len(stack) : stack'[i] = stack[i]
        BY <2>1, <3>1
      <4> QED
        BY <4>1 DEF Elements
    <3>3. \A k \in Jobs : outcome'[k] = IF k = j THEN "none" ELSE outcome[k]
      BY <1>1, <3>1 DEF TypeOK
    <3> QED
      BY <2>1, <3>2, <3>3, JobStateIs
  <2>5. ASSUME DispatchFails(j)
        PROVE  /\ opc = "released"
               /\ \A k \in Jobs : jobState'[k] = IF k = j THEN "dropped" ELSE jobState[k]
    <3>1. opc = "released" /\ stack' = stack /\ outcome' = [outcome EXCEPT ![j] = "dropped"]
      BY <2>5 DEF DispatchFails
    <3>2. \A k \in Jobs : outcome'[k] = IF k = j THEN "dropped" ELSE outcome[k]
      BY <1>1, <3>1 DEF TypeOK
    <3> QED
      BY <2>1, <3>1, <3>2, JobStateIs
  <2>6. CASE opc # "released"
    <3>1. Abstract!Become(j, "waiting")
      BY <1>2, <1>5, <2>4, <2>5, <2>6
    <3> QED
      BY <2>2, <2>3, <2>6, <3>1 DEF Abstract!Submit
  <2>7. CASE opc = "released"
    <3>1. Abstract!Become(j, "dropped")
      BY <1>2, <1>5, <2>4, <2>5, <2>7
    <3> QED
      BY <2>2, <2>3, <2>7, <3>1 DEF Abstract!SubmitLate
  <2> QED
    BY <2>6, <2>7
<1>6. ASSUME NEW w \in Workers, PopJob(w) PROVE Abstract!Start(stack[Len(stack)])
  <2> DEFINE j == stack[Len(stack)]
  <2>1. /\ task' = [task EXCEPT ![w] = j] /\ UNCHANGED <<outcome, opc, result>> /\ wpc[w] = "lock"
        /\ task \in [Workers -> Jobs \cup {NoJob}] /\ task[w] = NoJob
    BY <1>1, <1>6 DEF PopJob, TypeOK, TaskFits, ownerVars, histories
  <2>2. /\ j \in Elements(stack) /\ j \in Jobs
        /\ Elements(stack) = Elements(stack') \cup {j} /\ j \notin Elements(stack')
    BY <1>1, <1>6, PopElements DEF Elements, EachJobOnce, TypeOK
  <2>3. outcome[j] = "none" /\ \A v \in Workers : task[v] # j
    BY <2>1, <2>2 DEF EachJobOnce
  <2>4. jobState[j] = "waiting" /\ \A k \in Jobs : jobState'[k] = IF k = j THEN "active" ELSE jobState[k]
    <3>1. opc # "released"
      BY <1>1, <2>1 DEF JoinedHaveEnded, Ended, At
    <3> HIDE DEF j
    <3> QED
      BY <2>1, <2>2, <2>3, <3>1, JobStateIs, NoJobAssumption
  <2>5. Cardinality({k \in Jobs : jobState[k] = "active"}) < Cardinality(Workers)
    BY <2>1, ThreadToSpare
  <2>6. poolPhase # "closed"
    BY <1>1, <2>1 DEF poolPhase, JoinedHaveEnded, Ended, At
  <2>7. Abstract!Become(j, "active")
    BY <1>2, <2>2, <2>4
  <2>8. poolPhase' = poolPhase
    BY <1>4, <2>1
  <2> HIDE DEF j
  <2>9. Abstract!Start(j)
    BY <2>4, <2>5, <2>6, <2>7, <2>8, SameCardinality DEF Abstract!Start
  <2> QED
    BY <2>9 DEF j
<1>7. ASSUME NEW w \in Workers, JobReturns(w) PROVE Abstract!Finish(task[w])
  <2>1. /\ task' = [task EXCEPT ![w] = NoJob] /\ outcome' = [outcome EXCEPT ![task[w]] = "finished"]
        /\ UNCHANGED <<stack, opc, result>> /\ task[w] # NoJob /\ task[w] \in Jobs
        /\ task \in [Workers -> Jobs \cup {NoJob}]
        /\ outcome \in [Jobs -> {"none", "finished", "aborted", "dropped"}]
    BY <1>1, <1>7 DEF JobReturns, TypeOK, TaskFits, poolVars, ownerVars
  <2>2. /\ jobState[task[w]] = "active"
        /\ \A k \in Jobs : jobState'[k] = IF k = task[w] THEN "finished" ELSE jobState[k]
    BY <2>1, JobStateIs, NoJobAssumption DEF EachJobOnce
  <2> QED
    BY <1>2, <1>4, <2>1, <2>2 DEF Abstract!Finish
<1>8. ASSUME NEW w \in Workers, CancelledWorking(w) PROVE Abstract!Abort(task[w])
  <2>1. /\ task' = [task EXCEPT ![w] = NoJob] /\ outcome' = [outcome EXCEPT ![task[w]] = "aborted"]
        /\ UNCHANGED <<stack, opc, result>> /\ task[w] # NoJob /\ task[w] \in Jobs
        /\ task \in [Workers -> Jobs \cup {NoJob}]
        /\ outcome \in [Jobs -> {"none", "finished", "aborted", "dropped"}]
    BY <1>1, <1>8 DEF CancelledWorking, TypeOK, TaskFits, poolVars, ownerVars
  <2>2. /\ jobState[task[w]] = "active"
        /\ \A k \in Jobs : jobState'[k] = IF k = task[w] THEN "aborted" ELSE jobState[k]
    BY <2>1, JobStateIs, NoJobAssumption DEF EachJobOnce
  <2>3. poolPhase = "forced"
    BY <1>1, <1>8 DEF CancelledWorking, ReleaseFits, JoinedHaveEnded, Ended, At, TypeOK, Results, poolPhase
  <2> QED
    BY <1>2, <1>4, <2>1, <2>2, <2>3 DEF Abstract!Abort
<1>9. ASSUME KillFree PROVE Abstract!Close
  <2>1. /\ stack' = << >> /\ task' = task /\ opc = "free" /\ opc' = "released" /\ result' = result
        /\ \A j \in Jobs : outcome'[j] = IF j \in Elements(stack) THEN "dropped" ELSE outcome[j]
    BY <1>9 DEF KillFree, workerVars
  <2>2. \A w \in Workers : task[w] = NoJob
    BY <1>1, <2>1 DEF JoinedHaveEnded, Ended, At, TaskFits
  <2>3. Elements(stack') = {}
    BY <2>1 DEF Elements
  <2>4. \A j \in Jobs : /\ jobState[j] # "active"
                        /\ jobState'[j] = IF jobState[j] = "waiting" THEN "dropped" ELSE jobState[j]
    <3> SUFFICES ASSUME NEW j \in Jobs
                 PROVE  /\ jobState[j] # "active"
                        /\ jobState'[j] = IF jobState[j] = "waiting" THEN "dropped" ELSE jobState[j]
      OBVIOUS
    <3>1. outcome[j] \in {"none", "finished", "aborted", "dropped"}
      BY <1>1 DEF TypeOK
    <3>2. ~ \E w \in Workers : task[w] = j
      BY <2>2, NoJobAssumption
    <3>3. j \in Elements(stack) => outcome[j] = "none"
      BY DEF EachJobOnce
    <3> QED
      BY <2>1, <2>3, <3>1, <3>2, <3>3, JobStateIs
  <2>5. poolPhase \in {"draining", "forced"} /\ poolPhase' = "closed"
    BY <2>1 DEF poolPhase
  <2> QED
    BY <2>4, <2>5, JobStateFunctions DEF Abstract!Close
<1>10. ASSUME NEW times \in WaitTimes, ReleaseThreadPool(times) PROVE Abstract!Drain
  <2>1. jobState' = jobState
    BY <1>3, <1>10 DEF ReleaseThreadPool, workerVars, histories
  <2>2. poolPhase = "open" /\ poolPhase' = "draining"
    BY <1>10 DEF ReleaseThreadPool, poolPhase, ReleaseFits
  <2> QED
    BY <2>1, <2>2 DEF Abstract!Drain
<1>11. ASSUME KillRunning \/ GiveUp PROVE Abstract!Force
  <2>1. jobState' = jobState
    BY <1>3, <1>11 DEF KillRunning, GiveUp, workerVars, poolVars, histories
  <2>2. poolPhase \in {"open", "draining"} /\ poolPhase' = "forced"
    BY <1>11 DEF KillRunning, GiveUp, poolPhase, ReleaseFits
  <2> QED
    BY <2>1, <2>2 DEF Abstract!Force
<1>12. ASSUME InitThreadPool \/ FoundIdle \/ KillPost PROVE UNCHANGED <<jobState, poolPhase>>
  <2>1. jobState' = jobState
    BY <1>3, <1>12 DEF InitThreadPool, FoundIdle, KillPost, workerVars, histories
  <2>2. poolPhase' = poolPhase
    BY <1>12 DEF InitThreadPool, FoundIdle, KillPost, poolPhase, ReleaseFits
  <2> QED
    BY <2>1, <2>2
<1>13. ASSUME NEW w \in Workers, KillCancel(w) \/ KillJoin(w) PROVE UNCHANGED <<jobState, poolPhase>>
  <2>1. jobState' = jobState
    BY <1>3, <1>13 DEF KillCancel, KillJoin, workerVars, poolVars, histories
  <2>2. poolPhase' = poolPhase
    BY <1>13 DEF KillCancel, KillJoin, poolPhase, workerVars, poolVars
  <2> QED
    BY <2>1, <2>2
<1>14. ASSUME NEW w \in Workers,
              LoopTest(w) \/ SemWait(w) \/ RunningTest(w) \/ CountOut(w) \/ CancelledWaiting(w)
       PROVE  UNCHANGED <<jobState, poolPhase>>
  BY <1>3, <1>4, <1>14 DEF LoopTest, SemWait, RunningTest, CountOut, CancelledWaiting, poolVars, ownerVars, histories
<1>15. ASSUME DispatchPost \/ FoundBusy \/ UNCHANGED vars PROVE UNCHANGED <<jobState, poolPhase>>
  BY <1>3, <1>4, <1>15 DEF DispatchPost, FoundBusy, vars, workerVars, poolVars, ownerVars, histories
<1>16. ASSUME NEW w \in Workers, PopJob(w) \/ JobReturns(w) \/ CancelledWorking(w) PROVE Abstract!Next
  <2>1. stack[Len(stack)] \in Jobs \/ ~PopJob(w)
    BY <1>1, PopElements DEF TypeOK
  <2>2. task[w] \in Jobs \/ ~(JobReturns(w) \/ CancelledWorking(w))
    BY <1>1 DEF TypeOK, TaskFits, JobReturns, CancelledWorking
  <2> QED
    BY <1>6, <1>7, <1>8, <1>16, <2>1, <2>2 DEF Abstract!Next
<1> QED
  BY <1>5, <1>9, <1>10, <1>11, <1>12, <1>13, <1>14, <1>15, <1>16 DEF Next, Owner, Worker, Abstract!Next

\* To its user the pool is a JobPool, for any number of threads and jobs: each job is started once
\* at most, never more than there are threads, broken off by a forced release only, and a closed
\* pool runs none.
THEOREM PoolIsAJobPool == Spec => ImplementsJobPool
<1>1. Spec => [](IInv /\ EachJobOnce /\ ReleaseFits)
  BY SpecJobs
<1> QED
  BY <1>1, InitRefines, NextRefines, PTL DEF Spec, ImplementsJobPool, Abstract!Spec
=============================================================================
