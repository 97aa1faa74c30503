------------------------------ MODULE ThreadPool ------------------------------
(***************************************************************************)
(* The thread pool of the server: PThreadPool, with its worker threads     *)
(* (trampoline), the thread that dispatches jobs (the server's listening   *)
(* thread) and the owner that creates and releases it.                     *)
(*                                                                         *)
(* The pool keeps its jobs on a stack guarded by a lock and counts them    *)
(* with a semaphore; dispatching pushes under the lock and posts after it. *)
(* A worker waits for a permit, tests isRunning, locks, and pops.  The     *)
(* owner clears isRunning and polls until no thread is busy, or until its  *)
(* patience is at an end, and then posts, cancels and joins every thread:  *)
(* with the lock held in the first case, without it in the second.         *)
(*                                                                         *)
(* A critical section that cannot block is one step.  Cancellation takes   *)
(* effect while a thread waits on the semaphore or runs a job (which       *)
(* receives and sends), never while it waits for the lock, which is no     *)
(* cancellation point of the C libraries the server is built with.         *)
(* A pool is initialised once: the server makes a new one to listen again. *)
(* Nothing keeps the dispatching thread from dispatching to a pool that    *)
(* was released, whose lock and semaphore are destroyed: what becomes of   *)
(* such a call is undefined, and left open here.                           *)
(***************************************************************************)
EXTENDS Integers, Sequences, FiniteSets

CONSTANTS
  Workers,    \* the threads of the pool
  Jobs,       \* bound: the jobs in the pool together; one that is over may be dispatched again
  WaitTimes,  \* the arguments ReleaseThreadPool may be called with
  NoJob       \* what a thread runs that runs no job

Infinite == -1   \* PTP_WAIT_TIME_INFINITE, the unsigned -1

ASSUME WorkersAssumption == IsFiniteSet(Workers) /\ Workers # {}
ASSUME WaitTimesAssumption == WaitTimes \subseteq Nat \cup {Infinite}
ASSUME NoJobAssumption == NoJob \notin Jobs

VARIABLES
  wpc,        \* where each worker is in trampoline
  task,       \* the job each worker runs
  cancelled,  \* the workers with a cancellation request
  isRunning,  \* tcb.isRunning
  jobsSem,    \* the value of tcb.jobsSem
  lockHeld,   \* the owner holds tcb.jobsPS_rwlock
  stack,      \* tcb.jobsParamStack; its top is the last element
  busyCnt,    \* tcb.busyCnt
  dpc,        \* where the dispatching thread is in DispatchJobs
  opc,        \* where the owner is
  waitTimes,  \* the argument of ReleaseThreadPool
  tryCnt,     \* its local variable
  joining,    \* the workers not joined yet by KillAllThreadImme
  result,     \* how the pool was released
  outcome,    \* history: what has become of each job since it was dispatched last
  dispatched  \* history: the jobs DispatchJobs was called with

workerVars == <<wpc, task, cancelled>>
poolVars   == <<isRunning, jobsSem, lockHeld, stack, busyCnt>>
ownerVars  == <<opc, waitTimes, tryCnt, joining, result>>
histories  == <<outcome, dispatched>>
vars       == <<workerVars, poolVars, dpc, ownerVars, histories>>

WorkerPoints == {"none", "loop", "sem", "check", "lock", "work", "finish", "exited", "aborted"}
OwnerPoints  == {"new", "running", "try", "post", "cancel", "join", "free", "released"}
Results      == {"NONE", "PTP_RETURN_RELEASE_NORMAL", "PTP_RETURN_RELEASE_FORCE"}

Elements(seq) == {seq[i] : i \in 1..Len(seq)}
At(points) == {w \in Workers : wpc[w] \in points}

\* The threads that have popped a job and have not counted themselves out again.
Busy == At({"work", "finish", "aborted"})
Ended == At({"exited", "aborted"})

TypeOK ==
  /\ wpc \in [Workers -> WorkerPoints]
  /\ task \in [Workers -> Jobs \cup {NoJob}]
  /\ cancelled \subseteq Workers
  /\ isRunning \in BOOLEAN
  /\ jobsSem \in Nat
  /\ lockHeld \in BOOLEAN
  /\ stack \in Seq(Jobs)
  /\ busyCnt \in Nat
  /\ dpc \in {"idle", "post"}
  /\ opc \in OwnerPoints
  /\ waitTimes \in Nat \cup {Infinite}
  /\ tryCnt \in Nat
  /\ joining \subseteq Workers
  /\ result \in Results
  /\ outcome \in [Jobs -> {"none", "finished", "aborted", "dropped"}]
  /\ dispatched \subseteq Jobs

Init ==
  /\ wpc = [w \in Workers |-> "none"]
  /\ task = [w \in Workers |-> NoJob]
  /\ cancelled = {}
  /\ isRunning = FALSE
  /\ jobsSem = 0
  /\ lockHeld = FALSE
  /\ stack = << >>
  /\ busyCnt = 0
  /\ dpc = "idle"
  /\ opc = "new"
  /\ waitTimes = Infinite
  /\ tryCnt = 0
  /\ joining = {}
  /\ result = "NONE"
  /\ outcome = [j \in Jobs |-> "none"]
  /\ dispatched = {}

Goto(w, point) == wpc' = [wpc EXCEPT ![w] = point]

(***************************************************************************)
(* The dispatching thread                                                  *)
(***************************************************************************)

InPool(j) == j \in Elements(stack) \/ \E w \in Workers : task[w] = j

\* The dispatcher has a pool that was initialised, and knows nothing else of it.
DispatchBegins(j) ==
  /\ opc # "new" /\ dpc = "idle"
  /\ ~InPool(j)
  /\ dispatched' = dispatched \cup {j}
  /\ UNCHANGED <<workerVars, isRunning, jobsSem, lockHeld, busyCnt, ownerVars>>

\* The push of DispatchJobs.  On the stack of a released pool a job stays for good.
DispatchPush(j) ==
  /\ DispatchBegins(j)
  /\ ~lockHeld
  /\ stack' = Append(stack, j)
  /\ outcome' = [outcome EXCEPT ![j] = "none"]
  /\ dpc' = "post"

\* DispatchJobs finds the lock destroyed and returns PTP_RETURN_PTHREAD_LIB_FAIL.
DispatchFails(j) ==
  /\ DispatchBegins(j)
  /\ opc = "released"
  /\ outcome' = [outcome EXCEPT ![j] = "dropped"]
  /\ UNCHANGED <<stack, dpc>>

\* Seeded fault: the post is lost.
DispatchPostLost ==
  /\ dpc = "post"
  /\ dpc' = "idle"
  /\ UNCHANGED <<workerVars, poolVars, ownerVars, histories>>

\* The post; the semaphore of a released pool counts it or not.
DispatchPost ==
  /\ dpc = "post"
  /\ jobsSem' \in {jobsSem + 1} \cup (IF opc = "released" THEN {jobsSem} ELSE {})
  /\ dpc' = "idle"
  /\ UNCHANGED <<workerVars, isRunning, lockHeld, stack, busyCnt, ownerVars, histories>>

(***************************************************************************)
(* The workers: trampoline                                                 *)
(***************************************************************************)

LoopTest(w) ==
  /\ wpc[w] = "loop"
  /\ Goto(w, IF isRunning THEN "sem" ELSE "exited")
  /\ UNCHANGED <<task, cancelled, poolVars, dpc, ownerVars, histories>>

\* Seeded fault: the worker goes on whether or not it got a permit.
SemWaitUnchecked(w) ==
  /\ wpc[w] = "sem"
  /\ jobsSem' = jobsSem - 1
  /\ Goto(w, "check")
  /\ UNCHANGED <<task, cancelled, isRunning, lockHeld, stack, busyCnt, dpc, ownerVars, histories>>

SemWait(w) ==
  /\ wpc[w] = "sem"
  /\ jobsSem > 0
  /\ jobsSem' = jobsSem - 1
  /\ Goto(w, "check")
  /\ UNCHANGED <<task, cancelled, isRunning, lockHeld, stack, busyCnt, dpc, ownerVars, histories>>

\* Seeded fault: the EXIT message is not looked for.
RunningTestMissing(w) ==
  /\ wpc[w] = "check"
  /\ Goto(w, "lock")
  /\ UNCHANGED <<task, cancelled, poolVars, dpc, ownerVars, histories>>

RunningTest(w) ==
  /\ wpc[w] = "check"
  /\ Goto(w, IF isRunning THEN "lock" ELSE "exited")
  /\ UNCHANGED <<task, cancelled, poolVars, dpc, ownerVars, histories>>

\* Seeded fault: the stack is popped twice, once for each of two uses of its top.
PopJobTwice(w) ==
  /\ wpc[w] = "lock" /\ ~lockHeld
  /\ stack # << >>
  /\ task' = [task EXCEPT ![w] = stack[Len(stack)]]
  /\ stack' = SubSeq(stack, 1, Len(stack) - 2)
  /\ busyCnt' = busyCnt + 1
  /\ Goto(w, "work")
  /\ UNCHANGED <<cancelled, isRunning, jobsSem, lockHeld, dpc, ownerVars, histories>>

PopJob(w) ==
  /\ wpc[w] = "lock" /\ ~lockHeld
  /\ stack # << >>      \* never false: CountsAgree
  /\ task' = [task EXCEPT ![w] = stack[Len(stack)]]
  /\ stack' = SubSeq(stack, 1, Len(stack) - 1)
  /\ busyCnt' = busyCnt + 1
  /\ Goto(w, "work")
  /\ UNCHANGED <<cancelled, isRunning, jobsSem, lockHeld, dpc, ownerVars, histories>>

\* innerAction returns.
JobReturns(w) ==
  /\ wpc[w] = "work"
  /\ outcome' = [outcome EXCEPT ![task[w]] = "finished"]
  /\ task' = [task EXCEPT ![w] = NoJob]
  /\ Goto(w, "finish")
  /\ UNCHANGED <<cancelled, poolVars, dpc, ownerVars, dispatched>>

CountOut(w) ==
  /\ wpc[w] = "finish" /\ ~lockHeld
  /\ busyCnt' = busyCnt - 1
  /\ Goto(w, "loop")
  /\ UNCHANGED <<task, cancelled, isRunning, jobsSem, lockHeld, stack, dpc, ownerVars, histories>>

\* A cancellation request takes effect: before a job is taken, or in the middle of one.
CancelledWaiting(w) ==
  /\ w \in cancelled /\ wpc[w] = "sem"
  /\ Goto(w, "exited")
  /\ UNCHANGED <<task, cancelled, poolVars, dpc, ownerVars, histories>>

CancelledWorking(w) ==
  /\ w \in cancelled /\ wpc[w] = "work"
  /\ outcome' = [outcome EXCEPT ![task[w]] = "aborted"]
  /\ task' = [task EXCEPT ![w] = NoJob]
  /\ Goto(w, "aborted")
  /\ UNCHANGED <<cancelled, poolVars, dpc, ownerVars, dispatched>>

(***************************************************************************)
(* The owner                                                               *)
(***************************************************************************)

InitThreadPool ==
  /\ opc = "new"
  /\ isRunning' = TRUE
  /\ wpc' = [w \in Workers |-> "loop"]
  /\ opc' = "running"
  /\ UNCHANGED <<task, cancelled, jobsSem, lockHeld, stack, busyCnt, dpc, waitTimes, tryCnt,
                 joining, result, histories>>

ReleaseThreadPool(times) ==
  /\ opc = "running"
  /\ isRunning' = FALSE
  /\ waitTimes' = times
  /\ opc' = "try"
  /\ UNCHANGED <<workerVars, jobsSem, lockHeld, stack, busyCnt, dpc, tryCnt, joining, result, histories>>

\* KillAllThreadImme of a running pool, called directly or by the destructor.
KillRunning ==
  /\ opc = "running"
  /\ isRunning' = FALSE
  /\ result' = "PTP_RETURN_RELEASE_FORCE"
  /\ opc' = "post"
  /\ UNCHANGED <<workerVars, jobsSem, lockHeld, stack, busyCnt, dpc, waitTimes, tryCnt,
                 joining, histories>>

OutOfPatience == waitTimes # Infinite /\ tryCnt >= waitTimes

GiveUp ==
  /\ opc = "try" /\ OutOfPatience
  /\ result' = "PTP_RETURN_RELEASE_FORCE"
  /\ opc' = "post"
  /\ UNCHANGED <<workerVars, poolVars, dpc, waitTimes, tryCnt, joining, histories>>

\* Seeded fault: a thread that is in a job is not waited for.
FoundIdleUnchecked ==
  /\ opc = "try" /\ ~OutOfPatience /\ ~lockHeld
  /\ lockHeld' = TRUE
  /\ result' = "PTP_RETURN_RELEASE_NORMAL"
  /\ opc' = "post"
  /\ UNCHANGED <<workerVars, isRunning, jobsSem, stack, busyCnt, dpc, waitTimes, tryCnt,
                 joining, histories>>

\* Nobody is busy: go on with the lock held.
FoundIdle ==
  /\ opc = "try" /\ ~OutOfPatience /\ ~lockHeld
  /\ busyCnt = 0
  /\ lockHeld' = TRUE
  /\ result' = "PTP_RETURN_RELEASE_NORMAL"
  /\ opc' = "post"
  /\ UNCHANGED <<workerVars, isRunning, jobsSem, stack, busyCnt, dpc, waitTimes, tryCnt,
                 joining, histories>>

\* Seeded fault: the owner sleeps with the lock held.
FoundBusyKeepsLock ==
  /\ opc = "try" /\ ~OutOfPatience
  /\ busyCnt # 0
  /\ lockHeld' = TRUE
  /\ UNCHANGED <<workerVars, isRunning, jobsSem, stack, busyCnt, dpc, ownerVars, histories>>

\* Somebody is busy: unlock, sleep, try again.  The tries are counted only if they matter.
FoundBusy ==
  /\ opc = "try" /\ ~OutOfPatience /\ ~lockHeld
  /\ busyCnt # 0
  /\ tryCnt' = IF waitTimes = Infinite THEN tryCnt ELSE tryCnt + 1
  /\ UNCHANGED <<workerVars, poolVars, dpc, opc, waitTimes, joining, result, histories>>

KillPost ==
  /\ opc = "post"
  /\ jobsSem' = jobsSem + Cardinality(Workers)
  /\ joining' = Workers
  /\ opc' = "cancel"
  /\ UNCHANGED <<workerVars, isRunning, lockHeld, stack, busyCnt, dpc, waitTimes, tryCnt,
                 result, histories>>

\* One turn of the loop over threadList: cancel a thread ...
KillCancel(w) ==
  /\ opc = "cancel" /\ w \in joining
  /\ cancelled' = cancelled \cup {w}
  /\ opc' = "join"
  /\ UNCHANGED <<wpc, task, poolVars, dpc, waitTimes, tryCnt, joining, result, histories>>

\* Seeded fault: the threads are cancelled and not joined.
KillJoinMissing(w) ==
  /\ opc = "join" /\ w \in joining \cap cancelled
  /\ joining' = joining \ {w}
  /\ opc' = IF joining' = {} THEN "free" ELSE "cancel"
  /\ UNCHANGED <<workerVars, poolVars, dpc, waitTimes, tryCnt, result, histories>>

\* ... and join it.
KillJoin(w) ==
  /\ opc = "join" /\ w \in joining \cap cancelled
  /\ w \in Ended
  /\ joining' = joining \ {w}
  /\ opc' = IF joining' = {} THEN "free" ELSE "cancel"
  /\ UNCHANGED <<workerVars, poolVars, dpc, waitTimes, tryCnt, result, histories>>

\* Unlock and destroy the lock and the semaphore, clear the stack.
KillFree ==
  /\ opc = "free"
  /\ busyCnt' = 0
  /\ isRunning' = FALSE
  /\ lockHeld' = FALSE
  /\ jobsSem' = 0
  /\ stack' = << >>
  /\ outcome' = [j \in Jobs |-> IF j \in Elements(stack) THEN "dropped" ELSE outcome[j]]
  /\ opc' = "released"
  /\ UNCHANGED <<workerVars, dpc, waitTimes, tryCnt, joining, result, dispatched>>

Owner ==
  \/ GiveUp \/ FoundIdle \/ FoundBusy \/ KillPost \/ KillFree
  \/ \E w \in Workers : KillCancel(w) \/ KillJoin(w)

Worker(w) ==
  \/ LoopTest(w) \/ SemWait(w) \/ RunningTest(w) \/ PopJob(w) \/ CountOut(w)
  \/ CancelledWaiting(w) \/ CancelledWorking(w)

Next ==
  \/ InitThreadPool \/ KillRunning \/ DispatchPost \/ Owner
  \/ \E times \in WaitTimes : ReleaseThreadPool(times)
  \/ \E j \in Jobs : DispatchPush(j) \/ DispatchFails(j)
  \/ \E w \in Workers : Worker(w) \/ JobReturns(w)

Spec == Init /\ [][Next]_vars

\* Threads run.  A job need not end: its client decides how long a session lasts.
Fairness ==
  /\ WF_vars(DispatchPost)
  /\ WF_vars(Owner)
  /\ \A w \in Workers : WF_vars(Worker(w))

FairSpec == Spec /\ Fairness

\* Jobs end, as they do once their clients are gone.
JobsEnd == \A w \in Workers : WF_vars(JobReturns(w))

FairJobsSpec == FairSpec /\ JobsEnd

(***************************************************************************)
(* Properties                                                              *)
(***************************************************************************)

\* Stack, semaphore, busyCnt and threads agree although they change apart.  A worker that is
\* about to pop finds a job: every permit a worker acts on stands for a job on the stack, while
\* a push and its post are apart and a release posts permits that stand for nothing
\* (trampoline, KillAllThreadImme).  And busyCnt counts the threads that run a job, also while
\* a job is broken off.
CountsAgree ==
  /\ \A w \in Workers : wpc[w] = "lock" => stack # << >>
  /\ opc # "released" => busyCnt = Cardinality(Busy)

\* A job that was dispatched is in one place until it is dispatched again: on the stack once, with
\* one worker, or done with.  None is lost on its way through DispatchJobs, trampoline and
\* KillAllThreadImme, and none is run twice; a job nobody dispatched is nowhere.
EachJobOnce ==
  /\ \A j \in Jobs : j \in dispatched <=> InPool(j) \/ outcome[j] # "none"
  /\ \A i, k \in 1..Len(stack) : stack[i] = stack[k] => i = k
  /\ \A v, w \in Workers : task[v] = task[w] /\ task[v] # NoJob => v = w
  /\ \A w \in Workers : task[w] \notin Elements(stack)
  /\ \A j \in Jobs : outcome[j] # "none" =>
       j \notin Elements(stack) /\ \A w \in Workers : task[w] # j

\* When the pool is freed every thread has ended: none touches what is freed.
FreedAfterThreads ==
  opc \in {"free", "released"} => \A w \in Workers : w \in Ended

\* A queued job is taken, unless the pool is released or all its threads are busy again and again:
\* no permit is lost and no thread sleeps on a job.  But the jobs are a stack: the one at the bottom
\* waits for as long as others are dispatched and taken before it, perhaps for ever.
QueuedJobIsTaken ==
  \A j \in Jobs :
    \/ j \in Elements(stack) ~> (j \notin Elements(stack) \/ ~isRunning \/ Busy = Workers)
    \/ []<><<\E k \in Jobs \ {j} : DispatchPush(k)>>_vars

\* The window of trampoline between the test of isRunning and the lock.
StuckInWindow == lockHeld /\ At({"lock"}) # {}

\* If jobs end, a release ends as well, or hangs with a thread in that window: there is no
\* other way to hang.  A release without patience (KillRunning, or waitTimes zero) ends even if
\* jobs do not.
ReleaseReturnsOrStuck ==
  /\ JobsEnd => (opc = "try") ~> (opc = "released" \/ StuckInWindow)
  /\ (result = "PTP_RETURN_RELEASE_FORCE") ~> (opc = "released")

\* Refuted.  "wait all running thread finish work, and free all res takes" (comment of
\* ReleaseThreadPool, PThreadPool.cpp:81): a release whose jobs end comes to an end.
ReleaseReturns == (opc = "try") ~> (opc = "released")

(***************************************************************************)
(* The pool implements JobPool                                             *)
(***************************************************************************)

jobState ==
  [j \in Jobs |->
     IF outcome[j] # "none" THEN outcome[j]
     ELSE IF \E w \in Workers : task[w] = j THEN "active"
     ELSE IF j \notin Elements(stack) THEN "new"
     ELSE IF opc = "released" THEN "dropped" ELSE "waiting"]

poolPhase ==
  IF opc = "released" THEN "closed"
  ELSE IF result = "PTP_RETURN_RELEASE_FORCE" THEN "forced"
  ELSE IF opc \in {"new", "running"} THEN "open" ELSE "draining"

Abstract == INSTANCE JobPool WITH N <- Cardinality(Workers), job <- jobState, phase <- poolPhase

\* To its user the pool is a JobPool.
ImplementsJobPool == Abstract!Spec
=============================================================================
