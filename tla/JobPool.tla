------------------------------- MODULE JobPool -------------------------------
(***************************************************************************)
(* What a thread pool promises its user, without its threads, its lock or  *)
(* its semaphore: a job is started once for each time it is submitted, no  *)
(* more than N jobs are active together, a job is broken off only once the *)
(* pool's user has lost patience, and a pool is closed when no job of it   *)
(* is active.  Nothing keeps a user from submitting to a closed pool, and  *)
(* such a job is never started.                                            *)
(***************************************************************************)
EXTENDS Naturals, FiniteSets

CONSTANTS
  Jobs,  \* the jobs, each in the pool once at a time
  N      \* the number of threads

VARIABLES
  job,   \* what has become of each job
  phase  \* open, or draining, or impatient, or closed

vars == <<job, phase>>

JobStates == {"new", "waiting", "active", "finished", "aborted", "dropped"}
Phases == {"open", "draining", "forced", "closed"}

Init ==
  /\ job = [j \in Jobs |-> "new"]
  /\ phase = "open"

Become(j, state) == job' = [job EXCEPT ![j] = state]

\* A job may be submitted again when it is over.
Idle(j) == job[j] \notin {"waiting", "active"}

Submit(j) ==
  /\ phase # "closed" /\ Idle(j)
  /\ Become(j, "waiting")
  /\ UNCHANGED phase

SubmitLate(j) ==
  /\ phase = "closed" /\ Idle(j)
  /\ Become(j, "dropped")
  /\ UNCHANGED phase

Start(j) ==
  /\ phase # "closed" /\ job[j] = "waiting"
  /\ Cardinality({k \in Jobs : job[k] = "active"}) < N
  /\ Become(j, "active")
  /\ UNCHANGED phase

Finish(j) ==
  /\ job[j] = "active"
  /\ Become(j, "finished")
  /\ UNCHANGED phase

Abort(j) ==
  /\ phase = "forced" /\ job[j] = "active"
  /\ Become(j, "aborted")
  /\ UNCHANGED phase

Drain ==
  /\ phase = "open"
  /\ phase' = "draining"
  /\ UNCHANGED job

Force ==
  /\ phase \in {"open", "draining"}
  /\ phase' = "forced"
  /\ UNCHANGED job

\* The pool is closed, and with it go the jobs that never started.
Close ==
  /\ phase \in {"draining", "forced"}
  /\ \A j \in Jobs : job[j] # "active"
  /\ phase' = "closed"
  /\ job' = [j \in Jobs |-> IF job[j] = "waiting" THEN "dropped" ELSE job[j]]

Next ==
  \/ Drain \/ Force \/ Close
  \/ \E j \in Jobs : Submit(j) \/ SubmitLate(j) \/ Start(j) \/ Finish(j) \/ Abort(j)

Spec == Init /\ [][Next]_vars
=============================================================================
