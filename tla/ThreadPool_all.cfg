SPECIFICATION FairSpec
CONSTANTS
  w1 = w1
  w2 = w2
  j1 = j1
  j2 = j2
  j3 = j3
  NoJob = NoJob
  Workers <- TwoWorkers
  Jobs <- ThreeJobs
  WaitTimes <- AllWaitTimes
CHECK_DEADLOCK FALSE
INVARIANTS
  TypeOK
  CountsAgree
  EachJobOnce
  FreedAfterThreads
PROPERTIES
  ImplementsJobPool
  QueuedJobIsTaken
  ReleaseReturnsOrStuck
