SPECIFICATION FairJobsSpec
CONSTANTS
  w1 = w1
  w2 = w2
  j1 = j1
  j2 = j2
  j3 = j3
  NoJob = NoJob
  Workers <- TwoWorkers
  Jobs <- TwoJobs
  WaitTimes <- AllWaitTimes
CHECK_DEADLOCK FALSE
PROPERTIES
  ReleaseReturns
