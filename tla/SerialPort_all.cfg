SPECIFICATION FairSpec
CONSTANTS
  s1 = s1
  s2 = s2
  Thread = Thread
  Fds <- FewFds
  Sessions <- TwoSessions
  MaxOverlaps = 2
INVARIANTS
  TypeOK
  AloneOwnsPort
  OneLeakPerOverlap
PROPERTIES
  PortIsRecovered
