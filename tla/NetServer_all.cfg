SPECIFICATION FairSpec
CONSTANTS
  c1 = c1
  c2 = c2
  c3 = c3
  p1 = p1
  p2 = p2
  NoConn = NoConn
  NoPort = NoPort
  Conns <- ThreeConns
  Ports <- TwoPorts
  Threads = 2
CHECK_DEADLOCK FALSE
INVARIANTS
  TypeOK
  FreedPoolUsedOnlyInFlight
  StoppedMeansQuiet
PROPERTIES
  StopReturnsOrHangs
