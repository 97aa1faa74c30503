SPECIFICATION FairSpec
CONSTANTS
  Threshold = 2
  LinkResults <- GoodOrBad
  ClientAxes <- AxisX
  Mids <- OtherMid
  Speeds <- OneSpeed
  Positions <- OnePosition
  Moves <- BothWays
INVARIANTS
  TypeOK
  StatusHonest
  InRangeUnlessRaced
PROPERTIES
  StoppedAxisIsCentred
  AxesAreServed
