SPECIFICATION FairSpec
CONSTANTS
  Positions <- EveryKind
  MaxFaults = 4
INVARIANTS
  TypeOK
  AckMeansMoved
PROPERTIES
  LinkRecovers
