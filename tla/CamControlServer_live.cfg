SPECIFICATION FairSpec
CONSTANTS
  w1 = w1
  w2 = w2
  Workers <- TwoWorkers
  Statuses = {"OK", "LINKDOWN"}
  MaxEarly = 0
PROPERTIES
  LinkLossStopsCamera
