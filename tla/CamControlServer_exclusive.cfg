SPECIFICATION Spec
CONSTANTS
  w1 = w1
  w2 = w2
  Workers <- TwoWorkers
  Statuses = {"OK", "LINKDOWN", "WARN"}
  MaxEarly = 1
SYMMETRY WorkerSymmetry
INVARIANTS
  ExclusiveControl
