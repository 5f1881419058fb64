CONSTANTS
  k1 = k1
  k2 = k2
  Keys = {k1, k2}
  KeyRank <- MCKeyRank
  Values = {v1, v2}
  NoEntry = NoEntry
  NoSnapshot = NoSnapshot
  Nodes = {n1, n2}
  Capacity = 2
  MaxLog = 2
  MaxRestarts = 1
  MaxFailures = 0
SPECIFICATION FSMSpec
SYMMETRY NodeAndValueSymmetry
CHECK_DEADLOCK FALSE
INVARIANTS RestartKeepsRevision
