CONSTANTS
  BucketWidth = 2
  MaxLatency = 4
  MaxUint64 = 1000
  Workers = {w1, w2}
  Scenarios = {"write_only", "read_only", "mixed"}
  Outcomes <- MCOutcomes
  NumKeys = 2
  Cycle = 3
  ReadShare = 2
  MaxSteps = 2
SPECIFICATION LoadFairSpec
CHECK_DEADLOCK FALSE
INVARIANTS LoadTypeOK ReportAddsUp LatenciesMatchSamples MixIsExact
PROPERTIES RunEnds
