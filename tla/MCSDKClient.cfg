CONSTANTS
  Keys = {k1, k2}
  Watched = {k1}
  Values = {v1, v2}
  NoEntry = NoEntry
  NoEvent = NoEvent
  Absent = Absent
  NoFile = NoFile
  Corrupt = Corrupt
  Writers = {fsm}
  Capacity = 2
  MaxRev = 3
  MaxCrashes = 1
SPECIFICATION SDKFairSpec
INVARIANTS SDKTypeOK ViewMatchesDelivered
PROPERTIES LossesExplained CursorCatchesUp
