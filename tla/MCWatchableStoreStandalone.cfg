CONSTANTS
  Keys = {k1, k2}
  Values = {v1}
  NoEntry = NoEntry
  NoEvent = NoEvent
  Writers = {h1, h2}
  Capacity = 3
  MaxRev = 3
SPECIFICATION WatchableSpec
SYMMETRY StoreSymmetry
INVARIANTS NoHoles
