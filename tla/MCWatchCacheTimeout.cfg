CONSTANTS
  k1 = k1
  k2 = k2
  Keys = {k1, k2}
  Values = {}
  NoEntry = NoEntry
  Zero = Zero
  Free = Free
  Watchers = {w1}
  Events <- MCEvents
  AfterRevs = {0, 2}
  Prefixes <- MCPrefixes
  Capacity = 2
  MaxCount = 2
SPECIFICATION FairSpec
PROPERTIES TimeoutReturns
