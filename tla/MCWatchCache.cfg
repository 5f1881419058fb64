CONSTANTS
  k1 = k1
  k2 = k2
  Keys = {k1, k2}
  Values = {}
  NoEntry = NoEntry
  Zero = Zero
  Free = Free
  Watchers = {w1, w2}
  Events <- MCEvents
  AfterRevs = {1}
  Prefixes <- MCPrefixes
  Capacity = 2
  MaxCount = 3
SPECIFICATION FairSpec
INVARIANTS TypeOK NoMissedWakeup
PROPERTIES ImplementsEventWindow EventsAreDelivered CloseReleasesWatchers TimerWakesSleeper
