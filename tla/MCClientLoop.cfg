CONSTANTS
  Keys = {k1, k2}
  Apps = {a1, a2}
  Loop = Loop
  Nobody = Nobody
  Callbacks = {f1}
  Reentrant = {f1}
  AnyKey = AnyKey
  PollTimeouts = {0, 500}
  MaxRev = 2
SPECIFICATION LoopFairSpec
CHECK_DEADLOCK FALSE
INVARIANTS LoopTypeOK ReadsAreWholeBatches CallbacksMissNothing
PROPERTIES QuietAfterClose CallsReturn
