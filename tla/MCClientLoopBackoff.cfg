CONSTANTS
  Keys = {k1}
  Apps = {a1}
  Loop = Loop
  Nobody = Nobody
  Callbacks = {f1}
  Reentrant = {}
  AnyKey = AnyKey
  PollTimeouts = {0, 500}
  MaxRev = 1
SPECIFICATION LoopSpec
CHECK_DEADLOCK FALSE
INVARIANTS RetriesArePaced
