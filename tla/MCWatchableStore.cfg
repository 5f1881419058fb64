CONSTANTS
  Keys = {k1, k2}
  Values = {v1, v2}
  NoEntry = NoEntry
  NoEvent = NoEvent
  Writers = {fsm}
  Capacity = 2
  MaxRev = 6
SPECIFICATION WatchableSpec
SYMMETRY StoreSymmetry
INVARIANTS BoltTypeOK RevisionDiscipline DataMatchesHistory LifeOfKey
  WatchableTypeOK WindowIsRecent PrevEntryChains
PROPERTIES CommittedRevisionsGrow
