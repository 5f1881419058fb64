-------------------------- MODULE MCWatchableStore --------------------------
(* WatchableStore for TLC; only safety properties are checked here, so      *)
(* keys, values and writers may be permuted.                                *)
EXTENDS WatchableStore, TLC

StoreSymmetry ==
  Permutations(Keys) \cup Permutations(Values) \cup Permutations(Writers)
=============================================================================
