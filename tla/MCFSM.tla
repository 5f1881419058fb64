-------------------------------- MODULE MCFSM --------------------------------
(* FSM for TLC: two keys, in byte order k1, k2.                              *)
EXTENDS FSM, TLC

CONSTANTS k1, k2

MCKeyRank == k1 :> 1 @@ k2 :> 2

NodeAndValueSymmetry == Permutations(Nodes) \cup Permutations(Values)
=============================================================================
