------------------------------ MODULE MCLoadRun ------------------------------
(* LoadRun for TLC: three buckets of width 2, the last for overflow, and     *)
(* outcomes in each of them: a success, an unknown status, a server error    *)
(* and a transport error.                                                    *)
EXTENDS LoadRun

MCOutcomes == {[code |-> 200, lat |-> 1], [code |-> 999, lat |-> 3],
               [code |-> 503, lat |-> 7], [code |-> 0, lat |-> 5]}
=============================================================================
