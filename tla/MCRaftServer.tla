---------------------------- MODULE MCRaftServer ----------------------------
(* RaftServer for TLC: a bootstrap node started over a data directory that   *)
(* holds the key, a node that joins with an empty one, a client.             *)
EXTENDS RaftServer

MCBase == [n \in Nodes |-> IF n = Boot THEN {Key} ELSE {}]
=============================================================================
