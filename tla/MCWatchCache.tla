---------------------------- MODULE MCWatchCache ----------------------------
(* WatchCache for TLC: two keys under one namespace, events in and out of   *)
(* revision order, a caller that asks for one key or for both.              *)
EXTENDS WatchCache

CONSTANTS k1, k2

Ev(k, r) == [Type |-> "PUT", Entry |-> [Key |-> k, Revision |-> r]]

MCEvents == {Ev(k1, 1), Ev(k2, 2), Ev(k1, 3)}

MCPrefixes == {{k1}, {k1, k2}}
=============================================================================
