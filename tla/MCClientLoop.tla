----------------------------- MODULE MCClientLoop -----------------------------
(* ClientLoop for TLC.                                                        *)
EXTENDS ClientLoop
=============================================================================
