----------------------------- MODULE MCSDKClient -----------------------------
(* SDKClient for TLC: a namespace of one key beside a key outside of it.     *)
EXTENDS SDKClient
=============================================================================
