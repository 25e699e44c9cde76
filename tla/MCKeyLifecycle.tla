-------------------------- MODULE MCKeyLifecycle --------------------------
(* KeyLifecycle for TLC: two requests, two versions, rewrap by one key.     *)
EXTENDS KeyLifecycle, TLC
=============================================================================
