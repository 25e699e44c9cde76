------------------------------ MODULE MCVhsm ------------------------------
(* Vhsm for TLC: three connections on two permits.                          *)
EXTENDS Vhsm, TLC
=============================================================================
