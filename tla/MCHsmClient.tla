---------------------------- MODULE MCHsmClient ----------------------------
(* HsmClient for TLC.                                                       *)
EXTENDS HsmClient, TLC
=============================================================================
