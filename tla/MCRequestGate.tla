--------------------------- MODULE MCRequestGate ---------------------------
(* RequestGate for TLC: half-second ticks.                                  *)
EXTENDS RequestGate, TLC

ConnSymmetry == Permutations(Conns)
=============================================================================
