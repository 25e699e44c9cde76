---------------------------- MODULE MCUpstreamCa ----------------------------
(* UpstreamCa for TLC: no wish, a day less a second, a day, a day and one.  *)
EXTENDS UpstreamCa, TLC

MCTtls == {0, DaySecs - 1, DaySecs, DaySecs + 1}
=============================================================================
