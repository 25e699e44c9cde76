--------------------------- MODULE MCAuditChain ---------------------------
(* AuditChain for TLC.                                                      *)
EXTENDS AuditChain, TLC
=============================================================================
