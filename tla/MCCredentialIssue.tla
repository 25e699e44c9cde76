------------------------- MODULE MCCredentialIssue -------------------------
(* CredentialIssue for TLC.                                                 *)
EXTENDS CredentialIssue, TLC
=============================================================================
