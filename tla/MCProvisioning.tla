--------------------------- MODULE MCProvisioning ---------------------------
(* Provisioning for TLC: two files with the same records in the opposite    *)
(* order, and one whose resource has no id and a name that the others use.  *)
(* One of the two credentials has been provisioned before.                  *)
EXTENDS Provisioning, TLC

CONSTANTS a, b, n, m

ResA == [table |-> "target_resources", id |-> a, name |-> n]
CredB == [table |-> "db_credentials", id |-> b, name |-> NoName]
CredA == [table |-> "db_credentials", id |-> a, name |-> NoName]
ResB == [table |-> "target_resources", id |-> b, name |-> m]
NoIdRes == [table |-> "target_resources", id |-> NoId, name |-> n]

MCFiles == {<<ResA, ResB>>, <<ResB, ResA, CredB>>, <<NoIdRes, CredA>>}
=============================================================================
