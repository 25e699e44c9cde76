------------------------------ MODULE KeyStore ------------------------------
(***************************************************************************)
(* What the users of a key may rely on, whoever rotates, generates, expires *)
(* or restarts: at any time at most one key pair is active; a pair that is  *)
(* made active is a new one; a pair that stops being active never is again. *)
(* A pair is known by its public key.                                       *)
(***************************************************************************)
EXTENDS Naturals

VARIABLES
    active,  \* the active key pair: {} or a singleton
    used     \* key pairs that have ever been active: 1 .. used

vars == <<active, used>>

Init == active = {} /\ used = 0

\* The next key pair takes the place of the active one, if there is one.
Activate == used' = used + 1 /\ active' = {used + 1}
Deactivate == active # {} /\ active' = {} /\ UNCHANGED used

Next == Activate \/ Deactivate

Spec == Init /\ [][Next]_vars
=============================================================================
