------------------------------- MODULE Vault -------------------------------
(***************************************************************************)
(* What the clients and the operators of the vHSM may rely on, whatever    *)
(* runs at the same time in it: it opens at a stroke and stays open until  *)
(* the process ends; what it hands out belongs to keys it has held; and a  *)
(* CA key gets in by itself, into an open vault, out of a blob that the    *)
(* vault has handed out before.                                            *)
(***************************************************************************)
EXTENDS Naturals

CONSTANTS Tags, Keys  \* 0 is no key

VARIABLES
    key,     \* the master key, or 0
    ca,      \* per tag: the CA key in memory, or 0
    held,    \* keys the vault has ever held
    out,     \* blobs that were handed out
    shares   \* keys whose shares were handed out

vars == <<key, ca, held, out, shares>>

Init ==
    /\ key = 0 /\ ca = [t \in Tags |-> 0]
    /\ held = {} /\ out = {} /\ shares = {}

\* A key, known or new, takes the place of the one held, if there is one.
Unseal(k) ==
    /\ key' = k /\ held' = held \cup {k}
    /\ UNCHANGED <<ca, out, shares>>

HandOut ==
    /\ out \subseteq out' /\ \A b \in out' : b.key \in held
    /\ shares \subseteq shares' /\ shares' \subseteq held
    /\ UNCHANGED <<key, ca, held>>

Load(t) ==
    /\ key # 0
    /\ \E b \in out : ca' = [ca EXCEPT ![t] = b.secret]
    /\ UNCHANGED <<key, held, out, shares>>

Restart ==
    /\ key' = 0 /\ ca' = [t \in Tags |-> 0]
    /\ UNCHANGED <<held, out, shares>>

Next ==
    \/ \E k \in Keys : Unseal(k)
    \/ \E t \in Tags : Load(t)
    \/ HandOut \/ Restart

Spec == Init /\ [][Next]_vars
=============================================================================
