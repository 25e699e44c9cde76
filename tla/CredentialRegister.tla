------------------------ MODULE CredentialRegister ------------------------
(***************************************************************************)
(* What the clients of one target's credentials may rely on: a credential  *)
(* becomes valid in one step with the end of all those its client had      *)
(* found valid before; nothing else ends one; and a client is answered     *)
(* with a credential that is valid at that moment, or with none, though it *)
(* may have got a new one without being told.                              *)
(***************************************************************************)
EXTENDS Naturals

CONSTANTS Clients, Ids

VARIABLES
    valid,   \* credentials on record that have not been revoked
    ever,    \* credentials that have ever been on record
    busy,    \* clients for whom a replacement is under way
    found,   \* per client: what was valid when it was begun
    answer   \* per client: the credential it is answered with, or 0

vars == <<valid, ever, busy, found, answer>>

Init ==
    /\ valid = {} /\ ever = {} /\ busy = {}
    /\ found = [c \in Clients |-> {}] /\ answer = [c \in Clients |-> 0]

Finish(c) == busy' = busy \ {c} /\ found' = [found EXCEPT ![c] = {}]

Set(c, i) == answer' = [answer EXCEPT ![c] = i]

Begin(c) ==
    /\ c \notin busy
    /\ busy' = busy \cup {c} /\ found' = [found EXCEPT ![c] = valid]
    /\ UNCHANGED <<valid, ever, answer>>

\* The answer may be lost.
Replace(c, i) ==
    /\ c \in busy /\ i \notin ever
    /\ ever' = ever \cup {i}
    /\ valid' = (valid \ found[c]) \cup {i}
    /\ Set(c, i) \/ UNCHANGED answer
    /\ Finish(c)

GiveUp(c) == c \in busy /\ Finish(c) /\ UNCHANGED <<valid, ever, answer>>

Reuse(c, i) == c \notin busy /\ i \in valid /\ Set(c, i) /\ UNCHANGED <<valid, ever, busy, found>>

Done(c) == Set(c, 0) /\ UNCHANGED <<valid, ever, busy, found>>

Next ==
    \E c \in Clients :
        \/ Begin(c) \/ GiveUp(c) \/ Done(c)
        \/ \E i \in Ids : Replace(c, i) \/ Reuse(c, i)

Spec == Init /\ [][Next]_vars
=============================================================================
