----------------------------- MODULE Catalogue -----------------------------
(***************************************************************************)
(* What the administrators of a deployment may rely on: an init or an      *)
(* import happens at one moment or never, as if alone.  At that moment it  *)
(* is put on record and every row it asks for that is not there is added,  *)
(* without a clash and without the credentials that were provisioned       *)
(* before; a request that is told of success has happened, one that is     *)
(* refused has not, and one that fails may have.                           *)
(***************************************************************************)
CONSTANTS Reqs, Provisioned

VARIABLES
    rows,    \* the rows of the catalogue
    audit,   \* requests that have happened
    wanted,  \* per request: the rows it asks for, {} before it does
    answer   \* per request: "none", "ok", "taken", "no kek" or "failed"

vars == <<rows, audit, wanted, answer>>

SameKey(x, y) == x.table = y.table /\ x.key = y.key
SameName(x, y) ==
    x.table = "target_resources" /\ y.table = "target_resources" /\ x.name = y.name
Clash(x, y) == SameKey(x, y) \/ SameName(x, y)
Elsewhere(x) == x.table = "db_credentials" /\ x.key \in Provisioned

Init ==
    /\ rows = {} /\ audit = {}
    /\ wanted = [r \in Reqs |-> {}] /\ answer = [r \in Reqs |-> "none"]

Tell(r, a) == answer[r] = "none" /\ answer' = [answer EXCEPT ![r] = a]

Ask(r) ==
    /\ wanted[r] = {} /\ answer[r] = "none"
    /\ wanted'[r] # {} /\ wanted' = [wanted EXCEPT ![r] = wanted'[r]]
    /\ UNCHANGED <<rows, audit, answer>>

Happen(r) ==
    /\ wanted[r] # {}
    /\ \E new \in SUBSET {w \in wanted[r] : ~Elsewhere(w)} :
         /\ \A x \in new : \A y \in rows : ~Clash(x, y)
         /\ \A x, y \in new : Clash(x, y) => x = y
         /\ \A w \in wanted[r] :
              Elsewhere(w) \/ \E x \in rows \cup new : SameKey(x, w)
         /\ rows' = rows \cup new
    /\ audit' = audit \cup {r}
    /\ Tell(r, "ok") \/ Tell(r, "failed")
    /\ UNCHANGED wanted

\* In favour of another request that has happened.
Refuse(r) ==
    /\ \E w \in wanted[r] : \E x \in rows : SameKey(x, w) /\ x.by # r
    /\ Tell(r, "taken")
    /\ UNCHANGED <<rows, audit, wanted>>

Fail(r) ==
    /\ Tell(r, "failed") \/ Tell(r, "no kek")
    /\ UNCHANGED <<rows, audit, wanted>>

Next == \E r \in Reqs : Ask(r) \/ Happen(r) \/ Refuse(r) \/ Fail(r)

Spec == Init /\ [][Next]_vars
=============================================================================
