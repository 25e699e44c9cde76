------------------------------ MODULE HsmCall ------------------------------
(***************************************************************************)
(* What a caller of the vHSM may rely on: a call that returns a result has  *)
(* been carried out, exactly once; a call that returns an error has been    *)
(* carried out at most once, and possibly only after its return.            *)
(***************************************************************************)
EXTENDS Naturals

CONSTANT Calls

VARIABLES
    call,  \* per call: "new", "pending", "ok" or "error"
    runs   \* per call: how often the vHSM has carried it out

vars == <<call, runs>>

Init ==
    /\ call = [k \in Calls |-> "new"]
    /\ runs = [k \in Calls |-> 0]

Return(k, how) == call' = [call EXCEPT ![k] = how] /\ UNCHANGED runs

Make(k) == call[k] = "new" /\ Return(k, "pending")
Run(k) ==
    /\ call[k] # "new" /\ call[k] # "ok" /\ runs[k] = 0
    /\ runs' = [runs EXCEPT ![k] = 1]
    /\ UNCHANGED call
Succeed(k) == call[k] = "pending" /\ runs[k] = 1 /\ Return(k, "ok")
Fail(k) == call[k] = "pending" /\ Return(k, "error")

Next == \E k \in Calls : Make(k) \/ Run(k) \/ Succeed(k) \/ Fail(k)

Spec == Init /\ [][Next]_vars
=============================================================================
