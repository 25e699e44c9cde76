-------------------------- MODULE CredentialIssue --------------------------
(***************************************************************************)
(* Dynamic credentials of one caller for one target in kms-service: the     *)
(* handlers of handlers/agent.rs, IssueAgentCredentialUseCase::execute, the *)
(* rows of provisioned_credentials, and the accounts that a provider        *)
(* (PostgreSQL or Redis) keeps at the target.  One transaction revokes the  *)
(* old rows, inserts the new one, has the account created in the other     *)
(* system, writes the audit record and commits.                            *)
(*                                                                         *)
(* The transaction runs at READ COMMITTED: its writes are seen by others    *)
(* from the COMMIT on, and a row it has updated is locked until its end.    *)
(* A row and its account go by one number, drawn in the order of insertion, *)
(* which is the order of created_at.                                        *)
(***************************************************************************)
EXTENDS Naturals

CONSTANTS
    Reqs,      \* requests in flight
    MaxItems,  \* bound: items of a batch that name this target
    MaxIds     \* bound: credentials that ever come to exist

ASSUME ItemsAssumption == MaxItems \in Nat \ {0}
ASSUME IdsAssumption == MaxIds \in Nat

VARIABLES
    rows,       \* provisioned_credentials, as committed
    used,       \* credentials drawn so far: 1 .. used
    accounts,   \* accounts at the target that let their holder in
    lapsed,     \* credentials whose expires_at has passed
    unsure,     \* history: COMMITs that took effect and were reported as failed
    auditLock,  \* holder of the audit chain's advisory lock: {} or one request
    pc, items,  \* per request: stage, items of the batch still to serve
    cred,       \* per request: the credential it creates or answers with, or 0
    status,     \* per request: what its transaction has written to that row
    seen,       \* per request: rows its UPDATE has seen as not revoked
    touched     \* per request: rows its UPDATE has revoked, and has locked

external == <<accounts, lapsed>>
tx == <<auditLock, cred, status, seen, touched>>
vars == <<rows, used, external, unsure, tx, pc, items>>

Ids == 1 .. MaxIds
Row == [status : {"absent", "PROVISIONING", "ACTIVE", "FAILED"}, revoked : BOOLEAN]
Absent == [status |-> "absent", revoked |-> FALSE]
Stored(i) == rows[i].status # "absent"
\* What reconcile_stale_provisioning looks for.
Stale(i) == rows[i].status \in {"PENDING", "PROVISIONING", "FAILED", "REVOKING"}
\* fetch_latest_active_provisioned_credential_for_service_target
Live(i) == rows[i].status = "ACTIVE" /\ ~rows[i].revoked /\ i \notin lapsed

Init ==
    /\ rows = [i \in Ids |-> Absent] /\ used = 0
    /\ accounts = {} /\ lapsed = {} /\ unsure = {}
    /\ auditLock = {}
    /\ pc = [r \in Reqs |-> "idle"] /\ items = [r \in Reqs |-> 0]
    /\ cred = [r \in Reqs |-> 0] /\ status = [r \in Reqs |-> "absent"]
    /\ seen = [r \in Reqs |-> {}] /\ touched = [r \in Reqs |-> {}]

-----------------------------------------------------------------------------
Goto(r, stage) == pc' = [pc EXCEPT ![r] = stage]

\* The transaction ends, one way or the other: its locks are free.
Release(r) ==
    /\ auditLock' = auditLock \ {r}
    /\ touched' = [touched EXCEPT ![r] = {}]
    /\ seen' = [seen EXCEPT ![r] = {}]
    /\ status' = [status EXCEPT ![r] = "absent"]

Close(r) ==
    /\ Goto(r, "idle")
    /\ items' = [items EXCEPT ![r] = 0]
    /\ cred' = [cred EXCEPT ![r] = 0]

\* A request for one credential, or a batch; a batch with an item the policy
\* does not allow is refused before its first item.
Begin(r) ==
    /\ pc[r] = "idle"
    /\ \E n \in 1 .. MaxItems : items' = [items EXCEPT ![r] = n]
    /\ Goto(r, "check")
    /\ UNCHANGED <<rows, used, external, unsure, tx>>

\* There is a live row: the latest is opened and answered with.
Reuse(r) ==
    /\ pc[r] = "check"
    /\ \E i \in Ids :
         /\ Live(i) /\ \A j \in Ids : Live(j) => j <= i
         /\ cred' = [cred EXCEPT ![r] = i]
    /\ Goto(r, "answer")
    /\ UNCHANGED <<rows, used, external, unsure, auditLock, status, seen, touched, items>>

\* There is none: the vHSM generates a credential.
Generate(r) ==
    /\ pc[r] = "check" /\ \A i \in Ids : ~Live(i)
    /\ Goto(r, "begin")
    /\ UNCHANGED <<rows, used, external, unsure, tx, items>>

\* Mutant of Snapshot: rows whose time has passed are not looked at.
SnapshotUnexpired(r) ==
    /\ pc[r] = "begin"
    /\ seen' = [seen EXCEPT ![r] = {i \in Ids : Live(i)}]
    /\ Goto(r, "revoke")
    /\ UNCHANGED <<rows, used, external, unsure, auditLock, cred, status, touched, items>>

\* BEGIN, and the snapshot of revoke_active_credentials_for_target.
Snapshot(r) ==
    /\ pc[r] = "begin"
    /\ seen' = [seen EXCEPT ![r] = {i \in Ids : Stored(i) /\ ~rows[i].revoked}]
    /\ Goto(r, "revoke")
    /\ UNCHANGED <<rows, used, external, unsure, auditLock, cred, status, touched, items>>

\* Mutant of Revoke: rows another transaction has locked are skipped.
RevokeSkipsLocked(r) ==
    /\ pc[r] = "revoke"
    /\ touched' = [touched EXCEPT ![r] =
         {i \in seen[r] : ~rows[i].revoked /\ \A q \in Reqs : i \notin touched[q]}]
    /\ Goto(r, "insert")
    /\ UNCHANGED <<rows, used, external, unsure, auditLock, cred, status, seen, items>>
\* Mutant of Revoke: the statement runs on the pool, outside the transaction.
RevokeOnPool(r) ==
    /\ pc[r] = "revoke" /\ \A q \in Reqs : touched[q] \cap seen[r] = {}
    /\ rows' = [i \in Ids |-> IF i \in seen[r] THEN [rows[i] EXCEPT !.revoked = TRUE]
                              ELSE rows[i]]
    /\ Goto(r, "insert")
    /\ UNCHANGED <<used, external, unsure, tx, items>>

\* The UPDATE waits for the locks of the rows it has seen, and looks at each
\* of them again.
Revoke(r) ==
    /\ pc[r] = "revoke" /\ \A q \in Reqs : touched[q] \cap seen[r] = {}
    /\ touched' = [touched EXCEPT ![r] = {i \in seen[r] : ~rows[i].revoked}]
    /\ Goto(r, "insert")
    /\ UNCHANGED <<rows, used, external, unsure, auditLock, cred, status, seen, items>>

\* The vHSM seals the payload and the row is inserted, as PROVISIONING.
Insert(r) ==
    /\ pc[r] = "insert" /\ used < MaxIds
    /\ used' = used + 1
    /\ cred' = [cred EXCEPT ![r] = used + 1]
    /\ status' = [status EXCEPT ![r] = "PROVISIONING"]
    /\ Goto(r, "create")
    /\ UNCHANGED <<rows, external, unsure, auditLock, seen, touched, items>>

\* The vHSM or the INSERT fails (as it always does at the bound).
InsertError(r) ==
    /\ pc[r] = "insert"
    /\ Release(r) /\ Close(r)
    /\ UNCHANGED <<rows, used, external, unsure>>

\* Mutant of CreateUser: the error of the provider is only logged.
CreateUserUnchecked(r) ==
    /\ pc[r] = "create"
    /\ accounts' \in {accounts, accounts \cup {cred[r]}}
    /\ Goto(r, "activate")
    /\ UNCHANGED <<rows, used, lapsed, unsure, tx, items>>

\* provider.create_user: done; or failed, with the account there (CREATE USER
\* went through, GRANT did not; or the answer was lost) or not.
CreateUser(r) ==
    /\ pc[r] = "create"
    /\ \/ /\ accounts' = accounts \cup {cred[r]}
          /\ Goto(r, "activate") /\ UNCHANGED status
       \/ /\ accounts' \in {accounts, accounts \cup {cred[r]}}
          /\ status' = [status EXCEPT ![r] = "FAILED"]
          /\ Goto(r, "rollback")
    /\ UNCHANGED <<rows, used, lapsed, unsure, auditLock, cred, seen, touched, items>>

Activate(r) ==
    /\ pc[r] = "activate"
    /\ status' = [status EXCEPT ![r] = "ACTIVE"]
    /\ Goto(r, "audit")
    /\ UNCHANGED <<rows, used, external, unsure, auditLock, cred, seen, touched, items>>

\* insert_audit_log_tx waits for the chain's lock, reads and inserts.
Audit(r) ==
    /\ pc[r] = "audit" /\ auditLock = {}
    /\ auditLock' = {r}
    /\ Goto(r, "commit")
    /\ UNCHANGED <<rows, used, external, unsure, cred, status, seen, touched, items>>

\* What the COMMIT shows to everyone.
Publish(r) ==
    rows' = [i \in Ids |->
        IF i = cred[r] THEN [status |-> status[r], revoked |-> FALSE]
        ELSE IF i \in touched[r] THEN [rows[i] EXCEPT !.revoked = TRUE]
        ELSE rows[i]]

Commit(r) ==
    /\ pc[r] = "commit"
    /\ Publish(r) /\ Release(r)
    /\ Goto(r, "answer")
    /\ UNCHANGED <<used, external, unsure, cred, items>>

\* Mutant of CommitError: the client is answered all the same.
CommitErrorAnswered(r) ==
    /\ pc[r] = "commit"
    /\ Release(r)
    /\ Goto(r, "answer")
    /\ UNCHANGED <<rows, used, external, unsure, cred, items>>

\* commit() fails: the transaction is rolled back, or it is not and only the
\* answer to the COMMIT was lost.
CommitError(r) ==
    /\ pc[r] = "commit"
    /\ \/ UNCHANGED <<rows, unsure>>
       \/ Publish(r) /\ unsure' = unsure \cup {cred[r]}
    /\ Release(r)
    /\ Goto(r, "undo")
    /\ UNCHANGED <<used, external, cred, items>>

\* provider.revoke_user, whose result is ignored; the request fails.
Undo(r) ==
    /\ pc[r] = "undo"
    /\ accounts' \in {accounts, accounts \ {cred[r]}}
    /\ Close(r)
    /\ UNCHANGED <<rows, used, lapsed, unsure, auditLock, status, seen, touched>>

\* Mutant of Rollback: the FAILED row is kept.
RollbackCommits(r) ==
    /\ pc[r] = "rollback"
    /\ Publish(r) /\ Release(r) /\ Close(r)
    /\ UNCHANGED <<used, external, unsure>>

\* The provider has failed: tx.rollback(), and the FAILED goes with it.
Rollback(r) ==
    /\ pc[r] = "rollback"
    /\ Release(r) /\ Close(r)
    /\ UNCHANGED <<rows, used, external, unsure>>

\* Mutant of Abort: the session keeps the audit chain's lock.
AbortKeepsLock(r) ==
    /\ pc[r] # "idle"
    /\ touched' = [touched EXCEPT ![r] = {}]
    /\ seen' = [seen EXCEPT ![r] = {}]
    /\ status' = [status EXCEPT ![r] = "absent"]
    /\ Close(r)
    /\ UNCHANGED <<rows, used, external, unsure, auditLock>>

\* An error returned with `?`, a handler dropped with its connection, or the
\* end of the process, at any await: the transaction is dropped and rolls back.
\* What the other items of a batch have left stays, unanswered.
Abort(r) ==
    /\ pc[r] # "idle"
    /\ Release(r) /\ Close(r)
    /\ UNCHANGED <<rows, used, external, unsure>>

\* The item is done: the next one, or the response to the client.
Answer(r) ==
    /\ pc[r] = "answer"
    /\ \/ /\ items[r] > 1
          /\ Goto(r, "check")
          /\ items' = [items EXCEPT ![r] = @ - 1]
          /\ cred' = [cred EXCEPT ![r] = 0]
       \/ items[r] = 1 /\ Close(r)
    /\ UNCHANGED <<rows, used, external, unsure, auditLock, status, seen, touched>>

\* expires_at passes.
Lapse(i) ==
    /\ i <= used /\ i \notin lapsed
    /\ lapsed' = lapsed \cup {i}
    /\ UNCHANGED <<rows, used, accounts, unsure, tx, pc, items>>

\* VALID UNTIL passes.  create_user adds the ttl to a later reading of the clock
\* than execute did for expires_at.  (A Redis account does not expire.)
Expire(i) ==
    /\ i \in accounts /\ i \in lapsed
    /\ accounts' = accounts \ {i}
    /\ UNCHANGED <<rows, used, lapsed, unsure, tx, pc, items>>

-----------------------------------------------------------------------------
Issue(r) ==
    \/ Reuse(r) \/ Generate(r) \/ Snapshot(r) \/ Revoke(r) \/ Insert(r) \/ InsertError(r)
    \/ CreateUser(r) \/ Activate(r) \/ Audit(r) \/ Commit(r) \/ CommitError(r)
    \/ Undo(r) \/ Rollback(r) \/ Answer(r)

Next ==
    \/ \E r \in Reqs : Begin(r) \/ Issue(r) \/ Abort(r)
    \/ \E i \in Ids : Lapse(i) \/ Expire(i)

Spec == Init /\ [][Next]_vars

\* A request that was begun goes on: the vHSM and the provider answer or fail,
\* and PostgreSQL serves those who wait for a row's or an advisory lock in the
\* order they came.
Fairness == \A r \in Reqs : WF_vars(Issue(r)) /\ SF_vars(Revoke(r) \/ Audit(r))
FairSpec == Spec /\ Fairness

-----------------------------------------------------------------------------
InTx == {"revoke", "insert", "create", "activate", "audit", "commit", "rollback"}

\* Every variable has its type, and a number stands for what was drawn.
TypeOK ==
    /\ rows \in [Ids -> Row] /\ used \in 0 .. MaxIds
    /\ accounts \subseteq 1 .. used /\ lapsed \subseteq 1 .. used
    /\ unsure \subseteq 1 .. used /\ auditLock \subseteq Reqs
    /\ pc \in [Reqs -> InTx \cup {"idle", "check", "begin", "undo", "answer"}]
    /\ items \in [Reqs -> 0 .. MaxItems] /\ cred \in [Reqs -> 0 .. used]
    /\ status \in [Reqs -> {"absent", "PROVISIONING", "ACTIVE", "FAILED"}]
    /\ seen \in [Reqs -> SUBSET Ids] /\ touched \in [Reqs -> SUBSET Ids]

\* A row that the next request will be answered with has an account behind it at
\* the target, though the two systems share no transaction: whatever failed,
\* was dropped or has expired.  The one exception is a COMMIT that took effect
\* and was taken for failed, after which the account is removed.
LiveHasAccount == \A i \in Ids : Live(i) => i \in accounts \/ i \in unsure

\* What a client is answered with, alone or in a batch, new or reused, is on
\* record; and an answer is never the row of a transaction still under way.
AnswerOnRecord ==
    \A r \in Reqs : pc[r] = "answer" =>
        /\ rows[cred[r]].status = "ACTIVE"
        /\ \A q \in Reqs : pc[q] \in InTx => cred[q] # cred[r]

\* reconcile_stale_provisioning finds nothing, whatever went wrong: PROVISIONING
\* and FAILED live and die inside a transaction, and no one else ever sees a
\* row in a status other than ACTIVE.
OnlyActiveStored == \A i \in Ids : ~Stale(i)

\* A COMMIT leaves no row valid that its transaction had seen when it set out
\* to revoke them, though other transactions, which commit or roll back while
\* it waits for their locks, are revoking the same rows.
CommitSupersedes ==
    [][ \A r \in Reqs : pc[r] = "commit" /\ pc'[r] = "answer"
            => \A i \in seen[r] : rows'[i].revoked ]_vars

\* A credential is revoked only together with the arrival of another one: no
\* failure, at whatever step of the transaction, leaves the caller with none.
RevokedByReplacement ==
    [][ (\E i \in Ids : rows'[i].revoked /\ ~rows[i].revoked)
        => \E j \in Ids : ~Stored(j) /\ rows'[j].status = "ACTIVE" /\ ~rows'[j].revoked ]_vars

\* The table, as others see it, is a CredentialRegister, although a replacement
\* is ten steps in three systems: whatever interleaves, waits, fails, is dropped
\* or is misreported, it happens in one step or not at all, and a client is
\* answered with the credential of its own replacement or one that is valid.
Valid == {i \in Ids : Stored(i) /\ ~rows[i].revoked}
Ever == {i \in Ids : Stored(i)}
Busy == {r \in Reqs : pc[r] \in InTx}
Found == [r \in Reqs |-> IF pc[r] \in InTx THEN seen[r] ELSE {}]
Answered == [r \in Reqs |-> IF pc[r] = "answer" THEN cred[r] ELSE 0]
Register == INSTANCE CredentialRegister WITH Clients <- Reqs, valid <- Valid,
    ever <- Ever, busy <- Busy, found <- Found, answer <- Answered
ImplementsRegister == Register!Spec

\* Requests that wait for each other's rows and for the audit chain's lock, in
\* this order, all come to an end.
EveryIssueEnds == \A r \in Reqs : pc[r] # "idle" ~> pc[r] = "idle"

\* issue_agent_credential.rs:340: "Zapis posredniego rekordu lifecycle do
\* KMS przed utworzeniem konta zewnetrznego" (the record is written to the KMS
\* before the external account is created): once nothing is under way, every
\* account is on record.
AccountsOnRecord == (\A r \in Reqs : pc[r] = "idle") => \A i \in accounts : Stored(i)
=============================================================================
