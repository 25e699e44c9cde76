---------------------------- MODULE Provisioning ----------------------------
(***************************************************************************)
(* How a deployment gets its contents: `ca init` (InitRootCa::execute), the *)
(* bootstrap import (import_bootstrap) and `ca load` (post_ca_load).  Each  *)
(* init and each import is one PostgreSQL transaction at READ COMMITTED: it *)
(* sees what others have committed and what it has written itself, an       *)
(* INSERT waits for a transaction that holds the same unique key, and       *)
(* advisory locks are held to the end of the transaction.                   *)
(*                                                                         *)
(* The transaction occupies a connection of the pool; init looks up the KEK *)
(* on a second one while it holds the first.  The CLI has the vHSM make the *)
(* key pair of a Root CA before it asks for init, so the key is named after *)
(* the request.  The CLI does not repeat a request; one more request does.  *)
(***************************************************************************)
EXTENDS Naturals, Sequences, FiniteSets

CONSTANTS
    Reqs,   \* requests to init a Root CA or to import a file
    Tags,   \* values of ca_tag
    Ids,    \* UUIDs that records of bootstrap files carry
    Names,  \* values of target_name
    Files,  \* bootstrap files: target_resources, then credentials
    Provisioned,  \* ids in provisioned_credentials: issue draws fresh ones and
                  \* nothing deletes a row, so an id is there from the start
    Pool    \* pool_size: connections of the pool

NoTag == "no tag"
NoId == "no id"      \* the record has no id: import draws a fresh one
NoName == "no name"
Record == [table : {"target_resources", "db_credentials"}, id : Ids \cup {NoId},
           name : Names \cup {NoName}]

ASSUME TagsAssumption == NoTag \notin Tags
ASSUME FilesAssumption ==
    /\ Files \subseteq Seq(Record)
    /\ \A f \in Files : Len(f) > 0   \* an empty import is refused
ASSUME ProvisionedAssumption == Provisioned \subseteq Ids
ASSUME PoolAssumption == Pool \in Nat \ {0}

VARIABLES
    rows,       \* root_cas, target_resources and db_credentials, as committed
    audit,      \* requests whose audit record is committed
    tagLock,    \* per tag: the holder of its advisory lock, {} or one request
    auditLock,  \* holder of the audit chain's advisory lock
    pc,         \* per request: stage
    tag, file,  \* per request: what it asks for
    idx,        \* per request: the record of the file it is at
    pend,       \* per request: rows its transaction has written
    loading,    \* per tag: {the key ca load has fetched from root_cas}, or {}
    hsm         \* per tag: {the key in the vHSM, and where it came from}, or {}

request == <<tag, file>>
vars == <<rows, audit, tagLock, auditLock, pc, request, idx, pend, loading, hsm>>

InTx == {"lock", "exists", "kek", "insert", "audit", "commit"}
\* An init is answered 409 in two cases: the tag is taken; there is no KEK.
Done == {"ok", "taken", "no kek", "failed"}
Stages == {"idle", "begin"} \cup InTx \cup Done
IsInit(r) == tag[r] # NoTag

Key(r, i) == IF file[r][i].id = NoId THEN <<r, i>> ELSE file[r][i].id
RecordRow(r, i) ==
    [table |-> file[r][i].table, key |-> Key(r, i), name |-> file[r][i].name, by |-> r]
CaRow(r) == [table |-> "root_cas", key |-> tag[r], name |-> NoName, by |-> r]
\* The row the request is about to write.
NextRow(r) == IF IsInit(r) THEN CaRow(r) ELSE RecordRow(r, idx[r])

\* The unique indexes: the primary keys and ca_tag; target_name.
SameKey(x, y) == x.table = y.table /\ x.key = y.key
SameName(x, y) ==
    x.table = "target_resources" /\ y.table = "target_resources" /\ x.name = y.name
Clash(x, y) == SameKey(x, y) \/ SameName(x, y)

Visible(r) == rows \cup pend[r]
KeyTaken(r) == \E x \in Visible(r) : SameKey(x, NextRow(r))
\* A credential whose id is in provisioned_credentials.
Elsewhere(x) == x.table = "db_credentials" /\ x.key \in Provisioned
NameTaken(r) == \E x \in Visible(r) : SameName(x, NextRow(r))

\* max_connections of connect(): is a connection of the pool free?
FreeConn == Cardinality({r \in Reqs : pc[r] \in InTx}) < Pool

\* PostgreSQL makes r wait for q.
WaitsFor(r, q) ==
    \/ pc[r] = "lock" /\ q \in tagLock[tag[r]]
    \/ pc[r] = "insert" /\ \E x \in pend[q] : q # r /\ Clash(x, NextRow(r))
    \/ pc[r] = "audit" /\ q \in auditLock
Waits(r) == \E q \in Reqs : WaitsFor(r, q)

Init ==
    /\ rows = {} /\ audit = {}
    /\ tagLock = [t \in Tags |-> {}] /\ auditLock = {}
    /\ pc = [r \in Reqs |-> "idle"]
    /\ tag = [r \in Reqs |-> NoTag] /\ file = [r \in Reqs |-> << >>]
    /\ idx = [r \in Reqs |-> 1] /\ pend = [r \in Reqs |-> {}]
    /\ loading = [t \in Tags |-> {}] /\ hsm = [t \in Tags |-> {}]

-----------------------------------------------------------------------------
Goto(r, stage) == pc' = [pc EXCEPT ![r] = stage]

Release(r) ==
    /\ tagLock' = [t \in Tags |-> tagLock[t] \ {r}]
    /\ auditLock' = auditLock \ {r}
    /\ pend' = [pend EXCEPT ![r] = {}]

\* An error returns; the transaction is rolled back when it is dropped.
Rollback(r) ==
    /\ Goto(r, "failed") /\ Release(r)
    /\ UNCHANGED <<rows, audit, request, idx, loading, hsm>>

\* POST /ca/init, after the vHSM has made the key pair.
StartInit(r) ==
    /\ pc[r] = "idle"
    /\ \E t \in Tags : tag' = [tag EXCEPT ![r] = t]
    /\ Goto(r, "begin")
    /\ UNCHANGED <<rows, audit, tagLock, auditLock, file, idx, pend, loading, hsm>>

\* POST /admin/bootstrap/import, past the CLI's and the service's validation.
StartImport(r) ==
    /\ pc[r] = "idle"
    /\ \E f \in Files : file' = [file EXCEPT ![r] = f]
    /\ Goto(r, "begin")
    /\ UNCHANGED <<rows, audit, tagLock, auditLock, tag, idx, pend, loading, hsm>>

\* The ACL has no BootstrapImport for the caller, the version is not 1, or
\* there is nothing to import; or init's base64 does not decode.
Reject(r) ==
    /\ pc[r] = "idle"
    /\ Goto(r, "failed")
    /\ UNCHANGED <<rows, audit, tagLock, auditLock, request, idx, pend, loading, hsm>>

\* state.db.begin(): a connection of the pool, kept to the end.
Begin(r) ==
    /\ pc[r] = "begin" /\ FreeConn
    /\ Goto(r, IF IsInit(r) THEN "lock" ELSE "exists")
    /\ UNCHANGED <<rows, audit, tagLock, auditLock, request, idx, pend, loading, hsm>>

\* advisory_xact_lock_tx(ca_tag)
LockTag(r) ==
    /\ pc[r] = "lock" /\ tagLock[tag[r]] = {}
    /\ tagLock' = [tagLock EXCEPT ![tag[r]] = {r}]
    /\ Goto(r, "exists")
    /\ UNCHANGED <<rows, audit, auditLock, request, idx, pend, loading, hsm>>

\* exists_by_tag_tx, target_resource_exists_by_id.  credential_exists_by_id
\* asks provisioned_credentials, and not the table the INSERT writes to.
Exists(r) ==
    IF NextRow(r).table = "db_credentials" THEN Elsewhere(NextRow(r)) ELSE KeyTaken(r)

ExistsNot(r) ==
    /\ pc[r] = "exists" /\ ~Exists(r)
    /\ Goto(r, IF IsInit(r) THEN "kek" ELSE "insert")
    /\ UNCHANGED <<rows, audit, tagLock, auditLock, request, idx, pend, loading, hsm>>

\* An init returns a ValidationError: the transaction is dropped.
Refuse(r, answer) ==
    /\ Goto(r, answer) /\ Release(r)
    /\ UNCHANGED <<rows, audit, request, idx, loading, hsm>>

\* Init finds the tag taken, by its look or by ON CONFLICT (ca_tag) DO NOTHING.
RefuseInit(r) ==
    /\ pc[r] \in {"exists", "insert"} /\ IsInit(r) /\ KeyTaken(r)
    /\ Refuse(r, "taken")

\* fetch_latest_kek_id(&state.db, "kms-system"): a second connection, for the
\* length of the query.
FetchKek(r) ==
    /\ pc[r] = "kek" /\ FreeConn
    /\ Goto(r, "insert")
    /\ UNCHANGED <<rows, audit, tagLock, auditLock, request, idx, pend, loading, hsm>>

\* The same query finds no active KEK of kms-system.
NoKek(r) ==
    /\ pc[r] = "kek" /\ FreeConn
    /\ Refuse(r, "no kek")

\* On to the next record, or to the audit record.
Advance(r) ==
    IF IsInit(r) \/ idx[r] = Len(file[r])
      THEN Goto(r, "audit") /\ UNCHANGED idx
      ELSE Goto(r, "exists") /\ idx' = [idx EXCEPT ![r] = idx[r] + 1]

\* The import leaves out a record that is already there: by its look, or by
\* ON CONFLICT (id) DO NOTHING.
SkipRecord(r) ==
    /\ ~IsInit(r)
    /\ \/ pc[r] = "exists" /\ Exists(r)
       \/ pc[r] = "insert" /\ KeyTaken(r) /\ ~Waits(r)
    /\ Advance(r)
    /\ UNCHANGED <<rows, audit, tagLock, auditLock, request, pend, loading, hsm>>

\* Mutant of Insert: the statement runs on the pool, outside the transaction.
InsertOnPool(r) ==
    /\ pc[r] = "insert" /\ ~Waits(r) /\ ~KeyTaken(r) /\ ~NameTaken(r)
    /\ rows' = rows \cup {NextRow(r)}
    /\ Advance(r)
    /\ UNCHANGED <<audit, tagLock, auditLock, request, pend, loading, hsm>>
\* Mutant of Insert: no unique index makes the statement wait.
InsertUnguarded(r) ==
    /\ pc[r] = "insert" /\ ~KeyTaken(r) /\ ~NameTaken(r)
    /\ pend' = [pend EXCEPT ![r] = @ \cup {NextRow(r)}]
    /\ Advance(r)
    /\ UNCHANGED <<rows, audit, tagLock, auditLock, request, loading, hsm>>

\* insert_root_ca; or encrypt_private_key and insert_target_resource or
\* insert_db_credential.
Insert(r) ==
    /\ pc[r] = "insert" /\ ~Waits(r) /\ ~KeyTaken(r) /\ ~NameTaken(r)
    /\ pend' = [pend EXCEPT ![r] = @ \cup {NextRow(r)}]
    /\ Advance(r)
    /\ UNCHANGED <<rows, audit, tagLock, auditLock, request, loading, hsm>>

\* ON CONFLICT (id) does not cover target_name: the statement fails.
InsertNameTaken(r) ==
    /\ pc[r] = "insert" /\ ~Waits(r) /\ ~KeyTaken(r) /\ NameTaken(r)
    /\ Rollback(r)

\* lock_audit_chain_tx
LockAudit(r) ==
    /\ pc[r] = "audit" /\ auditLock = {}
    /\ auditLock' = {r}
    /\ Goto(r, "commit")
    /\ UNCHANGED <<rows, audit, tagLock, request, idx, pend, loading, hsm>>

\* Mutant of Commit: a COMMIT whose answer is lost is tried once more.
CommitRetries(r) ==
    /\ pc[r] = "commit"
    /\ rows' = rows \cup pend[r] /\ audit' = audit \cup {r}
    /\ Release(r)
    /\ \E end \in {"ok", "begin"} : Goto(r, end)
    /\ UNCHANGED <<request, idx, loading, hsm>>

\* The audit record and COMMIT; the answer to COMMIT may be lost.
Commit(r) ==
    /\ pc[r] = "commit"
    /\ rows' = rows \cup pend[r] /\ audit' = audit \cup {r}
    /\ Release(r)
    /\ \E end \in {"ok", "failed"} : Goto(r, end)
    /\ UNCHANGED <<request, idx, loading, hsm>>

\* The vHSM or a statement fails, an import finds no active KEK, the caller
\* hangs up, or the service stops.
Fail(r) ==
    /\ pc[r] \in {"begin"} \cup InTx
    /\ Rollback(r)

\* Mutant of PoolTimeout: the pool lets its callers wait for ever.
PoolTimeoutNever(r) == FALSE /\ Rollback(r)

\* acquire() gives up after a while without a free connection.
PoolTimeout(r) ==
    /\ pc[r] \in {"begin", "kek"} /\ ~FreeConn
    /\ Rollback(r)

\* Requests that wait for each other in a ring.
Ring(D) == D # {} /\ \A q \in D : \E s \in D : WaitsFor(q, s)
Deadlocked(D) == Ring(D) /\ \A E \in SUBSET D : Ring(E) => E = D

\* PostgreSQL finds the ring and aborts one of its transactions.
DeadlockAbort(r) ==
    /\ \E D \in SUBSET Reqs : r \in D /\ Deadlocked(D)
    /\ Rollback(r)

\* Mutant of LoadFetch: the blob is that of the latest init, committed or not.
LoadFetchInput(t) ==
    /\ loading[t] = {} /\ FreeConn
    /\ \E r \in Reqs : tag[r] = t /\ loading' = [loading EXCEPT ![t] = {r}]
    /\ UNCHANGED <<rows, audit, tagLock, auditLock, pc, request, idx, pend, hsm>>

\* post_ca_load without a blob: fetch_active_by_tag, 404 if there is none.
LoadFetch(t) ==
    /\ loading[t] = {} /\ FreeConn
    /\ \E x \in rows : /\ x.table = "root_cas" /\ x.key = t
                       /\ loading' = [loading EXCEPT ![t] = {x.by}]
    /\ UNCHANGED <<rows, audit, tagLock, auditLock, pc, request, idx, pend, hsm>>

\* The vHSM takes the key, or answers with an error.
LoadInstall(t) ==
    /\ loading[t] # {}
    /\ hsm' \in {hsm, [hsm EXCEPT ![t] = {[key |-> k, via |-> "db"] : k \in loading[t]}]}
    /\ loading' = [loading EXCEPT ![t] = {}]
    /\ UNCHANGED <<rows, audit, tagLock, auditLock, pc, request, idx, pend>>

\* ca load with a blob, from whichever `ca init` printed it: root_cas is not
\* asked.  The CLI loads it itself and has the service load it once more.
LoadBlob(t) ==
    /\ \E r \in Reqs : /\ IsInit(r)
                       /\ hsm' = [hsm EXCEPT ![t] = {[key |-> r, via |-> "blob"]}]
    /\ UNCHANGED <<rows, audit, tagLock, auditLock, pc, request, idx, pend, loading>>

HsmRestart ==
    /\ hsm' = [t \in Tags |-> {}]
    /\ UNCHANGED <<rows, audit, tagLock, auditLock, pc, request, idx, pend, loading>>

Step(r) ==
    \/ Begin(r) \/ LockTag(r) \/ ExistsNot(r) \/ RefuseInit(r) \/ FetchKek(r)
    \/ NoKek(r) \/ SkipRecord(r) \/ Insert(r) \/ InsertNameTaken(r) \/ LockAudit(r) \/ Commit(r)

Next ==
    \/ \E r \in Reqs :
         \/ StartInit(r) \/ StartImport(r) \/ Reject(r)
         \/ Step(r) \/ Fail(r) \/ PoolTimeout(r) \/ DeadlockAbort(r)
    \/ \E t \in Tags : LoadFetch(t) \/ LoadInstall(t) \/ LoadBlob(t)
    \/ HsmRestart

Spec == Init /\ [][Next]_vars

\* A request runs as long as nothing holds it up; the pool's timeout and the
\* server's deadlock detection do what they are for.
Fairness ==
    \A r \in Reqs :
      WF_vars(Step(r)) /\ WF_vars(PoolTimeout(r)) /\ WF_vars(DeadlockAbort(r))
FairSpec == Spec /\ Fairness

-----------------------------------------------------------------------------
Rows == [table : {"root_cas", "target_resources", "db_credentials"},
         key : Tags \cup Ids \cup (Reqs \X Nat), name : Names \cup {NoName}, by : Reqs]

\* The values the variables take.
TypeOK ==
    /\ rows \subseteq Rows /\ audit \subseteq Reqs
    /\ tagLock \in [Tags -> SUBSET Reqs] /\ auditLock \subseteq Reqs
    /\ pc \in [Reqs -> Stages]
    /\ tag \in [Reqs -> Tags \cup {NoTag}] /\ file \in [Reqs -> Files \cup {<< >>}]
    /\ idx \in [Reqs -> Nat \ {0}] /\ pend \in [Reqs -> SUBSET Rows]
    /\ loading \in [Tags -> SUBSET Reqs]
    /\ hsm \in [Tags -> SUBSET [key : Reqs, via : {"db", "blob"}]]

\* Is what the request asks for in the database?  A credential may be there
\* under its id in provisioned_credentials, without a row in db_credentials.
Granted(r) ==
    IF IsInit(r) THEN CaRow(r) \in rows
    ELSE \A i \in 1 .. Len(file[r]) :
           Elsewhere(RecordRow(r, i)) \/ \E x \in rows : SameKey(x, RecordRow(r, i))

\* All or nothing, whatever fails and whoever runs at the same time: a row is
\* in the database only if the audit record of its request is, and that
\* request has all it asked for; "ok" is answered to such requests only.  An
\* init hears that its tag is taken only beside a Root CA of another init.
CommittedWhole ==
    /\ \A x \in rows : x.by \in audit
    /\ \A r \in audit : Granted(r)
    /\ \A r \in Reqs : pc[r] = "ok" => r \in audit
    /\ \A r \in Reqs : pc[r] = "taken" =>
         \E x \in rows : SameKey(x, CaRow(r)) /\ x.by # r

\* Requests at the same time, or one after the other, leave one row for a
\* ca_tag, for a record's id and for a target_name.
NoDuplicates == \A x, y \in rows : Clash(x, y) => x = y

\* A key that came into the vHSM from root_cas is the one on record for its
\* tag, whichever inits of the tag were under way, refused or rolled back.
LoadedOnRecord ==
    \A t \in Tags : \A h \in hsm[t] :
      h.via = "db" => \E x \in rows : x.table = "root_cas" /\ x.key = t /\ x.by = h.key

\* What tests/ca_init_idempotency.rs asserts of the CLI: once an init of a tag
\* has succeeded, a second one of the same tag succeeds as well, and is not
\* told that the tag is taken.
InitRepeatable ==
    \A q, r \in Reqs : pc[q] = "ok" /\ pc[r] = "taken" => tag[q] # tag[r]

\* The database is a Catalogue: inits and imports that look, skip, wait and
\* insert record by record, at the level READ COMMITTED and beside each other,
\* leave what they would leave if each of them ran alone, at its COMMIT.
Wanted(r) == IF IsInit(r) THEN {CaRow(r)} ELSE {RecordRow(r, i) : i \in 1 .. Len(file[r])}
Wants == [r \in Reqs |-> Wanted(r)]
Answers == [r \in Reqs |-> IF pc[r] \in Done THEN pc[r] ELSE "none"]
Book == INSTANCE Catalogue WITH wanted <- Wants, answer <- Answers
ImplementsCatalogue == Book!Spec

\* No request hangs: not behind two inits that hold the whole pool and wait
\* for one more connection each, and not behind imports that list the same
\* records in a different order.
EveryRequestEnds == \A r \in Reqs : pc[r] # "idle" ~> pc[r] \in Done
=============================================================================
