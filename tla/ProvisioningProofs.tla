------------------------- MODULE ProvisioningProofs -------------------------
(***************************************************************************)
(* Proofs about Provisioning, for any number of requests, tags, files and   *)
(* connections.                                                             *)
(*                                                                         *)
(* Disjoint is what the unique indexes keep true of rows that are committed *)
(* and rows that are not yet: none of them clash, whoever wrote them.       *)
(* ReqGood follows a request: what it has passed in its file is there, in   *)
(* the table or in its own transaction, and before its COMMIT nothing that  *)
(* is its own is in the table.  Neither needs the advisory lock on the tag  *)
(* nor the looks before the inserts.  Asked adds that a transaction writes  *)
(* only what its request asks for; with it the whole is a Catalogue.        *)
(***************************************************************************)
EXTENDS Provisioning, TLAPS

Has(r, i) ==
    Elsewhere(RecordRow(r, i)) \/ \E x \in Visible(r) : SameKey(x, RecordRow(r, i))

ReqGood(r) ==
    /\ pc[r] = "idle" => tag[r] = NoTag
    /\ pc[r] \in {"idle", "begin"} => idx[r] = 1
    /\ pc[r] \in {"lock", "kek"} => IsInit(r)
    /\ pc[r] \in {"begin"} \cup InTx => IsInit(r) \/ file[r] \in Files
    /\ \A x \in pend[r] : x.by = r
    /\ pend[r] # {} => pc[r] \in InTx
    /\ IsInit(r) /\ pc[r] \in {"lock", "exists", "kek", "insert"} => pend[r] = {}
    /\ ~IsInit(r) /\ pc[r] \in {"exists", "insert"} =>
         idx[r] \in 1 .. Len(file[r]) /\ \A i \in 1 .. idx[r] - 1 : Has(r, i)
    /\ pc[r] \in {"audit", "commit"} =>
         IF IsInit(r) THEN CaRow(r) \in pend[r] ELSE \A i \in 1 .. Len(file[r]) : Has(r, i)
    /\ r \in audit => pc[r] \in Done /\ Granted(r)
    /\ pc[r] = "ok" => r \in audit
    /\ pc[r] = "taken" => \E x \in rows : SameKey(x, CaRow(r)) /\ x.by # r
    /\ pc[r] = "insert" => ~Elsewhere(NextRow(r))

Disjoint ==
    /\ NoDuplicates
    /\ \A q \in Reqs : \A x \in pend[q], y \in rows : ~Clash(x, y)
    /\ \A q \in Reqs : \A x, y \in pend[q] : Clash(x, y) => x = y
    /\ \A p, q \in Reqs : p # q => \A x \in pend[p], y \in pend[q] : ~Clash(x, y)

KeysGood ==
    /\ \A t \in Tags : \A k \in loading[t] :
         \E x \in rows : x.table = "root_cas" /\ x.key = t /\ x.by = k
    /\ \A t \in Tags : \A h \in hsm[t] : h.via = "db" =>
         \E x \in rows : x.table = "root_cas" /\ x.key = t /\ x.by = h.key

Inv ==
    /\ TypeOK
    /\ \A r \in Reqs : ReqGood(r)
    /\ Disjoint
    /\ KeysGood
    /\ \A x \in rows : x.by \in audit

LEMMA ClashSymmetric == \A x, y : Clash(x, y) <=> Clash(y, x)
  BY DEF Clash, SameKey, SameName

\* What is written is a row, with its writer on it.
LEMMA RowFacts ==
    ASSUME TypeOK, NEW r \in Reqs
    PROVE  /\ CaRow(r).by = r /\ CaRow(r).table = "root_cas" /\ CaRow(r).key = tag[r]
           /\ IsInit(r) => CaRow(r) \in Rows
           /\ \A i \in Nat : RecordRow(r, i).by = r
           /\ file[r] \in Files => \A i \in 1 .. Len(file[r]) : RecordRow(r, i) \in Rows
  <1>1. IsInit(r) => tag[r] \in Tags
    BY DEF TypeOK, IsInit
  <1>2. ASSUME file[r] \in Files, NEW i \in 1 .. Len(file[r])
        PROVE  RecordRow(r, i) \in Rows
    <2>1. file[r][i] \in Record /\ i \in Nat
      BY <1>2, FilesAssumption
    <2>2. Key(r, i) \in Tags \cup Ids \cup (Reqs \X Nat)
      BY <2>1 DEF Key, Record
    <2> QED BY <2>1, <2>2 DEF RecordRow, Record, Rows
  <1> QED BY <1>1, <1>2 DEF CaRow, RecordRow, Rows

LEMMA InitInv == Init => Inv
  <1> SUFFICES ASSUME Init PROVE Inv
    OBVIOUS
  <1>1. TypeOK
    BY DEF Init, TypeOK, Stages
  <1>2. ASSUME NEW r \in Reqs PROVE ReqGood(r)
    BY DEF Init, ReqGood, InTx
  <1>3. Disjoint /\ KeysGood
    BY DEF Init, Disjoint, KeysGood, NoDuplicates
  <1> QED BY <1>1, <1>2, <1>3 DEF Init, Inv

\* A step of others does not disturb what holds of q: rows stay.
LEMMA OthersGood ==
    ASSUME Inv, NEW q \in Reqs,
           pc'[q] = pc[q], tag'[q] = tag[q], file'[q] = file[q], idx'[q] = idx[q],
           pend'[q] = pend[q], rows \subseteq rows', q \in audit' <=> q \in audit
    PROVE  ReqGood(q)'
  <1>1. ReqGood(q)
    BY DEF Inv
  <1>2. CaRow(q)' = CaRow(q) /\ (IsInit(q)' <=> IsInit(q))
    BY DEF CaRow, IsInit
  <1>3. \A i : RecordRow(q, i)' = RecordRow(q, i)
    BY DEF RecordRow, Key
  <1>4. \A i : Has(q, i) => Has(q, i)'
    BY <1>3 DEF Has, Visible, Elsewhere
  <1>5. Granted(q) => Granted(q)'
    BY <1>2, <1>3 DEF Granted, Elsewhere
  <1>6. Elsewhere(NextRow(q))' <=> Elsewhere(NextRow(q))
    BY <1>2, <1>3 DEF NextRow, Elsewhere
  <1> QED BY <1>1, <1>2, <1>4, <1>5, <1>6 DEF ReqGood

\* A step of one request that commits nothing.
LEMMA TxStep ==
    ASSUME Inv, NEW r \in Reqs, TypeOK',
           UNCHANGED <<rows, audit, loading, hsm>>,
           \A q \in Reqs \ {r} : /\ pc'[q] = pc[q] /\ tag'[q] = tag[q] /\ file'[q] = file[q]
                                 /\ idx'[q] = idx[q] /\ pend'[q] = pend[q],
           ReqGood(r)',
           pend'[r] \subseteq pend[r]
    PROVE  Inv'
  <1>1. \A q \in Reqs \ {r} : ReqGood(q)'
    BY OthersGood
  <1>2. Disjoint'
    <2>1. \A q \in Reqs : pend'[q] \subseteq pend[q]
      OBVIOUS
    <2> QED BY <2>1 DEF Inv, Disjoint, NoDuplicates
  <1> QED BY <1>1, <1>2 DEF Inv, KeysGood

-----------------------------------------------------------------------------
(* The steps of a request.                                                  *)

\* The release of what a transaction holds is typed.
LEMMA ReleaseTypes ==
    ASSUME TypeOK, NEW r \in Reqs, Release(r)
    PROVE  /\ tagLock' \in [Tags -> SUBSET Reqs] /\ auditLock' \subseteq Reqs
           /\ pend' \in [Reqs -> SUBSET Rows] /\ pend'[r] = {}
           /\ \A q \in Reqs \ {r} : pend'[q] = pend[q]
  BY DEF TypeOK, Release

\* A transaction that is given up leaves nothing.
LEMMA RollbackInv ==
    ASSUME Inv, NEW r \in Reqs, Rollback(r), pc[r] \in {"begin"} \cup InTx
    PROVE  Inv'
  <1>0. TypeOK /\ ReqGood(r) /\ Release(r) /\ pc' = [pc EXCEPT ![r] = "failed"]
        /\ UNCHANGED <<rows, audit, tag, file, idx, loading, hsm>>
    BY DEF Inv, Rollback, Goto, request
  <1>1. TypeOK'
    BY <1>0, ReleaseTypes DEF TypeOK, Stages, Done
  <1>2. ReqGood(r)'
    <2>1. pc'[r] = "failed" /\ pend'[r] = {} /\ r \notin audit'
      BY <1>0, ReleaseTypes DEF TypeOK, ReqGood, InTx, Done
    <2> QED BY <2>1 DEF ReqGood, InTx
  <1> QED BY <1>0, <1>1, <1>2, ReleaseTypes, TxStep DEF TypeOK

LEMMA GiveUpInv ==
    ASSUME Inv, NEW r \in Reqs,
           Fail(r) \/ PoolTimeout(r) \/ DeadlockAbort(r) \/ InsertNameTaken(r)
    PROVE  Inv'
  <1>1. Rollback(r)
    BY DEF Fail, PoolTimeout, DeadlockAbort, InsertNameTaken
  <1>2. pc[r] \in {"begin"} \cup InTx
    BY DEF Fail, PoolTimeout, DeadlockAbort, InsertNameTaken, Deadlocked, Ring, WaitsFor, InTx
  <1> QED BY <1>1, <1>2, RollbackInv

\* Init gives way to the Root CA that is there, or finds no KEK.
LEMMA RefuseInv == ASSUME Inv, NEW r \in Reqs, RefuseInit(r) \/ NoKek(r) PROVE Inv'
  <1>0. PICK answer \in {"taken", "no kek"} :
          /\ TypeOK /\ ReqGood(r) /\ Release(r) /\ pc' = [pc EXCEPT ![r] = answer]
          /\ UNCHANGED <<rows, audit, tag, file, idx, loading, hsm>>
          /\ pc[r] \in {"exists", "insert", "kek"} /\ (answer = "taken" => RefuseInit(r))
    BY DEF Inv, RefuseInit, NoKek, Refuse, Goto, request
  <1>1. TypeOK'
    BY <1>0, ReleaseTypes DEF TypeOK, Stages, Done
  <1>2. ASSUME answer = "taken"
        PROVE  \E x \in rows : SameKey(x, CaRow(r)) /\ x.by # r
    <2>1. PICK x \in rows : SameKey(x, CaRow(r))
      BY <1>0, <1>2 DEF RefuseInit, KeyTaken, Visible, NextRow, ReqGood
    <2>2. x.by # r
      BY <1>0 DEF Inv, ReqGood, Done
    <2> QED BY <2>1, <2>2
  <1>3. ReqGood(r)'
    <2>1. pc'[r] = answer /\ pend'[r] = {} /\ r \notin audit'
      BY <1>0, ReleaseTypes DEF TypeOK, ReqGood, Done
    <2>2. CaRow(r)' = CaRow(r)
      BY <1>0 DEF CaRow
    <2> QED BY <1>0, <1>2, <2>1, <2>2 DEF ReqGood, InTx
  <1> QED BY <1>0, <1>1, <1>3, ReleaseTypes, TxStep DEF TypeOK

\* A request comes in, or is refused at once.
LEMMA StartInv ==
    ASSUME Inv, NEW r \in Reqs, StartInit(r) \/ StartImport(r) \/ Reject(r)
    PROVE  Inv'
  <1>0. TypeOK /\ ReqGood(r) /\ pc[r] = "idle" /\ pend[r] = {} /\ r \notin audit /\ tag[r] = NoTag
        /\ UNCHANGED <<rows, audit, tagLock, auditLock, idx, pend, loading, hsm>>
    BY DEF Inv, StartInit, StartImport, Reject, ReqGood, InTx, Done
  <1>1. CASE StartInit(r)
    <2>1. PICK t \in Tags : tag' = [tag EXCEPT ![r] = t]
      BY <1>1 DEF StartInit
    <2>2. pc' = [pc EXCEPT ![r] = "begin"] /\ UNCHANGED file
      BY <1>1 DEF StartInit, Goto
    <2>3. TypeOK'
      BY <1>0, <2>1, <2>2 DEF TypeOK, Stages
    <2>4. ReqGood(r)'
      BY <1>0, <2>1, <2>2, TagsAssumption DEF TypeOK, ReqGood, InTx, IsInit
    <2> QED BY <1>0, <2>1, <2>2, <2>3, <2>4, TxStep DEF TypeOK
  <1>2. CASE StartImport(r)
    <2>1. PICK f \in Files : file' = [file EXCEPT ![r] = f]
      BY <1>2 DEF StartImport
    <2>2. pc' = [pc EXCEPT ![r] = "begin"] /\ UNCHANGED tag
      BY <1>2 DEF StartImport, Goto
    <2>3. TypeOK'
      BY <1>0, <2>1, <2>2 DEF TypeOK, Stages
    <2>4. ReqGood(r)'
      BY <1>0, <2>1, <2>2 DEF TypeOK, ReqGood, InTx, IsInit
    <2> QED BY <1>0, <2>1, <2>2, <2>3, <2>4, TxStep DEF TypeOK
  <1>3. CASE Reject(r)
    <2>1. pc' = [pc EXCEPT ![r] = "failed"] /\ UNCHANGED <<tag, file>>
      BY <1>3 DEF Reject, Goto, request
    <2>2. TypeOK'
      BY <1>0, <2>1 DEF TypeOK, Stages, Done
    <2>3. ReqGood(r)'
      BY <1>0, <2>1 DEF TypeOK, ReqGood, InTx
    <2> QED BY <1>0, <2>1, <2>2, <2>3, TxStep DEF TypeOK
  <1> QED BY <1>1, <1>2, <1>3

\* A request goes on within its transaction and writes nothing.
LEMMA MoveInv ==
    ASSUME Inv, NEW r \in Reqs, NEW stage \in InTx, Goto(r, stage),
           UNCHANGED <<rows, audit, request, idx, pend, loading, hsm>>,
           tagLock' \in [Tags -> SUBSET Reqs], auditLock' \subseteq Reqs,
           \/ pc[r] = "begin" /\ stage = (IF IsInit(r) THEN "lock" ELSE "exists")
           \/ pc[r] = "lock" /\ stage = "exists"
           \/ pc[r] = "exists" /\ stage = (IF IsInit(r) THEN "kek" ELSE "insert")
           \/ pc[r] = "kek" /\ stage = "insert"
           \/ pc[r] = "audit" /\ stage = "commit",
           pc[r] = "exists" => ~Exists(r)
    PROVE  Inv'
  <1>0. TypeOK /\ ReqGood(r) /\ pc' = [pc EXCEPT ![r] = stage] /\ pc'[r] = stage
        /\ UNCHANGED <<tag, file>>
    BY DEF Inv, Goto, request, TypeOK
  <1>1. TypeOK'
    BY <1>0 DEF TypeOK, Stages
  <1>2. r \notin audit /\ pc[r] \in {"begin"} \cup InTx
    BY <1>0 DEF ReqGood, Done, InTx
  <1>3. /\ CaRow(r)' = CaRow(r) /\ (IsInit(r)' <=> IsInit(r))
        /\ \A i : Has(r, i) => Has(r, i)'
        /\ Elsewhere(NextRow(r))' <=> Elsewhere(NextRow(r))
    BY <1>0 DEF CaRow, IsInit, Has, Visible, RecordRow, Key, NextRow, Elsewhere
  <1>4. stage = "insert" => ~Elsewhere(NextRow(r))
    <2>1. CASE IsInit(r)
      BY <2>1 DEF NextRow, CaRow, Elsewhere
    <2>2. CASE ~IsInit(r)
      BY <1>0, <2>2 DEF ReqGood, Exists, Elsewhere
    <2> QED BY <2>1, <2>2
  <1>5. ReqGood(r)'
    <2>1. CASE pc[r] = "begin"
      <3>1. pend[r] = {} /\ (~IsInit(r) => idx[r] \in 1 .. Len(file[r]))
        BY <1>0, <2>1, FilesAssumption DEF ReqGood, InTx
      <3>2. idx[r] = 1
        BY <1>0, <2>1 DEF ReqGood
      <3>3. pc'[r] \in {"lock", "exists"} /\ (pc'[r] = "lock" => IsInit(r))
        BY <1>0, <2>1
      <3>4. idx'[r] = idx[r] /\ pend'[r] = {} /\ \A i \in 1 .. idx'[r] - 1 : Has(r, i)'
        BY <3>1, <3>2
      <3>5. file[r] = file'[r] /\ (IsInit(r) \/ file[r] \in Files) /\ r \notin audit'
        BY <1>0, <1>2, <2>1 DEF ReqGood
      <3> QED BY <1>3, <3>1, <3>3, <3>4, <3>5 DEF ReqGood, InTx, Done
    <2>2. CASE pc[r] \in {"lock", "kek"}
      BY <1>0, <1>2, <1>3, <1>4, <2>2 DEF ReqGood, InTx, Done
    <2>3. CASE pc[r] = "exists"
      BY <1>0, <1>2, <1>3, <1>4, <2>3 DEF ReqGood, InTx, Done
    <2>4. CASE pc[r] = "audit"
      BY <1>0, <1>2, <1>3, <1>4, <2>4 DEF ReqGood, InTx, Done
    <2> QED BY <2>1, <2>2, <2>3, <2>4
  <1> QED BY <1>0, <1>1, <1>5, TxStep DEF TypeOK

LEMMA MovesInv ==
    ASSUME Inv, NEW r \in Reqs,
           Begin(r) \/ LockTag(r) \/ ExistsNot(r) \/ FetchKek(r) \/ LockAudit(r)
    PROVE  Inv'
  <1>0. TypeOK /\ ReqGood(r)
    BY DEF Inv
  <1>1. CASE Begin(r) \/ ExistsNot(r) \/ FetchKek(r)
    BY <1>0, <1>1, MoveInv DEF Begin, ExistsNot, FetchKek, InTx, TypeOK
  <1>2. CASE LockTag(r)
    BY <1>0, <1>2, MoveInv DEF LockTag, InTx, TypeOK
  <1>3. CASE LockAudit(r)
    BY <1>0, <1>3, MoveInv DEF LockAudit, InTx, TypeOK
  <1> QED BY <1>1, <1>2, <1>3

\* On to the next record, with this one in the table or in the transaction.
LEMMA AdvanceGood ==
    ASSUME Inv, NEW r \in Reqs, pc[r] \in {"exists", "insert"}, Advance(r),
           UNCHANGED <<rows, audit, request>>,
           pend[r] \subseteq pend'[r], \A x \in pend'[r] : x.by = r,
           IF IsInit(r) THEN CaRow(r) \in pend'[r]
           ELSE \/ Elsewhere(RecordRow(r, idx[r]))
                \/ \E x \in rows \cup pend'[r] : SameKey(x, RecordRow(r, idx[r]))
    PROVE  /\ ReqGood(r)'
           /\ pc' \in [Reqs -> Stages] /\ idx' \in [Reqs -> Nat \ {0}]
           /\ \A q \in Reqs \ {r} : pc'[q] = pc[q] /\ idx'[q] = idx[q]
  <1>0. TypeOK /\ ReqGood(r) /\ r \notin audit /\ UNCHANGED <<tag, file>>
    BY DEF Inv, ReqGood, Done, request
  <1>1. /\ CaRow(r)' = CaRow(r) /\ (IsInit(r)' <=> IsInit(r))
        /\ \A i : RecordRow(r, i)' = RecordRow(r, i)
    BY <1>0 DEF CaRow, IsInit, RecordRow, Key
  <1>2. \A i : Has(r, i) => Has(r, i)'
    BY <1>1 DEF Has, Visible, Elsewhere
  <1>3. \A i : ~IsInit(r) /\ i = idx[r] => Has(r, i)'
    BY <1>1 DEF Has, Visible, Elsewhere
  <1>4. CASE IsInit(r) \/ idx[r] = Len(file[r])
    <2>1. pc' = [pc EXCEPT ![r] = "audit"] /\ UNCHANGED idx
      BY <1>4 DEF Advance, Goto
    <2>2. pc'[r] = "audit" /\ pc' \in [Reqs -> Stages]
      BY <1>0, <2>1 DEF TypeOK, Stages, InTx
    <2>3. IF IsInit(r) THEN CaRow(r) \in pend'[r] ELSE \A i \in 1 .. Len(file[r]) : Has(r, i)'
      <3>1. CASE ~IsInit(r)
        <4>1. idx[r] = Len(file[r]) /\ \A i \in 1 .. idx[r] - 1 : Has(r, i)'
          BY <1>0, <1>2, <1>4, <3>1 DEF ReqGood
        <4>2. \A i \in 1 .. idx[r] : i = idx[r] \/ i \in 1 .. idx[r] - 1
          BY <1>0 DEF TypeOK
        <4> QED BY <1>3, <3>1, <4>1, <4>2
      <3> QED BY <3>1
    <2>4. ReqGood(r)'
      BY <1>0, <1>1, <2>2, <2>3 DEF ReqGood, InTx, Done
    <2> QED BY <1>0, <2>1, <2>2, <2>4 DEF TypeOK
  <1>5. CASE ~(IsInit(r) \/ idx[r] = Len(file[r]))
    <2>1. pc' = [pc EXCEPT ![r] = "exists"] /\ idx' = [idx EXCEPT ![r] = idx[r] + 1]
      BY <1>5 DEF Advance, Goto
    <2>2. pc'[r] = "exists" /\ pc' \in [Reqs -> Stages] /\ idx'[r] = idx[r] + 1
          /\ idx' \in [Reqs -> Nat \ {0}]
      BY <1>0, <2>1 DEF TypeOK, Stages, InTx
    <2>3. idx[r] \in 1 .. Len(file[r]) /\ \A i \in 1 .. idx[r] - 1 : Has(r, i)'
      BY <1>0, <1>2, <1>5 DEF ReqGood
    <2>4. file[r] \in Files
      BY <1>0, <1>5 DEF ReqGood, InTx
    <2>5. Len(file[r]) \in Nat
      BY <2>4, FilesAssumption
    <2>6. idx'[r] \in 1 .. Len(file[r])
      BY <1>5, <2>2, <2>3, <2>5
    <2>7. \A i \in 1 .. idx'[r] - 1 : i = idx[r] \/ i \in 1 .. idx[r] - 1
      BY <1>0, <2>2 DEF TypeOK
    <2>8. \A i \in 1 .. idx'[r] - 1 : Has(r, i)'
      BY <1>3, <1>5, <2>3, <2>7
    <2>9. ReqGood(r)'
      BY <1>0, <1>1, <1>5, <2>2, <2>4, <2>6, <2>8 DEF ReqGood, InTx, Done
    <2> QED BY <1>0, <2>1, <2>2, <2>9 DEF TypeOK
  <1> QED BY <1>4, <1>5

LEMMA SkipInv == ASSUME Inv, NEW r \in Reqs, SkipRecord(r) PROVE Inv'
  <1>0. TypeOK /\ ReqGood(r) /\ pc[r] \in {"exists", "insert"} /\ Advance(r) /\ ~IsInit(r)
        /\ UNCHANGED <<rows, audit, tagLock, auditLock, request, pend, loading, hsm>>
    BY DEF Inv, SkipRecord
  <1>1. \/ Elsewhere(RecordRow(r, idx[r]))
        \/ \E x \in rows \cup pend'[r] : SameKey(x, RecordRow(r, idx[r]))
    BY <1>0 DEF SkipRecord, Exists, KeyTaken, Visible, NextRow
  <1>2. \A x \in pend'[r] : x.by = r
    BY <1>0 DEF ReqGood
  <1>3. /\ ReqGood(r)'
        /\ pc' \in [Reqs -> Stages] /\ idx' \in [Reqs -> Nat \ {0}]
        /\ \A q \in Reqs \ {r} : pc'[q] = pc[q] /\ idx'[q] = idx[q]
    BY <1>0, <1>1, <1>2, AdvanceGood
  <1>4. TypeOK'
    BY <1>0, <1>3 DEF TypeOK, request
  <1> QED BY <1>0, <1>3, <1>4, TxStep DEF request

\* The unique indexes do their work.
LEMMA InsertInv == ASSUME Inv, NEW r \in Reqs, Insert(r) PROVE Inv'
  <1> DEFINE n == NextRow(r)
  <1>0. TypeOK /\ ReqGood(r) /\ pc[r] = "insert" /\ Advance(r)
        /\ UNCHANGED <<rows, audit, tagLock, auditLock, request, loading, hsm>>
        /\ pend' = [pend EXCEPT ![r] = pend[r] \cup {n}]
    BY DEF Inv, Insert
  <1>1. n \in Rows /\ n.by = r
    <2>1. CASE IsInit(r)
      BY <1>0, <2>1, RowFacts DEF NextRow
    <2>2. CASE ~IsInit(r)
      <3>1. file[r] \in Files /\ idx[r] \in 1 .. Len(file[r]) /\ idx[r] \in Nat
        BY <1>0, <2>2 DEF ReqGood, InTx, TypeOK
      <3> QED BY <1>0, <2>2, <3>1, RowFacts DEF NextRow
    <2> QED BY <2>1, <2>2
  <1>2. \A x \in rows \cup pend[r] : ~Clash(x, n)
    BY DEF Insert, KeyTaken, NameTaken, Visible, Clash
  <1>3. \A q \in Reqs \ {r} : \A x \in pend[q] : ~Clash(x, n)
    BY <1>0 DEF Insert, Waits, WaitsFor
  <1>4. IF IsInit(r) THEN n = CaRow(r) ELSE SameKey(n, RecordRow(r, idx[r]))
    BY DEF NextRow, SameKey
  <1> HIDE DEF n
  <1>5. pend'[r] = pend[r] \cup {n} /\ \A q \in Reqs \ {r} : pend'[q] = pend[q]
    BY <1>0 DEF TypeOK
  <1>6. /\ ReqGood(r)'
        /\ pc' \in [Reqs -> Stages] /\ idx' \in [Reqs -> Nat \ {0}]
        /\ \A q \in Reqs \ {r} : pc'[q] = pc[q] /\ idx'[q] = idx[q]
    <2>1. \A x \in pend'[r] : x.by = r
      BY <1>0, <1>1, <1>5 DEF ReqGood
    <2> QED BY <1>0, <1>4, <1>5, <2>1, AdvanceGood
  <1>7. TypeOK'
    BY <1>0, <1>1, <1>6 DEF TypeOK, request
  <1>8. \A q \in Reqs \ {r} : ReqGood(q)'
    BY <1>0, <1>5, <1>6, OthersGood DEF request
  <1>9. Disjoint'
    <2>0. Disjoint
      BY DEF Inv
    <2>1. \A q \in Reqs : \A x \in pend'[q], y \in rows : ~Clash(x, y)
      BY <1>2, <1>5, <2>0, ClashSymmetric DEF Disjoint
    <2>2. \A q \in Reqs : \A x, y \in pend'[q] : Clash(x, y) => x = y
      BY <1>2, <1>5, <2>0, ClashSymmetric DEF Disjoint
    <2>3. \A p, q \in Reqs : p # q => \A x \in pend'[p], y \in pend'[q] : ~Clash(x, y)
      BY <1>3, <1>5, <2>0, ClashSymmetric DEF Disjoint
    <2> QED BY <1>0, <2>0, <2>1, <2>2, <2>3 DEF Disjoint, NoDuplicates
  <1> QED BY <1>0, <1>6, <1>7, <1>8, <1>9 DEF Inv, KeysGood

\* The COMMIT shows all rows of the transaction and its audit record at once.
LEMMA CommitInv == ASSUME Inv, NEW r \in Reqs, Commit(r) PROVE Inv'
  <1>0. TypeOK /\ ReqGood(r) /\ pc[r] = "commit" /\ Release(r)
        /\ rows' = rows \cup pend[r] /\ audit' = audit \cup {r}
        /\ UNCHANGED <<tag, file, idx, loading, hsm>>
    BY DEF Inv, Commit, request
  <1>1. PICK end \in {"ok", "failed"} : pc' = [pc EXCEPT ![r] = end]
    BY DEF Commit, Goto
  <1>2. pc'[r] = end /\ pend'[r] = {} /\ \A q \in Reqs \ {r} : pend'[q] = pend[q] /\ pc'[q] = pc[q]
    BY <1>0, <1>1, ReleaseTypes DEF TypeOK
  <1>3. TypeOK'
    <2>1. rows' \subseteq Rows /\ pc' \in [Reqs -> Stages]
      BY <1>0, <1>1 DEF TypeOK, Stages, Done
    <2> QED BY <1>0, <2>1, ReleaseTypes DEF TypeOK
  <1>4. ReqGood(r)'
    <2>1. Granted(r)'
      BY <1>0 DEF Granted, ReqGood, IsInit, CaRow, Has, Visible, RecordRow, Key, Elsewhere
    <2> QED BY <1>0, <1>2, <2>1 DEF ReqGood, InTx, Done
  <1>5. \A q \in Reqs \ {r} : ReqGood(q)'
    BY <1>0, <1>2, OthersGood
  <1>6. Disjoint'
    <2>0. Disjoint
      BY DEF Inv
    <2>1. NoDuplicates'
      BY <1>0, <2>0, ClashSymmetric DEF Disjoint, NoDuplicates
    <2>2. \A q \in Reqs : \A x \in pend'[q], y \in rows' : ~Clash(x, y)
      BY <1>0, <1>2, <2>0 DEF Disjoint
    <2>3. /\ \A q \in Reqs : \A x, y \in pend'[q] : Clash(x, y) => x = y
          /\ \A p, q \in Reqs : p # q => \A x \in pend'[p], y \in pend'[q] : ~Clash(x, y)
      BY <1>2, <2>0 DEF Disjoint
    <2> QED BY <2>1, <2>2, <2>3 DEF Disjoint
  <1>7. KeysGood'
    BY <1>0 DEF Inv, KeysGood
  <1>8. \A x \in rows' : x.by \in audit'
    BY <1>0 DEF Inv, ReqGood
  <1> QED BY <1>3, <1>4, <1>5, <1>6, <1>7, <1>8 DEF Inv

\* Keys come and go in the vHSM.
LEMMA LoadInv ==
    ASSUME Inv, HsmRestart \/ \E t \in Tags : LoadFetch(t) \/ LoadInstall(t) \/ LoadBlob(t)
    PROVE  Inv'
  <1>0. TypeOK /\ KeysGood
        /\ UNCHANGED <<rows, audit, tagLock, auditLock, pc, tag, file, idx, pend>>
    BY DEF Inv, HsmRestart, LoadFetch, LoadInstall, LoadBlob, request
  <1>1. TypeOK' /\ KeysGood'
    <2>1. CASE HsmRestart
      BY <1>0, <2>1 DEF HsmRestart, TypeOK, KeysGood
    <2>2. ASSUME NEW t \in Tags, LoadFetch(t) PROVE TypeOK' /\ KeysGood'
      <3>1. PICK x \in rows : /\ x.table = "root_cas" /\ x.key = t
                              /\ loading' = [loading EXCEPT ![t] = {x.by}]
        BY <2>2 DEF LoadFetch
      <3>2. x.by \in Reqs /\ UNCHANGED hsm
        BY <1>0, <2>2 DEF TypeOK, Rows, LoadFetch
      <3> QED BY <1>0, <3>1, <3>2 DEF TypeOK, KeysGood
    <2>3. ASSUME NEW t \in Tags, LoadInstall(t) PROVE TypeOK' /\ KeysGood'
      <3> DEFINE new == {[key |-> k, via |-> "db"] : k \in loading[t]}
      <3>1. hsm' \in {hsm, [hsm EXCEPT ![t] = new]} /\ loading' = [loading EXCEPT ![t] = {}]
        BY <2>3 DEF LoadInstall
      <3>2. /\ new \subseteq [key : Reqs, via : {"db", "blob"}]
            /\ \A h \in new : h.key \in loading[t]
        BY <1>0 DEF TypeOK
      <3> HIDE DEF new
      <3>3. TypeOK'
        BY <1>0, <3>1, <3>2 DEF TypeOK
      <3>4. KeysGood'
        <4>1. \A h \in new : \E x \in rows : x.table = "root_cas" /\ x.key = t /\ x.by = h.key
          BY <1>0, <3>2 DEF KeysGood
        <4>2. \A u \in Tags : loading'[u] \subseteq loading[u]
          BY <1>0, <3>1 DEF TypeOK
        <4>3. \A u \in Tags : hsm'[u] = hsm[u] \/ (u = t /\ hsm'[u] = new)
          BY <1>0, <3>1 DEF TypeOK
        <4> QED BY <1>0, <4>1, <4>2, <4>3 DEF KeysGood
      <3> QED BY <3>3, <3>4
    <2>4. ASSUME NEW t \in Tags, LoadBlob(t) PROVE TypeOK' /\ KeysGood'
      <3>1. PICK r \in Reqs : hsm' = [hsm EXCEPT ![t] = {[key |-> r, via |-> "blob"]}]
        BY <2>4 DEF LoadBlob
      <3>2. UNCHANGED loading
        BY <2>4 DEF LoadBlob
      <3>3. TypeOK'
        BY <1>0, <3>1, <3>2 DEF TypeOK
      <3>4. \A u \in Tags : hsm'[u] = hsm[u] \/ \A h \in hsm'[u] : h.via # "db"
        BY <1>0, <3>1 DEF TypeOK
      <3> QED BY <1>0, <3>2, <3>3, <3>4 DEF KeysGood
    <2> QED BY <2>1, <2>2, <2>3, <2>4
  <1>2. \A r \in Reqs : ReqGood(r)'
    <2> SUFFICES ASSUME NEW r \in Reqs PROVE ReqGood(r)'
      OBVIOUS
    <2> QED BY <1>0, OthersGood
  <1> QED BY <1>0, <1>1, <1>2 DEF Inv, Disjoint, NoDuplicates

LEMMA StepInv == ASSUME Inv, [Next]_vars PROVE Inv'
  <1>1. CASE UNCHANGED vars
    <2> USE <1>1 DEF vars, request
    <2>1. TypeOK' /\ KeysGood' /\ Disjoint'
      BY DEF Inv, TypeOK, KeysGood, Disjoint, NoDuplicates
    <2>2. ASSUME NEW r \in Reqs PROVE ReqGood(r)'
      BY OthersGood
    <2> QED BY <2>1, <2>2 DEF Inv
  <1>2. ASSUME NEW r \in Reqs, Step(r) PROVE Inv'
    BY <1>2, MovesInv, RefuseInv, SkipInv, InsertInv, GiveUpInv, CommitInv DEF Step
  <1> QED BY <1>1, <1>2, StartInv, GiveUpInv, LoadInv DEF Next

LEMMA InvHolds == Spec => []Inv
  BY InitInv, StepInv, PTL DEF Spec

-----------------------------------------------------------------------------
\* Every variable keeps its type.
THEOREM ProvisioningTypeCorrect == Spec => []TypeOK
  BY InvHolds, PTL DEF Inv

\* An init or an import leaves all of its rows and its audit record, or nothing.
THEOREM AllOrNothing == Spec => []CommittedWhole
  <1>1. Inv => CommittedWhole
    BY DEF Inv, TypeOK, ReqGood, CommittedWhole
  <1> QED BY <1>1, InvHolds, PTL

\* No two rows for a ca_tag, a record's id or a target_name.
THEOREM NeverTwice == Spec => []NoDuplicates
  <1>1. Inv => NoDuplicates
    BY DEF Inv, Disjoint
  <1> QED BY <1>1, InvHolds, PTL

\* What `ca load` fetches from root_cas is the Root CA on record for the tag.
THEOREM LoadsWhatIsOnRecord == Spec => []LoadedOnRecord
  <1>1. Inv => LoadedOnRecord
    BY DEF Inv, KeysGood, LoadedOnRecord
  <1> QED BY <1>1, InvHolds, PTL

-----------------------------------------------------------------------------
(* The database is a Catalogue.  A transaction holds rows of its request    *)
(* only, none of a credential that was provisioned before, and a request    *)
(* that has not come in asks for nothing.                                   *)

Due(r) == {w \in Wanted(r) : ~Elsewhere(w)}

Asked(r) ==
    /\ pc[r] = "idle" => file[r] = << >>
    /\ pend[r] \subseteq Due(r)

CatInv == Inv /\ \A r \in Reqs : Asked(r)

LEMMA SameWish ==
    ASSUME NEW q \in Reqs, tag'[q] = tag[q], file'[q] = file[q]
    PROVE  Wanted(q)' = Wanted(q) /\ Due(q)' = Due(q)
  <1>1. CaRow(q)' = CaRow(q) /\ (IsInit(q)' <=> IsInit(q))
    BY DEF CaRow, IsInit
  <1>2. \A i : RecordRow(q, i)' = RecordRow(q, i)
    BY DEF RecordRow, Key
  <1>3. Wanted(q)' = Wanted(q)
    BY <1>1, <1>2 DEF Wanted
  <1> QED BY <1>3 DEF Due, Elsewhere

\* What a transaction writes next is among what its request asks for.
LEMMA NextWanted ==
    ASSUME Inv, NEW r \in Reqs, pc[r] = "insert" PROVE NextRow(r) \in Due(r)
  <1>1. NextRow(r) \in Wanted(r)
    <2>1. CASE IsInit(r)
      BY <2>1 DEF NextRow, Wanted
    <2>2. CASE ~IsInit(r)
      <3>1. idx[r] \in 1 .. Len(file[r])
        BY <2>2 DEF Inv, ReqGood
      <3> QED BY <2>2, <3>1 DEF NextRow, Wanted
    <2> QED BY <2>1, <2>2
  <1>2. ~Elsewhere(NextRow(r))
    BY DEF Inv, ReqGood
  <1> QED BY <1>1, <1>2 DEF Due

LEMMA AskedInit == Init => \A r \in Reqs : Asked(r)
  BY DEF Init, Asked

\* A step that changes no wish, writes at most a wished row and makes no
\* request idle.
LEMMA AskedKept ==
    ASSUME CatInv, UNCHANGED request,
           \A q \in Reqs : pc'[q] = "idle" => pc[q] = "idle",
           \A q \in Reqs : pend'[q] \subseteq pend[q] \cup Due(q)
    PROVE  \A q \in Reqs : Asked(q)'
  <1> SUFFICES ASSUME NEW q \in Reqs PROVE Asked(q)'
    OBVIOUS
  <1>1. tag' = tag /\ file' = file
    BY DEF request
  <1>2. Due(q)' = Due(q)
    BY <1>1, SameWish
  <1> QED BY <1>1, <1>2 DEF CatInv, Asked

\* Where a request stands after Goto.
LEMMA Gone ==
    ASSUME TypeOK, NEW r \in Reqs, NEW stage \in Stages, Goto(r, stage)
    PROVE  /\ pc' = [pc EXCEPT ![r] = stage] /\ pc'[r] = stage
           /\ \A q \in Reqs \ {r} : pc'[q] = pc[q]
  BY DEF TypeOK, Goto

\* Steps within the transaction: the Catalogue sees nothing of them.
Inner(r) ==
    \/ Begin(r) \/ LockTag(r) \/ ExistsNot(r) \/ FetchKek(r) \/ SkipRecord(r)
    \/ Insert(r) \/ LockAudit(r)

LEMMA InnerFacts ==
    ASSUME Inv, NEW r \in Reqs, Inner(r)
    PROVE  /\ UNCHANGED <<rows, audit, request>>
           /\ pc[r] \notin Done \cup {"idle"} /\ pc'[r] \in InTx
           /\ \A q \in Reqs \ {r} : pc'[q] = pc[q]
           /\ \A q \in Reqs : pend'[q] \subseteq pend[q] \cup Due(q)
  <1>0. TypeOK
    BY DEF Inv
  <1>1. UNCHANGED <<rows, audit, request>>
    BY DEF Inner, Begin, LockTag, ExistsNot, FetchKek, SkipRecord, Insert, LockAudit
  <1>2. pc[r] \notin Done \cup {"idle"}
    BY DEF Inner, Begin, LockTag, ExistsNot, FetchKek, SkipRecord, Insert, LockAudit, Done
  <1>3. \E stage \in InTx : Goto(r, stage)
    <2>1. CASE SkipRecord(r) \/ Insert(r)
      BY <2>1 DEF SkipRecord, Insert, Advance, InTx
    <2>2. CASE Begin(r) \/ LockTag(r) \/ ExistsNot(r)
      BY <2>2 DEF Begin, LockTag, ExistsNot, InTx
    <2>3. CASE FetchKek(r) \/ LockAudit(r)
      BY <2>3 DEF FetchKek, LockAudit, InTx
    <2> QED BY <2>1, <2>2, <2>3 DEF Inner
  <1>4. pc'[r] \in InTx /\ \A q \in Reqs \ {r} : pc'[q] = pc[q]
    BY <1>0, <1>3 DEF Goto, TypeOK
  <1>5. \A q \in Reqs : pend'[q] \subseteq pend[q] \cup Due(q)
    <2>1. CASE Insert(r)
      <3>1. NextRow(r) \in Due(r)
        BY <2>1, NextWanted DEF Insert
      <3>2. pend' = [pend EXCEPT ![r] = pend[r] \cup {NextRow(r)}]
        BY <2>1 DEF Insert
      <3> QED BY <1>0, <3>1, <3>2 DEF TypeOK
    <2>2. CASE ~Insert(r)
      <3>1. UNCHANGED pend
        BY <2>2 DEF Inner, Begin, LockTag, ExistsNot, FetchKek, SkipRecord, LockAudit
      <3> QED BY <3>1
    <2> QED BY <2>1, <2>2
  <1> QED BY <1>1, <1>2, <1>4, <1>5

\* The transaction ends.
LEMMA EndFacts ==
    ASSUME Inv, NEW r \in Reqs, NEW end \in Done, Goto(r, end), Release(r), UNCHANGED request
    PROVE  /\ \A q \in Reqs : pend'[q] \subseteq pend[q] \cup Due(q)
           /\ \A q \in Reqs : pc'[q] = "idle" => pc[q] = "idle"
  <1>1. TypeOK /\ end \in Stages
    BY DEF Inv, Stages
  <1>2. \A q \in Reqs : pc'[q] = "idle" => pc[q] = "idle"
    BY <1>1, Gone DEF Done
  <1> QED BY <1>1, <1>2, ReleaseTypes

LEMMA GivesUp ==
    ASSUME NEW r \in Reqs,
           Fail(r) \/ PoolTimeout(r) \/ DeadlockAbort(r) \/ InsertNameTaken(r)
    PROVE  Rollback(r) /\ pc[r] \in {"begin"} \cup InTx
  BY DEF Fail, PoolTimeout, DeadlockAbort, InsertNameTaken, Deadlocked, Ring, WaitsFor, InTx

Loads == HsmRestart \/ \E t \in Tags : LoadFetch(t) \/ LoadInstall(t) \/ LoadBlob(t)

LEMMA LoadFacts == ASSUME Loads PROVE UNCHANGED <<rows, audit, request, pc, pend>>
  BY DEF Loads, HsmRestart, LoadFetch, LoadInstall, LoadBlob

\* A request comes in: what it asks for, and nothing else changes.
LEMMA StartFacts ==
    ASSUME CatInv, NEW r \in Reqs, StartInit(r) \/ StartImport(r)
    PROVE  /\ Wanted(r) = {} /\ Wanted(r)' # {} /\ pend[r] = {}
           /\ \A q \in Reqs \ {r} :
                Wanted(q)' = Wanted(q) /\ Due(q)' = Due(q) /\ file'[q] = file[q]
           /\ pc[r] = "idle" /\ Goto(r, "begin") /\ UNCHANGED <<rows, audit, pend>>
  <1>0. TypeOK /\ pc[r] = "idle" /\ Goto(r, "begin") /\ UNCHANGED <<rows, audit, pend>>
        /\ tag[r] = NoTag /\ file[r] = << >> /\ pend[r] = {}
    BY DEF CatInv, Inv, Asked, ReqGood, StartInit, StartImport, InTx
  <1>1. Wanted(r) = {}
    <2>1. ~IsInit(r) /\ Len(file[r]) = 0
      BY <1>0 DEF IsInit
    <2>2. 1 .. Len(file[r]) = {}
      BY <2>1
    <2> QED BY <2>1, <2>2 DEF Wanted
  <1>2. Wanted(r)' # {} /\ \A q \in Reqs \ {r} : tag'[q] = tag[q] /\ file'[q] = file[q]
    <2>1. CASE StartInit(r)
      <3>1. PICK t \in Tags : tag' = [tag EXCEPT ![r] = t]
        BY <2>1 DEF StartInit
      <3>2. IsInit(r)' /\ file' = file
        BY <1>0, <2>1, <3>1, TagsAssumption DEF TypeOK, IsInit, StartInit
      <3>3. Wanted(r)' = {CaRow(r)'}
        BY <3>2 DEF Wanted
      <3>4. \A q \in Reqs \ {r} : tag'[q] = tag[q]
        BY <1>0, <3>1 DEF TypeOK
      <3> QED BY <3>2, <3>3, <3>4
    <2>2. CASE StartImport(r)
      <3>1. PICK f \in Files : file' = [file EXCEPT ![r] = f]
        BY <2>2 DEF StartImport
      <3>2. ~IsInit(r)' /\ tag' = tag
        BY <1>0, <2>2 DEF IsInit, StartImport
      <3>3. file'[r] = f /\ \A q \in Reqs \ {r} : file'[q] = file[q]
        BY <1>0, <3>1 DEF TypeOK
      <3>4. Wanted(r)' = {RecordRow(r, i)' : i \in 1 .. Len(file'[r])}
        BY <3>2 DEF Wanted
      <3>5. 1 \in 1 .. Len(file'[r])
        BY <3>3, FilesAssumption
      <3> QED BY <3>2, <3>3, <3>4, <3>5
    <2> QED BY <2>1, <2>2
  <1> QED BY <1>0, <1>1, <1>2, SameWish

LEMMA CatStepInv == ASSUME CatInv, [Next]_vars PROVE CatInv'
  <1>0. Inv /\ Inv' /\ TypeOK
    BY StepInv DEF CatInv, Inv
  <1>1. CASE UNCHANGED vars \/ Loads
    <2>1. UNCHANGED <<rows, audit, request, pc, pend>>
      BY <1>1, LoadFacts DEF vars
    <2> QED BY <1>0, <2>1, AskedKept DEF CatInv
  <1>2. ASSUME NEW r \in Reqs, Inner(r) PROVE CatInv'
    <2>1. \A q \in Reqs : pc'[q] = "idle" => pc[q] = "idle"
      BY <1>0, <1>2, InnerFacts DEF InTx
    <2> QED BY <1>0, <1>2, <2>1, InnerFacts, AskedKept DEF CatInv
  <1>3. ASSUME NEW r \in Reqs, RefuseInit(r) \/ NoKek(r) \/ Commit(r) \/ Rollback(r)
        PROVE  CatInv'
    <2>1. Release(r) /\ UNCHANGED request /\ \E end \in Done : Goto(r, end)
      BY <1>3 DEF RefuseInit, NoKek, Refuse, Commit, Rollback, Done
    <2> QED BY <1>0, <2>1, EndFacts, AskedKept DEF CatInv
  <1>4. ASSUME NEW r \in Reqs, Reject(r) PROVE CatInv'
    <2>1. \A q \in Reqs : pc'[q] = "idle" => pc[q] = "idle"
      BY <1>0, <1>4, Gone DEF Reject, Stages, Done
    <2> QED BY <1>0, <1>4, <2>1, AskedKept DEF CatInv, Reject
  <1>5. ASSUME NEW r \in Reqs, StartInit(r) \/ StartImport(r) PROVE CatInv'
    <2>1. ASSUME NEW q \in Reqs PROVE Asked(q)'
      <3>1. pend'[q] = pend[q] /\ pc'[r] = "begin" /\ (q # r => pc'[q] = pc[q])
        BY <1>0, <1>5, StartFacts, Gone DEF Stages
      <3>2. CASE q = r
        BY <1>5, <3>1, <3>2, StartFacts DEF Asked
      <3>3. CASE q # r
        BY <1>5, <3>1, <3>3, StartFacts DEF CatInv, Asked
      <3> QED BY <3>2, <3>3
    <2> QED BY <1>0, <2>1 DEF CatInv
  <1> QED BY <1>1, <1>2, <1>3, <1>4, <1>5, GivesUp DEF Next, Step, Inner, Loads

LEMMA CatInvHolds == Spec => []CatInv
  <1>1. Init => CatInv
    BY InitInv, AskedInit DEF CatInv
  <1> QED BY <1>1, CatStepInv, PTL DEF Spec

-----------------------------------------------------------------------------
(* What the Catalogue sees of a step.                                       *)

LEMMA SameWants ==
    ASSUME UNCHANGED request PROVE Wants' = Wants
  <1>1. tag' = tag /\ file' = file
    BY DEF request
  <1>2. \A q \in Reqs : Wanted(q)' = Wanted(q)
    BY <1>1, SameWish
  <1> QED BY <1>2 DEF Wants

LEMMA SameAnswers ==
    ASSUME \A q \in Reqs : pc'[q] = pc[q] \/ (pc[q] \notin Done /\ pc'[q] \notin Done)
    PROVE  Answers' = Answers
  BY DEF Answers

LEMMA Told ==
    ASSUME TypeOK, NEW r \in Reqs, NEW end \in Done, Goto(r, end), pc[r] \notin Done
    PROVE  Book!Tell(r, end)
  <1>1. Answers[r] = "none"
    BY DEF Answers
  <1>2. pc'[r] = end /\ \A q \in Reqs \ {r} : pc'[q] = pc[q]
    BY Gone DEF Stages
  <1>3. Answers' = [Answers EXCEPT ![r] = end]
    <2>1. Answers'[r] = end
      BY <1>2 DEF Answers
    <2>2. \A q \in Reqs \ {r} : Answers'[q] = Answers[q]
      BY <1>2 DEF Answers
    <2>3. DOMAIN Answers = Reqs /\ DOMAIN Answers' = Reqs
      BY DEF Answers
    <2>4. Answers = [q \in Reqs |-> Answers[q]] /\ Answers' = [q \in Reqs |-> Answers'[q]]
      BY DEF Answers
    <2> QED BY <2>1, <2>2, <2>3, <2>4
  <1> QED BY <1>1, <1>3 DEF Book!Tell

\* A request that ends without a COMMIT.
LEMMA BookFails ==
    ASSUME TypeOK, NEW r \in Reqs, Goto(r, "failed") \/ Goto(r, "no kek"),
           pc[r] \notin Done, UNCHANGED <<rows, audit, request>>
    PROVE  Book!Fail(r)
  <1>1. Book!Tell(r, "failed") \/ Book!Tell(r, "no kek")
    BY Told DEF Done
  <1> QED BY <1>1, SameWants DEF Book!Fail

LEMMA BookAsks ==
    ASSUME CatInv, NEW r \in Reqs, StartInit(r) \/ StartImport(r)
    PROVE  Book!Ask(r)
  <1>0. TypeOK
    BY DEF CatInv, Inv
  <1>1. Wants[r] = {} /\ Wants'[r] # {}
    BY StartFacts DEF Wants
  <1>2. Wants' = [Wants EXCEPT ![r] = Wants'[r]]
    BY StartFacts DEF Wants
  <1>3. pc[r] = "idle" /\ pc'[r] = "begin" /\ \A q \in Reqs \ {r} : pc'[q] = pc[q]
    BY <1>0, StartFacts, Gone DEF Stages
  <1>4. Answers' = Answers
    BY <1>3, SameAnswers DEF Done
  <1>5. Answers[r] = "none"
    BY <1>3 DEF Answers, Done
  <1>6. UNCHANGED <<rows, audit>>
    BY StartFacts
  <1> QED BY <1>1, <1>2, <1>4, <1>5, <1>6 DEF Book!Ask

LEMMA BookRefuses == ASSUME CatInv, NEW r \in Reqs, RefuseInit(r) PROVE Book!Refuse(r)
  <1>0. TypeOK /\ ReqGood(r) /\ pc[r] \in {"exists", "insert"} /\ IsInit(r) /\ KeyTaken(r)
        /\ Goto(r, "taken") /\ UNCHANGED <<rows, audit, request>>
    BY DEF CatInv, Inv, RefuseInit, Refuse
  <1>1. PICK x \in rows : SameKey(x, CaRow(r))
    BY <1>0 DEF KeyTaken, Visible, NextRow, ReqGood
  <1>2. x.by # r
    BY <1>0 DEF CatInv, Inv, ReqGood, Done
  <1>3. CaRow(r) \in Wants[r]
    BY <1>0 DEF Wants, Wanted
  <1>4. Book!Tell(r, "taken")
    BY <1>0, Told DEF Done
  <1>5. Book!SameKey(x, CaRow(r))
    BY <1>1 DEF SameKey, Book!SameKey
  <1>6. Wants' = Wants
    BY <1>0, SameWants
  <1> QED BY <1>0, <1>2, <1>3, <1>4, <1>5, <1>6 DEF Book!Refuse

\* The COMMIT is the moment at which the request happens.
LEMMA BookHappens == ASSUME CatInv, NEW r \in Reqs, Commit(r) PROVE Book!Happen(r)
  <1> DEFINE new == pend[r]
  <1>0. TypeOK /\ ReqGood(r) /\ Asked(r) /\ Disjoint /\ pc[r] = "commit"
        /\ rows' = rows \cup new /\ audit' = audit \cup {r} /\ UNCHANGED request
    BY DEF CatInv, Inv, Commit
  <1>1. \A x, y : Book!Clash(x, y) <=> Clash(x, y)
    BY DEF Clash, SameKey, SameName, Book!Clash, Book!SameKey, Book!SameName
  <1>2. new \subseteq {w \in Wants[r] : ~Book!Elsewhere(w)}
    BY <1>0 DEF Asked, Due, Wants, Elsewhere, Book!Elsewhere
  <1>3. /\ \A x \in new : \A y \in rows : ~Book!Clash(x, y)
        /\ \A x, y \in new : Book!Clash(x, y) => x = y
    BY <1>0, <1>1 DEF Disjoint
  <1>4. \A w \in Wants[r] :
          Book!Elsewhere(w) \/ \E x \in rows \cup new : Book!SameKey(x, w)
    <2> SUFFICES ASSUME NEW w \in Wanted(r)
                 PROVE  Book!Elsewhere(w) \/ \E x \in rows \cup new : Book!SameKey(x, w)
      BY DEF Wants
    <2>1. CASE IsInit(r)
      <3>1. w = CaRow(r) /\ w \in new
        BY <1>0, <2>1 DEF Wanted, ReqGood
      <3> QED BY <3>1 DEF Book!SameKey
    <2>2. CASE ~IsInit(r)
      <3>1. PICK i \in 1 .. Len(file[r]) : w = RecordRow(r, i)
        BY <2>2 DEF Wanted
      <3>2. Has(r, i)
        BY <1>0, <2>2 DEF ReqGood
      <3> QED BY <3>1, <3>2 DEF Has, Visible, SameKey, Book!SameKey, Elsewhere, Book!Elsewhere
    <2> QED BY <2>1, <2>2
  <1>5. Wants[r] # {}
    <2>1. CASE IsInit(r)
      BY <2>1 DEF Wants, Wanted
    <2>2. CASE ~IsInit(r)
      <3>1. file[r] \in Files
        BY <1>0, <2>2 DEF ReqGood, InTx
      <3>2. 1 \in 1 .. Len(file[r])
        BY <3>1, FilesAssumption
      <3> QED BY <2>2, <3>2 DEF Wants, Wanted
    <2> QED BY <2>1, <2>2
  <1>6. Book!Tell(r, "ok") \/ Book!Tell(r, "failed")
    <2>1. Goto(r, "ok") \/ Goto(r, "failed")
      BY DEF Commit
    <2> QED BY <1>0, <2>1, Told DEF Done
  <1>7. Wants' = Wants
    BY <1>0, SameWants
  <1> HIDE DEF new
  <1>8. \E n \in SUBSET {w \in Wants[r] : ~Book!Elsewhere(w)} :
          /\ \A x \in n : \A y \in rows : ~Book!Clash(x, y)
          /\ \A x, y \in n : Book!Clash(x, y) => x = y
          /\ \A w \in Wants[r] :
               Book!Elsewhere(w) \/ \E x \in rows \cup n : Book!SameKey(x, w)
          /\ rows' = rows \cup n
    BY <1>0, <1>2, <1>3, <1>4
  <1> QED BY <1>0, <1>5, <1>6, <1>7, <1>8 DEF Book!Happen

LEMMA BookStep == ASSUME CatInv, [Next]_vars PROVE [Book!Next]_(Book!vars)
  <1>0. Inv /\ TypeOK
    BY DEF CatInv, Inv
  <1>1. CASE UNCHANGED vars \/ Loads
    <2>1. UNCHANGED <<rows, audit, request, pc>>
      BY <1>1, LoadFacts DEF vars
    <2>2. Wants' = Wants /\ Answers' = Answers
      BY <2>1, SameWants, SameAnswers
    <2> QED BY <2>1, <2>2 DEF Book!vars
  <1>2. ASSUME NEW r \in Reqs, Inner(r) PROVE UNCHANGED Book!vars
    <2>1. \A q \in Reqs : pc'[q] = pc[q] \/ (pc[q] \notin Done /\ pc'[q] \notin Done)
      BY <1>0, <1>2, InnerFacts DEF InTx, Done
    <2>2. Wants' = Wants /\ Answers' = Answers
      BY <1>0, <1>2, <2>1, InnerFacts, SameWants, SameAnswers
    <2> QED BY <1>0, <1>2, <2>2, InnerFacts DEF Book!vars
  <1>3. ASSUME NEW r \in Reqs, StartInit(r) \/ StartImport(r) PROVE Book!Next
    BY <1>3, BookAsks DEF Book!Next
  <1>4. ASSUME NEW r \in Reqs, Commit(r) PROVE Book!Next
    BY <1>4, BookHappens DEF Book!Next
  <1>5. ASSUME NEW r \in Reqs, RefuseInit(r) PROVE Book!Next
    BY <1>5, BookRefuses DEF Book!Next
  <1>6. ASSUME NEW r \in Reqs, Reject(r) \/ NoKek(r) PROVE Book!Next
    <2>1. Book!Fail(r)
      BY <1>0, <1>6, BookFails DEF Reject, NoKek, Refuse, Done
    <2> QED BY <2>1 DEF Book!Next
  <1>7. ASSUME NEW r \in Reqs,
               Fail(r) \/ PoolTimeout(r) \/ DeadlockAbort(r) \/ InsertNameTaken(r)
        PROVE  Book!Next
    <2>1. Rollback(r) /\ pc[r] \notin Done
      BY <1>7, GivesUp DEF InTx, Done
    <2>2. Book!Fail(r)
      BY <1>0, <2>1, BookFails DEF Rollback
    <2> QED BY <2>2 DEF Book!Next
  <1> QED BY <1>1, <1>2, <1>3, <1>4, <1>5, <1>6, <1>7 DEF Next, Step, Inner, Loads

\* Inits and imports are serializable: whatever the interleaving of their
\* looks, skips and inserts, each happens at its COMMIT, whole and without a
\* clash, or never, and its answer says so.
THEOREM DatabaseIsCatalogue == Spec => ImplementsCatalogue
  <1>1. Init => Book!Init
    <2> SUFFICES ASSUME Init PROVE Book!Init
      OBVIOUS
    <2>1. ASSUME NEW r \in Reqs PROVE Wanted(r) = {}
      <3>1. ~IsInit(r) /\ Len(file[r]) = 0
        BY DEF Init, IsInit
      <3>2. 1 .. Len(file[r]) = {}
        BY <3>1
      <3> QED BY <3>1, <3>2 DEF Wanted
    <2>2. Wants = [r \in Reqs |-> {}]
      BY <2>1 DEF Wants
    <2>3. Answers = [r \in Reqs |-> "none"]
      BY DEF Init, Answers, Done
    <2> QED BY <2>2, <2>3 DEF Init, Book!Init
  <1>2. CatInv /\ [Next]_vars => [Book!Next]_(Book!vars)
    BY BookStep
  <1> QED BY <1>1, <1>2, CatInvHolds, PTL DEF Spec, Book!Spec, ImplementsCatalogue
=============================================================================
