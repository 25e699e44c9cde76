----------------------- MODULE CredentialIssueProofs -----------------------
(***************************************************************************)
(* The safety properties of CredentialIssue, for any number of requests,    *)
(* batch items and credentials.                                             *)
(***************************************************************************)
EXTENDS CredentialIssue, TLAPS

\* Stages at which a request owns a credential it has drawn itself.
Inserted == {"create", "activate", "audit", "commit", "rollback"}

\* The table: what was not drawn is not there, what is there is ACTIVE, and a
\* live row has its account.
AllActive == \A i \in Ids : Stored(i) => rows[i].status = "ACTIVE"
RowInv ==
    /\ \A i \in Ids : Stored(i) => i <= used
    /\ AllActive
    /\ LiveHasAccount

\* A request and the credential it holds: not on record before the COMMIT, with
\* an account once the provider has said so, on record when it is answered.
CredInv(r) ==
    /\ pc[r] \in Inserted => cred[r] \in Ids /\ ~Stored(cred[r])
    /\ pc[r] \in {"activate", "audit", "commit"} => cred[r] \in accounts \cup lapsed
    /\ pc[r] \in {"audit", "commit"} => status[r] = "ACTIVE"
    /\ pc[r] = "undo" => cred[r] \in Ids /\ (~Stored(cred[r]) \/ cred[r] \in unsure)
    /\ pc[r] = "answer" => cred[r] \in Ids /\ Stored(cred[r])
    /\ pc[r] \in {"idle", "check", "begin", "revoke", "insert"} => cred[r] = 0

\* A request and the rows it revokes: all it has seen is revoked already, or is
\* its own to revoke.
SeenInv(r) ==
    /\ \A i \in seen[r] : Stored(i)
    /\ pc[r] \in Inserted \cup {"insert"}
       => /\ \A i \in seen[r] : rows[i].revoked \/ i \in touched[r]
          /\ touched[r] \subseteq seen[r]

\* Two requests never own the same credential.
Apart ==
    \A r, q \in Reqs :
        /\ pc[r] \in Inserted \cup {"undo"} /\ pc[q] \in Inserted \cup {"undo"}
        /\ cred[r] = cred[q]
        => r = q

Inv == TypeOK /\ RowInv /\ (\A r \in Reqs : CredInv(r) /\ SeenInv(r)) /\ Apart

USE ItemsAssumption, IdsAssumption DEF Ids, Row

\* Nothing is drawn and nothing is under way at the start.
LEMMA InitInv == Init => Inv
  BY DEF Init, Inv, TypeOK, RowInv, AllActive, LiveHasAccount, CredInv, SeenInv,
     Apart, Stored, Live, Absent, Inserted, InTx

\* The steps that only get a request on its way: no row, account or credential
\* changes hands.
LEMMA StepBegin == ASSUME Inv, NEW r \in Reqs, Begin(r) \/ Generate(r) PROVE Inv'
  <1> USE DEF Begin, Generate, Goto, external, tx
  <1>1. TypeOK'
    <2>1. items' \in [Reqs -> 0 .. MaxItems]
      <3>1. CASE Begin(r)
        <4>1. PICK n \in 1 .. MaxItems : items' = [items EXCEPT ![r] = n]
          BY <3>1
        <4> QED BY <4>1 DEF Inv, TypeOK
      <3>2. CASE Generate(r)
        BY <3>2 DEF Inv, TypeOK
      <3> QED BY <3>1, <3>2
    <2>2. pc' \in [Reqs -> InTx \cup {"idle", "check", "begin", "undo", "answer"}]
      BY DEF Inv, TypeOK
    <2> QED BY <2>1, <2>2 DEF Inv, TypeOK
  <1>2. RowInv'
    BY DEF Inv, RowInv, AllActive, LiveHasAccount, Live, Stored
  <1>3. ASSUME NEW q \in Reqs PROVE CredInv(q)'
    BY DEF Inv, TypeOK, CredInv, Stored, Inserted
  <1>4. ASSUME NEW q \in Reqs PROVE SeenInv(q)'
    BY DEF Inv, TypeOK, SeenInv, Stored, Inserted
  <1>5. Apart'
    <2>1. \A q \in Reqs : pc'[q] \in Inserted \cup {"undo"} => pc[q] = pc'[q] /\ cred'[q] = cred[q]
      BY DEF Inv, TypeOK, Inserted
    <2> QED BY <2>1 DEF Inv, Apart
  <1> QED BY <1>1, <1>2, <1>3, <1>4, <1>5 DEF Inv

\* What the UPDATE sees is on record.
LEMMA StepSnapshot == ASSUME Inv, NEW r \in Reqs, Snapshot(r) PROVE Inv'
  <1> USE DEF Snapshot, Goto, external, tx
  <1>1. TypeOK'
    BY DEF Inv, TypeOK, InTx
  <1>2. RowInv'
    BY DEF Inv, RowInv, AllActive, LiveHasAccount, Live, Stored
  <1>3. ASSUME NEW q \in Reqs PROVE CredInv(q)'
    BY DEF Inv, TypeOK, CredInv, Stored, Inserted
  <1>4. ASSUME NEW q \in Reqs PROVE SeenInv(q)'
    BY DEF Inv, TypeOK, SeenInv, Stored, Inserted
  <1>5. Apart'
    BY DEF Inv, TypeOK, Apart, Inserted
  <1> QED BY <1>1, <1>2, <1>3, <1>4, <1>5 DEF Inv

\* What it has seen and not locked is revoked already.
LEMMA StepRevoke == ASSUME Inv, NEW r \in Reqs, Revoke(r) PROVE Inv'
  <1> USE DEF Revoke, Goto, external, tx
  <1>1. TypeOK'
    BY DEF Inv, TypeOK, InTx
  <1>2. RowInv'
    BY DEF Inv, RowInv, AllActive, LiveHasAccount, Live, Stored
  <1>3. ASSUME NEW q \in Reqs PROVE CredInv(q)'
    BY DEF Inv, TypeOK, CredInv, Stored, Inserted
  <1>4. ASSUME NEW q \in Reqs PROVE SeenInv(q)'
    BY DEF Inv, TypeOK, SeenInv, Stored, Inserted
  <1>5. Apart'
    BY DEF Inv, TypeOK, Apart, Inserted
  <1> QED BY <1>1, <1>2, <1>3, <1>4, <1>5 DEF Inv

\* A live row was drawn and is on record.
LEMMA StepReuse == ASSUME Inv, NEW r \in Reqs, Reuse(r) PROVE Inv'
  <1> USE DEF Reuse, Goto, external
  <1>1. PICK i \in Ids : Live(i) /\ cred' = [cred EXCEPT ![r] = i]
    OBVIOUS
  <1>2. Stored(i) /\ i \in 1 .. used
    BY <1>1 DEF Inv, TypeOK, RowInv, Live, Stored
  <1>3. TypeOK'
    BY <1>1, <1>2 DEF Inv, TypeOK, InTx
  <1>4. RowInv'
    BY DEF Inv, RowInv, AllActive, LiveHasAccount, Live, Stored
  <1>5. ASSUME NEW q \in Reqs PROVE CredInv(q)'
    BY <1>1, <1>2 DEF Inv, TypeOK, CredInv, Stored, Inserted
  <1>6. ASSUME NEW q \in Reqs PROVE SeenInv(q)'
    BY DEF Inv, TypeOK, SeenInv, Stored, Inserted
  <1>7. Apart'
    BY <1>1 DEF Inv, TypeOK, Apart, Inserted
  <1> QED BY <1>3, <1>4, <1>5, <1>6, <1>7 DEF Inv

\* A credential is drawn: it is new, so nobody else owns it and no row is its.
LEMMA StepInsert == ASSUME Inv, NEW r \in Reqs, Insert(r) PROVE Inv'
  <1> USE DEF Insert, Goto, external
  <1>1. TypeOK'
    BY DEF Inv, TypeOK, InTx
  <1>2. RowInv'
    BY DEF Inv, TypeOK, RowInv, AllActive, LiveHasAccount, Live, Stored
  <1>3. ASSUME NEW q \in Reqs PROVE CredInv(q)'
    BY DEF Inv, TypeOK, RowInv, CredInv, Stored, Inserted
  <1>4. ASSUME NEW q \in Reqs PROVE SeenInv(q)'
    BY DEF Inv, TypeOK, SeenInv, Stored, Inserted
  <1>5. Apart'
    BY DEF Inv, TypeOK, Apart, CredInv, Inserted
  <1> QED BY <1>1, <1>2, <1>3, <1>4, <1>5 DEF Inv

\* create_user only adds the account of a credential that is the request's own.
LEMMA StepCreateUser == ASSUME Inv, NEW r \in Reqs, CreateUser(r) PROVE Inv'
  <1> USE DEF CreateUser, Goto
  <1>1. cred[r] \in 1 .. used /\ accounts \subseteq accounts'
    BY DEF Inv, TypeOK, CredInv, Inserted
  <1>2. TypeOK'
    <2>1. accounts' \subseteq 1 .. used
      BY <1>1 DEF Inv, TypeOK
    <2>2. status' \in [Reqs -> {"absent", "PROVISIONING", "ACTIVE", "FAILED"}]
      BY DEF Inv, TypeOK
    <2>3. pc' \in [Reqs -> InTx \cup {"idle", "check", "begin", "undo", "answer"}]
      <3>1. PICK stage \in {"activate", "rollback"} : pc' = [pc EXCEPT ![r] = stage]
        OBVIOUS
      <3> QED BY <3>1 DEF Inv, TypeOK, InTx
    <2> QED BY <2>1, <2>2, <2>3 DEF Inv, TypeOK
  <1>3. RowInv'
    BY <1>1 DEF Inv, RowInv, AllActive, LiveHasAccount, Live, Stored
  <1>4. ASSUME NEW q \in Reqs PROVE CredInv(q)'
    BY <1>1 DEF Inv, TypeOK, CredInv, Stored, Inserted
  <1>5. ASSUME NEW q \in Reqs PROVE SeenInv(q)'
    BY DEF Inv, TypeOK, SeenInv, Stored, Inserted
  <1>6. Apart'
    <2>1. \A q \in Reqs : pc'[q] \in Inserted \cup {"undo"} => pc[q] \in Inserted \cup {"undo"}
      BY DEF Inv, TypeOK, Inserted
    <2> QED BY <2>1 DEF Inv, Apart
  <1> QED BY <1>2, <1>3, <1>4, <1>5, <1>6 DEF Inv

\* From here on the request holds an account and, with Activate, the status ACTIVE.
LEMMA StepActivate ==
  ASSUME Inv, NEW r \in Reqs, Activate(r) \/ Audit(r) PROVE Inv'
  <1> USE DEF Activate, Audit, Goto, external
  <1>1. TypeOK'
    BY DEF Inv, TypeOK, InTx
  <1>2. RowInv'
    BY DEF Inv, RowInv, AllActive, LiveHasAccount, Live, Stored
  <1>3. ASSUME NEW q \in Reqs PROVE CredInv(q)'
    BY DEF Inv, TypeOK, CredInv, Stored, Inserted
  <1>4. ASSUME NEW q \in Reqs PROVE SeenInv(q)'
    BY DEF Inv, TypeOK, SeenInv, Stored, Inserted
  <1>5. Apart'
    BY DEF Inv, TypeOK, Apart, Inserted
  <1> QED BY <1>1, <1>2, <1>3, <1>4, <1>5 DEF Inv

\* What a COMMIT does to the table: the new row is ACTIVE and valid, rows that
\* were there stay, and a row that was revoked stays revoked.
LEMMA Published ==
  ASSUME Inv, NEW r \in Reqs, pc[r] = "commit", Publish(r)
  PROVE  /\ rows' \in [Ids -> Row]
         /\ cred[r] \in Ids /\ ~Stored(cred[r])
         /\ rows'[cred[r]] = [status |-> "ACTIVE", revoked |-> FALSE]
         /\ \A i \in Ids \ {cred[r]} :
              /\ rows'[i].status = rows[i].status
              /\ rows[i].revoked => rows'[i].revoked
              /\ i \in touched[r] => rows'[i].revoked
              /\ i \notin touched[r] => rows'[i] = rows[i]
  <1>1. cred[r] \in Ids /\ ~Stored(cred[r]) /\ status[r] = "ACTIVE"
    BY DEF Inv, CredInv, Inserted
  <1> QED BY <1>1 DEF Inv, TypeOK, Publish

\* The three outcomes of a COMMIT: done, done but reported as failed, rolled back.
LEMMA StepCommit ==
  ASSUME Inv, NEW r \in Reqs, pc[r] = "commit", Release(r), UNCHANGED <<used, external, cred, items>>,
         \/ Publish(r) /\ Goto(r, "answer") /\ UNCHANGED unsure
         \/ Publish(r) /\ Goto(r, "undo") /\ unsure' = unsure \cup {cred[r]}
         \/ Goto(r, "undo") /\ UNCHANGED <<rows, unsure>>
  PROVE  Inv'
  <1> USE DEF Release, Goto, external
  <1>1. /\ cred[r] \in 1 .. used /\ ~Stored(cred[r])
        /\ cred[r] \in accounts \cup lapsed
    BY DEF Inv, TypeOK, CredInv, Inserted
  <1>2. /\ rows' \in [Ids -> Row]
        /\ \A i \in Ids \ {cred[r]} : /\ rows'[i].status = rows[i].status
                                      /\ rows[i].revoked => rows'[i].revoked
        /\ \/ rows'[cred[r]] = [status |-> "ACTIVE", revoked |-> FALSE]
           \/ rows'[cred[r]] = rows[cred[r]] /\ pc'[r] = "undo" /\ UNCHANGED unsure
    <2>1. CASE Publish(r)
      BY <2>1, Published
    <2>2. CASE Goto(r, "undo") /\ UNCHANGED <<rows, unsure>>
      BY <2>2 DEF Inv, TypeOK
    <2> QED BY <2>1, <2>2
  <1>3. unsure \subseteq unsure' /\ unsure' \subseteq unsure \cup {cred[r]}
    OBVIOUS
  <1>4. TypeOK'
    <2>1. pc' \in [Reqs -> InTx \cup {"idle", "check", "begin", "undo", "answer"}]
      BY DEF Inv, TypeOK
    <2>2. unsure' \subseteq 1 .. used
      BY <1>1, <1>3 DEF Inv, TypeOK
    <2> QED BY <1>2, <2>1, <2>2 DEF Inv, TypeOK
  <1>5. RowInv'
    <2>1. ASSUME NEW i \in Ids, Stored(i)' PROVE i <= used /\ rows'[i].status = "ACTIVE"
      <3>1. CASE i = cred[r]
        BY <1>1, <1>2, <2>1, <3>1 DEF Stored
      <3>2. CASE i # cred[r]
        BY <1>2, <2>1, <3>2 DEF Inv, RowInv, AllActive, Stored
      <3> QED BY <3>1, <3>2
    <2>2. ASSUME NEW i \in Ids, Live(i)' PROVE i \in accounts \/ i \in unsure'
      <3>1. CASE i = cred[r]
        BY <1>1, <2>2, <3>1 DEF Live
      <3>2. CASE i # cred[r]
        BY <1>2, <1>3, <2>2, <3>2 DEF Inv, RowInv, LiveHasAccount, Live
      <3> QED BY <3>1, <3>2
    <2> QED BY <2>1, <2>2 DEF RowInv, AllActive, LiveHasAccount, Inv
  <1>6. ASSUME NEW q \in Reqs, q # r PROVE CredInv(q)'
    <2>1. pc'[q] = pc[q] /\ status'[q] = status[q]
      BY <1>6 DEF Inv, TypeOK
    <2>2. pc[q] \in Inserted \cup {"undo"} => cred[q] # cred[r]
      BY <1>6 DEF Inv, Apart, Inserted
    <2>3. pc[q] = "answer" => cred[q] # cred[r]
      BY <1>1 DEF Inv, CredInv
    <2> QED BY <1>2, <1>3, <1>6, <2>1, <2>2, <2>3 DEF Inv, CredInv, Stored, Inserted
  <1>7. CredInv(r)'
    <2>1. pc'[r] \in {"answer", "undo"}
      BY DEF Inv, TypeOK
    <2>2. pc'[r] = "answer" => rows'[cred[r]].status = "ACTIVE"
      BY <1>2, Published DEF Inv, TypeOK
    <2>3. pc'[r] = "undo" => rows'[cred[r]].status = "absent" \/ cred[r] \in unsure'
      <3>1. CASE unsure' = unsure \cup {cred[r]}
        BY <3>1
      <3>2. CASE pc'[r] = "undo" /\ UNCHANGED <<rows, unsure>>
        BY <1>1, <3>2 DEF Stored
      <3> QED BY <3>1, <3>2 DEF Inv, TypeOK
    <2> QED BY <1>1, <2>1, <2>2, <2>3 DEF Inv, TypeOK, CredInv, Stored, Inserted
  <1>8. ASSUME NEW q \in Reqs PROVE SeenInv(q)'
    <2>1. \A i \in seen[q] : i \in Ids /\ i # cred[r]
      BY <1>1 DEF Inv, TypeOK, SeenInv
    <2> QED BY <1>2, <2>1 DEF Inv, TypeOK, SeenInv, Stored, Inserted
  <1>9. Apart'
    <2>1. \A q \in Reqs : pc'[q] \in Inserted \cup {"undo"} => pc[q] \in Inserted \cup {"undo"}
      BY DEF Inv, TypeOK, Inserted
    <2> QED BY <2>1 DEF Inv, Apart
  <1> QED BY <1>4, <1>5, <1>6, <1>7, <1>8, <1>9 DEF Inv

\* The end of a request: its locks are free, it owns nothing.
LEMMA StepClose ==
  ASSUME Inv, NEW r \in Reqs, Close(r), UNCHANGED <<rows, used, lapsed, unsure>>,
         accounts' \in {accounts, accounts \ {cred[r]}},
         accounts' # accounts => pc[r] = "undo",
         Release(r) \/ (pc[r] \in {"undo", "answer"} /\ UNCHANGED <<auditLock, status, seen, touched>>)
  PROVE  Inv'
  <1> USE DEF Release, Close, Goto
  <1>1. TypeOK'
    <2>1. accounts' \subseteq 1 .. used
      BY DEF Inv, TypeOK
    <2>2. /\ auditLock' \subseteq Reqs
          /\ status' \in [Reqs -> {"absent", "PROVISIONING", "ACTIVE", "FAILED"}]
          /\ seen' \in [Reqs -> SUBSET Ids] /\ touched' \in [Reqs -> SUBSET Ids]
      BY DEF Inv, TypeOK
    <2>3. /\ pc' \in [Reqs -> InTx \cup {"idle", "check", "begin", "undo", "answer"}]
          /\ items' \in [Reqs -> 0 .. MaxItems] /\ cred' \in [Reqs -> 0 .. used]
      BY DEF Inv, TypeOK
    <2> QED BY <2>1, <2>2, <2>3 DEF Inv, TypeOK
  <1>2. RowInv'
    <2>1. ASSUME NEW i \in Ids, Live(i), i \in accounts PROVE i \in accounts' \/ i \in unsure
      BY <2>1 DEF Inv, CredInv, Live, Stored
    <2> QED BY <2>1 DEF Inv, RowInv, AllActive, LiveHasAccount, Live, Stored
  <1>3. ASSUME NEW q \in Reqs, q # r PROVE CredInv(q)'
    <2>1. /\ pc'[q] = pc[q] /\ status'[q] = status[q] /\ cred'[q] = cred[q]
      BY <1>3 DEF Inv, TypeOK
    <2>2. pc[q] \in Inserted => cred[q] \in accounts' \/ cred[q] \notin accounts
      BY <1>3 DEF Inv, Apart, Inserted
    <2> QED BY <2>1, <2>2 DEF Inv, CredInv, Stored, Inserted
  <1>4. CredInv(r)'
    BY DEF Inv, TypeOK, CredInv, Inserted
  <1>5. ASSUME NEW q \in Reqs PROVE SeenInv(q)'
    BY DEF Inv, TypeOK, SeenInv, Stored, Inserted
  <1>6. Apart'
    BY DEF Inv, TypeOK, Apart, Inserted
  <1> QED BY <1>1, <1>2, <1>3, <1>4, <1>5, <1>6 DEF Inv

\* The next item of a batch starts with nothing in hand.
LEMMA StepNextItem ==
  ASSUME Inv, NEW r \in Reqs, pc[r] = "answer", items[r] > 1, Goto(r, "check"),
         items' = [items EXCEPT ![r] = @ - 1], cred' = [cred EXCEPT ![r] = 0],
         UNCHANGED <<rows, used, external, unsure, auditLock, status, seen, touched>>
  PROVE  Inv'
  <1> USE DEF Goto, external
  <1>1. TypeOK'
    BY DEF Inv, TypeOK, InTx
  <1>2. RowInv'
    BY DEF Inv, RowInv, AllActive, LiveHasAccount, Live, Stored
  <1>3. ASSUME NEW q \in Reqs PROVE CredInv(q)'
    BY DEF Inv, TypeOK, CredInv, Stored, Inserted
  <1>4. ASSUME NEW q \in Reqs PROVE SeenInv(q)'
    BY DEF Inv, TypeOK, SeenInv, Stored, Inserted
  <1>5. Apart'
    BY DEF Inv, TypeOK, Apart, Inserted
  <1> QED BY <1>1, <1>2, <1>3, <1>4, <1>5 DEF Inv

\* Time: an account goes only after its row has lapsed.
LEMMA StepTime == ASSUME Inv, NEW i \in Ids, Lapse(i) \/ Expire(i) PROVE Inv'
  <1> USE DEF Lapse, Expire, tx
  <1>1. TypeOK'
    <2>1. accounts' \subseteq 1 .. used
      BY DEF Inv, TypeOK
    <2>2. lapsed' \subseteq 1 .. used
      <3>1. i <= used => i \in 1 .. used
        BY DEF Inv, TypeOK
      <3> QED BY <3>1 DEF Inv, TypeOK
    <2> QED BY <2>1, <2>2 DEF Inv, TypeOK
  <1>2. RowInv'
    BY DEF Inv, RowInv, AllActive, LiveHasAccount, Live, Stored
  <1>3. ASSUME NEW q \in Reqs PROVE CredInv(q)'
    BY DEF Inv, CredInv, Stored
  <1>4. ASSUME NEW q \in Reqs PROVE SeenInv(q)'
    BY DEF Inv, SeenInv, Stored
  <1>5. Apart'
    BY DEF Inv, Apart
  <1> QED BY <1>1, <1>2, <1>3, <1>4, <1>5 DEF Inv

\* Every step, and a stutter, keeps the invariant.
LEMMA NextInv == ASSUME Inv, [Next]_vars PROVE Inv'
  <1>1. ASSUME NEW r \in Reqs, Commit(r) \/ CommitError(r) PROVE Inv'
    BY <1>1, StepCommit DEF Commit, CommitError
  <1>2. ASSUME NEW r \in Reqs, InsertError(r) \/ Rollback(r) \/ Abort(r) PROVE Inv'
    BY <1>2, StepClose DEF InsertError, Rollback, Abort, external
  <1>3. ASSUME NEW r \in Reqs, Undo(r) PROVE Inv'
    BY <1>3, StepClose DEF Undo
  <1>4. ASSUME NEW r \in Reqs, Answer(r) PROVE Inv'
    BY <1>4, StepClose, StepNextItem DEF Answer, external
  <1>5. CASE UNCHANGED vars
    BY <1>5 DEF vars, external, tx, Inv, TypeOK, RowInv, AllActive, LiveHasAccount,
       Live, Stored, CredInv, SeenInv, Apart
  <1> QED BY <1>1, <1>2, <1>3, <1>4, <1>5, StepBegin, StepSnapshot, StepRevoke, StepReuse, StepInsert, StepCreateUser,
             StepActivate, StepTime DEF Next, Issue

\* The invariant holds in every reachable state.
LEMMA Invariance == Spec => []Inv
  BY InitInv, NextInv, PTL DEF Spec

-----------------------------------------------------------------------------
\* Every reachable state is well typed.
THEOREM IssueTypeCorrect == Spec => []TypeOK
  BY Invariance, PTL DEF Inv

\* A row that would be reused has its account, unless its COMMIT was misreported:
\* the order of execute (account, then ACTIVE, then COMMIT) and the two clocks.
THEOREM LiveRowsWork == Spec => []LiveHasAccount
  BY Invariance, PTL DEF Inv, RowInv

\* PROVISIONING and FAILED never leave a transaction.
THEOREM NothingToReconcile == Spec => []OnlyActiveStored
  <1>1. Inv => OnlyActiveStored
    BY DEF Inv, RowInv, AllActive, OnlyActiveStored, Stored, Stale
  <1> QED BY <1>1, Invariance, PTL

\* A client is only answered with a credential on record.
THEOREM AnswersAreOnRecord == Spec => []AnswerOnRecord
  <1>1. Inv => AnswerOnRecord
    <2> SUFFICES ASSUME Inv, NEW r \in Reqs, pc[r] = "answer"
                 PROVE  /\ rows[cred[r]].status = "ACTIVE"
                        /\ \A q \in Reqs : pc[q] \in InTx => cred[q] # cred[r]
      BY DEF AnswerOnRecord
    <2>1. cred[r] \in Ids /\ Stored(cred[r])
      BY DEF Inv, CredInv
    <2>2. rows[cred[r]].status = "ACTIVE"
      BY <2>1 DEF Inv, RowInv, AllActive
    <2>3. ASSUME NEW q \in Reqs, pc[q] \in InTx PROVE cred[q] # cred[r]
      BY <2>1, <2>3 DEF Inv, CredInv, InTx, Inserted
    <2> QED BY <2>2, <2>3
  <1> QED BY <1>1, Invariance, PTL

\* A COMMIT revokes every row its transaction set out to revoke, or another has.
THEOREM CommitsSupersede == Spec => CommitSupersedes
  <1>1. ASSUME Inv, [Next]_vars
        PROVE  \A r \in Reqs : pc[r] = "commit" /\ pc'[r] = "answer"
                   => \A i \in seen[r] : rows'[i].revoked
    <2> SUFFICES ASSUME NEW r \in Reqs, pc[r] = "commit", pc'[r] = "answer",
                        NEW i \in seen[r]
                 PROVE  rows'[i].revoked
      OBVIOUS
    <2>1. Commit(r)
      <3>1. ASSUME NEW q \in Reqs, Begin(q) \/ Issue(q) \/ Abort(q), ~Commit(r) PROVE FALSE
        BY <1>1, <3>1 DEF Begin, Issue, Abort, Reuse, Generate, Snapshot, Revoke, Insert,
           InsertError, CreateUser, Activate, Audit, Commit, CommitError, Undo, Rollback,
           Answer, Close, Goto, Inv, TypeOK
      <3>2. ASSUME NEW j \in Ids, Lapse(j) \/ Expire(j) PROVE FALSE
        BY <3>2 DEF Lapse, Expire
      <3>3. CASE UNCHANGED vars
        BY <3>3 DEF vars
      <3> QED BY <1>1, <3>1, <3>2, <3>3 DEF Next
    <2>2. /\ i \in Ids /\ Stored(i)
          /\ rows[i].revoked \/ i \in touched[r]
      BY <1>1 DEF Inv, TypeOK, SeenInv, Inserted
    <2> QED BY <1>1, <2>1, <2>2, Published DEF Commit
  <1> QED BY <1>1, Invariance, PTL DEF Spec, CommitSupersedes

\* A row is revoked in the same step as another one becomes valid.
THEOREM RevokedOnlyByReplacement == Spec => RevokedByReplacement
  <1>1. ASSUME Inv, [Next]_vars
        PROVE  (\E i \in Ids : rows'[i].revoked /\ ~rows[i].revoked)
               => \E j \in Ids : ~Stored(j) /\ rows'[j].status = "ACTIVE" /\ ~rows'[j].revoked
    <2> DEFINE Gained == \E j \in Ids : ~Stored(j) /\ rows'[j].status = "ACTIVE"
                                        /\ ~rows'[j].revoked
    <2>1. ASSUME NEW r \in Reqs, Commit(r) \/ CommitError(r), rows' # rows PROVE Gained
      <3>1. pc[r] = "commit" /\ Publish(r)
        BY <2>1 DEF Commit, CommitError
      <3> QED BY <1>1, <3>1, Published
    <2>2. ASSUME NEW r \in Reqs,
                 \/ Begin(r) \/ Reuse(r) \/ Generate(r) \/ Snapshot(r) \/ Revoke(r)
                 \/ Insert(r) \/ InsertError(r) \/ CreateUser(r) \/ Activate(r) \/ Audit(r)
                 \/ Undo(r) \/ Rollback(r) \/ Answer(r) \/ Abort(r)
          PROVE  rows' = rows
      BY <2>2 DEF Begin, Reuse, Generate, Snapshot, Revoke, Insert, InsertError, CreateUser,
         Activate, Audit, Undo, Rollback, Answer, Abort
    <2>3. ASSUME NEW j \in Ids, Lapse(j) \/ Expire(j) PROVE rows' = rows
      BY <2>3 DEF Lapse, Expire
    <2>4. ASSUME UNCHANGED vars PROVE rows' = rows
      BY <2>4 DEF vars
    <2> HIDE DEF Gained
    <2>5. ASSUME NEW r \in Reqs, Begin(r) \/ Issue(r) \/ Abort(r) PROVE rows' = rows \/ Gained
      BY <2>1, <2>2, <2>5 DEF Issue
    <2>6. rows' = rows \/ Gained
      BY <1>1, <2>3, <2>4, <2>5 DEF Next
    <2> QED BY <2>6 DEF Gained
  <1> QED BY <1>1, Invariance, PTL DEF Spec, RevokedByReplacement

-----------------------------------------------------------------------------
(* The refinement: a replacement is one step of the register, the COMMIT.    *)

\* One request moves: what the register sees of it.
LEMMA OneMoves ==
  ASSUME NEW r \in Reqs,
         \A q \in Reqs \ {r} : pc'[q] = pc[q] /\ cred'[q] = cred[q] /\ seen'[q] = seen[q]
  PROVE  /\ Busy' = IF pc'[r] \in InTx THEN Busy \cup {r} ELSE Busy \ {r}
         /\ Found' = [Found EXCEPT ![r] = IF pc'[r] \in InTx THEN seen'[r] ELSE {}]
         /\ Answered' = [Answered EXCEPT ![r] = IF pc'[r] = "answer" THEN cred'[r] ELSE 0]
  <1>1. Busy' = IF pc'[r] \in InTx THEN Busy \cup {r} ELSE Busy \ {r}
    BY DEF Busy
  <1>2. Found' = [Found EXCEPT ![r] = IF pc'[r] \in InTx THEN seen'[r] ELSE {}]
    BY DEF Found
  <1>3. Answered' = [Answered EXCEPT ![r] = IF pc'[r] = "answer" THEN cred'[r] ELSE 0]
    BY DEF Answered
  <1> QED BY <1>1, <1>2, <1>3

LEMMA SameRows == ASSUME rows' = rows PROVE Valid' = Valid /\ Ever' = Ever
  BY DEF Valid, Ever, Stored

LEMMA Members ==
  ASSUME NEW r \in Reqs
  PROVE  /\ r \in Busy <=> pc[r] \in InTx
         /\ Found[r] = IF pc[r] \in InTx THEN seen[r] ELSE {}
         /\ Answered[r] = IF pc[r] = "answer" THEN cred[r] ELSE 0
         /\ Found = [Found EXCEPT ![r] = Found[r]]
         /\ Answered = [Answered EXCEPT ![r] = Answered[r]]
  BY DEF Busy, Found, Answered

LEMMA OutsideTx ==
  ASSUME NEW r \in Reqs, pc[r] \notin InTx, pc'[r] \notin InTx,
         \A q \in Reqs \ {r} : pc'[q] = pc[q] /\ cred'[q] = cred[q] /\ seen'[q] = seen[q]
  PROVE  Busy' = Busy /\ Found' = Found /\ r \notin Busy
  <1>1. Busy' = Busy /\ r \notin Busy
    BY DEF Busy
  <1>2. Found' = Found
    BY DEF Found
  <1> QED BY <1>1, <1>2

\* A step inside or outside the transaction that neither reads nor writes.
LEMMA Unseen ==
  ASSUME NEW r \in Reqs, rows' = rows,
         \A q \in Reqs \ {r} : pc'[q] = pc[q] /\ cred'[q] = cred[q] /\ seen'[q] = seen[q],
         pc[r] # "answer", pc'[r] # "answer",
         pc[r] \in InTx <=> pc'[r] \in InTx, pc[r] \in InTx => seen'[r] = seen[r]
  PROVE  UNCHANGED Register!vars
  <1>1. Busy' = Busy
    BY DEF Busy
  <1>2. Found' = Found
    BY DEF Found
  <1>3. Answered' = Answered
    BY DEF Answered
  <1> QED BY <1>1, <1>2, <1>3, SameRows DEF Register!vars

\* The transaction ends without a COMMIT.
LEMMA GivenUp ==
  ASSUME NEW r \in Reqs, rows' = rows,
         \A q \in Reqs \ {r} : pc'[q] = pc[q] /\ cred'[q] = cred[q] /\ seen'[q] = seen[q],
         pc[r] \in InTx, pc'[r] \in {"idle", "undo"}
  PROVE  Register!GiveUp(r)
  <1>0. pc[r] # "answer" /\ pc'[r] # "answer" /\ pc'[r] \notin InTx
    BY DEF InTx
  <1>1. r \in Busy /\ Busy' = Busy \ {r} /\ Found' = [Found EXCEPT ![r] = {}]
    BY <1>0, OneMoves, Members
  <1>2. Answered' = Answered
    BY <1>0 DEF Answered
  <1> QED BY <1>1, <1>2, SameRows DEF Register!GiveUp, Register!Finish

\* The COMMIT.
LEMMA Replaced ==
  ASSUME Inv, NEW r \in Reqs, pc[r] = "commit", Publish(r), cred' = cred,
         \A q \in Reqs \ {r} : pc'[q] = pc[q] /\ seen'[q] = seen[q],
         pc'[r] \in {"answer", "undo"}
  PROVE  Register!Replace(r, cred[r]) /\ cred[r] \in Ids
  <1>0. pc[r] \in InTx /\ pc[r] # "answer" /\ pc'[r] \notin InTx
    BY DEF InTx
  <1>1. /\ rows' \in [Ids -> Row]
        /\ cred[r] \in Ids /\ ~Stored(cred[r])
        /\ rows'[cred[r]] = [status |-> "ACTIVE", revoked |-> FALSE]
        /\ \A i \in Ids \ {cred[r]} :
             /\ rows'[i].status = rows[i].status
             /\ rows[i].revoked => rows'[i].revoked
             /\ i \in touched[r] => rows'[i].revoked
             /\ i \notin touched[r] => rows'[i] = rows[i]
    BY Published
  <1>2. Ever' = Ever \cup {cred[r]} /\ cred[r] \notin Ever
    BY <1>1 DEF Ever, Stored
  <1>3. /\ touched[r] \subseteq seen[r]
        /\ \A i \in seen[r] : Stored(i) /\ (rows[i].revoked \/ i \in touched[r])
    BY DEF Inv, SeenInv, Inserted
  <1>4. Valid' = (Valid \ seen[r]) \cup {cred[r]}
    <2>1. ASSUME NEW i \in Ids, i # cred[r]
          PROVE  (Stored(i)' /\ ~rows'[i].revoked) <=> (Stored(i) /\ ~rows[i].revoked /\ i \notin seen[r])
      <3>1. CASE i \in seen[r]
        BY <1>1, <1>3, <2>1, <3>1
      <3>2. CASE i \notin seen[r]
        BY <1>1, <1>3, <2>1, <3>2 DEF Stored
      <3> QED BY <3>1, <3>2
    <2>2. Stored(cred[r])' /\ ~rows'[cred[r]].revoked
      BY <1>1 DEF Stored
    <2> QED BY <1>1, <2>1, <2>2 DEF Valid
  <1>5. r \in Busy /\ Found[r] = seen[r] /\ Busy' = Busy \ {r} /\ Found' = [Found EXCEPT ![r] = {}]
    BY <1>0, OneMoves, Members
  <1>6. Answered' = [Answered EXCEPT ![r] = cred[r]] \/ Answered' = Answered
    BY <1>0, OneMoves, Members
  <1> QED BY <1>1, <1>2, <1>4, <1>5, <1>6 DEF Register!Replace, Register!Finish, Register!Set

\* Every step of the service is one of the register, or changes nothing there.
LEMMA RegisterStep == ASSUME Inv, [Next]_vars PROVE [Register!Next]_(Register!vars)
  <1>0. pc \in [Reqs -> InTx \cup {"idle", "check", "begin", "undo", "answer"}]
        /\ cred \in [Reqs -> 0 .. used] /\ seen \in [Reqs -> SUBSET Ids]
    BY DEF Inv, TypeOK
  <1> USE DEF Goto, Release, Close
  <1>1. ASSUME NEW r \in Reqs,
               \/ Begin(r) \/ Generate(r) \/ Revoke(r) \/ Insert(r) \/ CreateUser(r)
               \/ Activate(r) \/ Audit(r) \/ Undo(r)
        PROVE  UNCHANGED Register!vars
    <2>1. /\ rows' = rows /\ pc[r] # "answer" /\ pc'[r] # "answer"
          /\ \A q \in Reqs \ {r} : pc'[q] = pc[q] /\ cred'[q] = cred[q] /\ seen'[q] = seen[q]
          /\ pc[r] \in InTx <=> pc'[r] \in InTx
          /\ seen'[r] = seen[r]
      BY <1>0, <1>1 DEF Begin, Generate, Revoke, Insert, CreateUser, Activate, Audit, Undo, tx, InTx
    <2> QED BY <2>1, Unseen
  <1>2. ASSUME NEW r \in Reqs, Snapshot(r) PROVE Register!Next
    <2>1. /\ rows' = rows /\ pc[r] \notin InTx /\ pc'[r] \in InTx
          /\ pc[r] # "answer" /\ pc'[r] # "answer" /\ seen'[r] = Valid
          /\ \A q \in Reqs \ {r} : pc'[q] = pc[q] /\ cred'[q] = cred[q] /\ seen'[q] = seen[q]
      BY <1>0, <1>2 DEF Snapshot, InTx, Valid
    <2>2. r \notin Busy /\ Busy' = Busy \cup {r} /\ Found' = [Found EXCEPT ![r] = Valid]
      BY <2>1, OneMoves, Members
    <2>3. Answered' = Answered
      BY <2>1, OneMoves, Members
    <2>4. Register!Begin(r)
      BY <2>1, <2>2, <2>3, SameRows DEF Register!Begin
    <2> QED BY <2>4 DEF Register!Next
  <1>3. ASSUME NEW r \in Reqs, Reuse(r) PROVE Register!Next
    <2>1. PICK i \in Ids : Live(i) /\ cred' = [cred EXCEPT ![r] = i]
      BY <1>3 DEF Reuse
    <2>2. /\ rows' = rows /\ pc[r] \notin InTx /\ pc'[r] = "answer" /\ pc'[r] \notin InTx
          /\ cred'[r] = i
          /\ \A q \in Reqs \ {r} : pc'[q] = pc[q] /\ cred'[q] = cred[q] /\ seen'[q] = seen[q]
      BY <1>0, <1>3, <2>1 DEF Reuse, InTx
    <2>3. Busy' = Busy /\ Found' = Found /\ r \notin Busy
      BY <2>2, OutsideTx
    <2>4. Answered' = [Answered EXCEPT ![r] = i]
      BY <2>2, OneMoves
    <2>5. i \in Valid
      BY <2>1 DEF Live, Valid, Stored
    <2>6. Register!Reuse(r, i)
      BY <2>2, <2>3, <2>4, <2>5, SameRows DEF Register!Reuse, Register!Set
    <2> QED BY <2>1, <2>6 DEF Register!Next
  <1>4. ASSUME NEW r \in Reqs, Commit(r) \/ CommitError(r) PROVE Register!Next
    <2>1. /\ pc[r] = "commit" /\ pc[r] \in InTx /\ pc'[r] \in {"answer", "undo"} /\ cred' = cred
          /\ \A q \in Reqs \ {r} : pc'[q] = pc[q] /\ cred'[q] = cred[q] /\ seen'[q] = seen[q]
          /\ Publish(r) \/ (rows' = rows /\ pc'[r] = "undo")
      BY <1>0, <1>4 DEF Commit, CommitError, InTx
    <2>2. CASE Publish(r)
      BY <2>1, <2>2, Replaced DEF Register!Next
    <2>3. CASE rows' = rows /\ pc'[r] = "undo"
      BY <2>1, <2>3, GivenUp DEF Register!Next
    <2> QED BY <2>1, <2>2, <2>3
  <1>5. ASSUME NEW r \in Reqs, InsertError(r) \/ Rollback(r) \/ Abort(r) \/ Answer(r)
        PROVE  [Register!Next]_(Register!vars)
    <2>1. /\ rows' = rows /\ pc'[r] \in {"idle", "check"}
          /\ pc[r] \in InTx => pc'[r] = "idle"
          /\ \A q \in Reqs \ {r} : pc'[q] = pc[q] /\ cred'[q] = cred[q] /\ seen'[q] = seen[q]
      BY <1>0, <1>5 DEF InsertError, Rollback, Abort, Answer, InTx
    <2>2. CASE pc[r] \in InTx
      BY <2>1, <2>2, GivenUp DEF Register!Next
    <2>3. CASE pc[r] = "answer"
      <3>1. pc[r] \notin InTx /\ pc'[r] \notin InTx /\ pc'[r] # "answer"
        BY <2>1, <2>3 DEF InTx
      <3>2. Busy' = Busy /\ Found' = Found
        BY <2>1, <3>1, OutsideTx
      <3>3. Answered' = [Answered EXCEPT ![r] = 0]
        BY <2>1, <3>1, OneMoves
      <3>4. Register!Done(r)
        BY <2>1, <3>2, <3>3, SameRows DEF Register!Done, Register!Set
      <3> QED BY <3>4 DEF Register!Next
    <2>4. CASE pc[r] \notin InTx /\ pc[r] # "answer"
      <3>1. pc'[r] \notin InTx /\ pc'[r] # "answer"
        BY <2>1 DEF InTx
      <3> QED BY <2>1, <2>4, <3>1, Unseen
    <2> QED BY <2>2, <2>3, <2>4
  <1>6. ASSUME UNCHANGED <<rows, pc, cred, seen>> PROVE UNCHANGED Register!vars
    BY <1>6, SameRows DEF Register!vars, Busy, Found, Answered
  <1>7. ASSUME (\E i \in Ids : Lapse(i) \/ Expire(i)) \/ UNCHANGED vars
        PROVE  UNCHANGED <<rows, pc, cred, seen>>
    BY <1>7 DEF Lapse, Expire, vars, tx
  <1> QED BY <1>1, <1>2, <1>3, <1>4, <1>5, <1>6, <1>7 DEF Next, Issue

\* The ten steps of a replacement, in three systems, are one step or none to
\* everyone else: the service implements the register.
THEOREM ServiceIsRegister == Spec => ImplementsRegister
  <1>1. Init => Register!Init
    BY DEF Init, Register!Init, Valid, Ever, Busy, Found, Answered, Stored, Absent, InTx
  <1>2. Inv /\ [Next]_vars => [Register!Next]_(Register!vars)
    BY RegisterStep
  <1> QED BY <1>1, <1>2, Invariance, PTL DEF Spec, ImplementsRegister, Register!Spec
=============================================================================
