# TLA+ specifications of kms-platform

These modules model the parts of kms-platform where several tasks, processes or
systems meet: the vHSM daemon and its clients, the audit log's hash chain, the
life of the service's keys, the issue of dynamic credentials, the provisioning of
Root CAs and bootstrap records, the intermediate CAs of SPIRE, and the gate every
request passes. TLC checks the models on
small instances; TLAPS proves their safety properties for every value of the
constants. `PROJECT.json` maps each definition to the lines it stands for and
lists runs, mutants, findings, hazards and theorems.

    tlc -workers 2 -config MCVhsm.cfg MCVhsm      # a run
    tlapm VhsmProofs.tla                          # the proofs of a module

## 1. The system

| Component | State | Operations | Meets |
|---|---|---|---|
| vHSM daemon (`vhsm-daemon`) | `VhsmState` behind an `RwLock`: `initialized`, `active_key_version`, `master_key`, `ca_keys`; a semaphore of 100 permits | 15 kinds of request over a Unix socket, one task per connection, one request per connection | kms-service and the ceremony CLI, as clients |
| Audit chain (`kms-db`, `domain/audit`) | `audit_logs`; an advisory lock | five writers; the verifier | every audited operation |
| Key lifecycle (`use_cases/*key*`, `sign_data`, `bootstrap`, `workers`) | table `keys`; `KeyCache` in RAM | generate, rotate, read, sign, bootstrap, expire, clean up, rewrap | vHSM (seals and opens keys), audit |
| Credential issuance (`issue_agent_credential`, `handlers/agent`) | `provisioned_credentials`; accounts at the target | issue one or a batch; the reconciliation worker, which only logs | providers, vHSM, audit chain |
| Target providers (`infrastructure/providers`) | accounts in PostgreSQL or Redis | `create_user`, `revoke_user` | credential issuance |
| Secret sharing, AES (`kms-core/crypto`) | none | split, combine, seal, open | vHSM |
| vHSM client (`kms-core/hsm`, `infrastructure/crypto`) | none (a connection per call) | framing, timeouts, `encrypt_data`, `decrypt_data`, `generate_data_key`; the wait for unseal at start | vHSM, audit |
| Root CA (`init_root_ca`, `handlers/ca`, `sign_intermediate_ca`) | table `root_cas`; an advisory lock per tag; the keys loaded in the vHSM | init, load, sign | vHSM, audit chain, the pool of connections |
| Bootstrap import (`import_bootstrap`) | `db_credentials`, `target_resources` | import a file in one transaction | vHSM, audit chain, the pool |
| Request authentication (`middleware/security`) | nonces in RAM or in Redis | HMAC, clock skew, replay check | all handlers |
| Rate limiting (`domain/rate_limiter`, `redis`) | windows in RAM, counters in Redis | admit or refuse | all handlers |
| SPIRE upstream authority (`spire-kms-upstream-authority`) | the attempts of an RPC | mint an intermediate, with retries | kms-service over a Unix socket, which asks the vHSM |
| Migrations (`kms-migrate`) | the schema; an advisory lock | migrate | PostgreSQL |
| Ceremony CLI, configuration and ACL, HTTP server | none that changes | terminal I/O, policy lookup, routing | |

What is hard about it:

- **Locks let go in the middle.** Three handlers of the vHSM look at the state
  under one lock and act under another (`GenerateCeremony`, `InitRootCa`,
  `LoadRootCa`).
- **Awaits between a read and the write that depends on it.** Every use case of
  the key lifecycle reads a row, awaits the vHSM, then writes by version or id;
  the workers write by id what they listed earlier; the cache is filled after
  an await.
- **Two systems, no common transaction.** A credential is a row in the KMS and
  an account at the target; either side may fail, and the answer to a COMMIT may
  be lost.
- **Lock waits.** The audit chain's advisory lock is taken inside transactions
  that hold row locks; tasks of the vHSM hold permits while they wait for a
  client.
- **Nobody learns that the other side gave up.** A client of the vHSM and the SPIRE
  plugin time out and go on, or try again, while what they asked for is still
  carried out behind them.
- **Waiting for a resource while holding one.** `init_root_ca` needs a second
  connection of the pool for its first transaction to go on; two imports insert the
  same rows in different orders.
- **Boundaries of time.** A window or a nonce of exactly its age; seconds cut off or
  rounded up to days.
- **Anything stops anywhere.** A handler is dropped with its connection, a
  process restarts, a statement fails.

What makes each part correct is stated with its module below.

## 2. The modules

### Vhsm

One connection is one task. The task's stage `pc[c]` goes `idle` (no permit)
-> `header` -> `payload` -> `request` -> `reply` -> `idle`, and through
`ceremony`/`install`, `rootCa` or `loadCa` for the three handlers that let the
lock go. No critical section awaits, so one step is what a handler does between
two acquisitions of the lock. `Dispatch(c)` has one action per request (or one
for requests that do the same to the state); `Resume(c)` has the second halves.
`LoseReply` is a reply nobody receives, `Restart` the end of the process.

Master keys and secrets are numbers drawn fresh; a blob opens under exactly the key that
sealed it. `InitMasterKey` takes any `Shares` a client sends, made-up ones included, and
installs what they `Reconstruct`: enough shares of one key give that key, too few, mixed
or made-up ones give any key. Errors are `ok = FALSE`; their codes are left out.

- `SealCoherent`: the three fields that say "unsealed" always agree.
- `InFlight`: what a handler took out of one lock section is good in the next; the
  `unwrap()` of `InitRootCa` does not panic.
- `OnlyInstalledKeys`, `CaKeyProvenance`: what leaves the daemon belongs to a key
  it has held; a CA key comes from a blob it sealed.
- `ImplementsVault`: lock section by lock section, the daemon implements the abstract
  module **Vault** (`Unseal`, `HandOut`, `Load`, `Restart`): it opens at a stroke and
  stays open, loads one CA key at a time into an open vault out of a blob it has handed
  out, and hands out only what belongs to keys it has held. A key that replaces another
  leaves the CA keys, as the code does.
- `PermitsConserved`, `EveryTaskEnds`: the listener.
- `UnsealedUntilRestart` (no request seals the vHSM or takes a CA key away) is proved
  only.

### AuditChain

Five kinds of writer. `record` (`AuditRepository::record`) reads the latest hash
and inserts in two statements; the four others lock, read and insert in a
transaction. `record`, `bootstrap` and `issue` take their timestamp long before
they insert. The hash of a row is the name of its writer; `exact` says whether
the nanoseconds that were hashed survive in a `TIMESTAMPTZ`, `sameId` whether the
id that was hashed is the id that is stored. `VerifyOk(log, limit)` is the walk of
`verify_audit_handler`.

- `NoDanglingPrev`: no failure leaves a link to nothing.
- `OrderlyChain`: the writers that lock, read, then take the time leave one chain
  in the verifier's order.
- `VerifierDecides`: the verifier's walk finds no violation exactly when every row
  recomputes and the rows are one chain in the order of their timestamps, begun at
  the zeros.
- `WindowAgrees`: a bounded verification agrees with a full one.
- `EveryWriteEnds`: nobody waits for the lock for ever.
- `NoFork` (finding).

### KeyLifecycle

One (service, algorithm) pair, by version: the row's private (`mat`) and public
(`pub`) half and its status; the cache entry; requests (`Rotate`, `Generate`,
`Get`, `Sign`), each split at its awaits, the one between the look in the cache and
the query included (`getRead`, `signRead`); `Boot`, `Expire`, `Cleanup` and
`Rewrap`; `Restart`. `End` is the failure or the dropping of a request at any
await. Pairs meet only in `remove_all_for_service` (`SiblingEvict`). `home`
remembers the version a key pair was stored under.

- `OneActive`, `RotationKeepsActive`: one active version, and rotation leaves no
  gap: only a generation's revocation, or a late write of the expiration worker to a
  version that is active again, takes the last active key.
- `VersionsGenuine`: a key pair is kept under the version it was stored under, in the
  table, the cache, a request or a rewrap batch, however late it is used. The label of
  a signature (`Labels`) is the version of its key when the request asked for a version
  and read the key from the table; of a key found in the cache, or a request that asked
  for none, nothing is claimed, and the label may be wrong (section 5).
- `ImplementsKeyStore`: the public keys of the table implement the abstract module
  **KeyStore** (the active key, `Activate` with a new one, `Deactivate`), rewrap beside
  the service included: a retired, expired, compromised or overwritten key is never
  active again, though its version may be. That the private half belongs to the public
  one is not claimed: a rewrap beside the service parts them (section 5).
- `OverdueExpires`, `CacheCleaned`: the workers do their work.

### CredentialIssue

One caller and one target. A request goes `check` (reuse a live row, or not) ->
`begin` -> `revoke` -> `insert` -> `create` -> `activate` -> `audit` -> `commit`
-> `answer`, with `rollback` and `undo` for the two failures the code handles
and `Abort` for every other one. What a transaction has written (`cred`,
`status`, `touched`) is seen by others from `Publish` on; `touched` is also its
row locks. At READ COMMITTED the UPDATE sees a snapshot (`seen`), waits, and
looks at each row again: `Snapshot` and `Revoke`. `CreateUser` may fail with
the account there; `CommitError` may be a COMMIT that took effect (`unsure`).

- `LiveHasAccount`: a row that will be answered with works at the target.
- `AnswerOnRecord`, `OnlyActiveStored`: what is answered is committed, nothing
  half done ever is.
- `CommitSupersedes`, `RevokedByReplacement`: replacement is complete and atomic.
- `ImplementsRegister`: the service implements the abstract module
  **CredentialRegister** (`Begin`, `Replace`, `GiveUp`, `Reuse`, `Done`): a credential
  becomes valid in one step with the end of those that were valid when its request set
  out to revoke, and a client is answered with a valid one.
- `EveryIssueEnds`: the waits for rows and for the chain's lock end.
- `AccountsOnRecord` (finding).

### Provisioning

`ca init`, the bootstrap import and `ca load`. A request is a tag or a file, a
sequence of records with an id (or none: a fresh one is drawn) and a name; it goes
`begin` -> (`lock`) -> `exists` -> (`kek`) -> `insert` -> `audit` -> `commit`, an
import once round per record. `pend` is what its transaction has written, `rows`
what is committed. `WaitsFor` is what PostgreSQL makes a transaction wait for: the
tag's lock, a row with the same key or name that another has inserted, the chain's
lock. `FreeConn` is the pool, which `Begin`, and `FetchKek` once more, need a
connection of. `Fail` is any failure, `Commit` may lose its answer, `PoolTimeout`
and `DeadlockAbort` are sqlx's and the server's way out. `Provisioned` are the ids in
`provisioned_credentials`: the import asks that table whether a credential is there
(`Elsewhere`) and skips its record. An init is refused with the same 409 for a tag that
is taken and for a missing KEK (`RefuseInit`, `NoKek`). `loading` and `hsm` are
the load of a key: from the table, or from a blob somebody kept.

- `CommittedWhole`: a request takes effect whole and on record, or not at all; what is
  answered ok has each of its rows in the database or was provisioned before, and an
  init hears that its tag is taken only beside another's Root CA on record.
- `NoDuplicates`: repeated or concurrent requests leave one row per tag, id, name.
- `LoadedOnRecord`: a key loaded from the table is the one on record for its tag.
- `ImplementsCatalogue`: the database implements the abstract module **Catalogue**
  (`Ask`, `Happen`, `Refuse`, `Fail`). `Happen` is the COMMIT: all the rows the request
  asks for that are neither there nor provisioned before, and its record, as if it ran
  alone.
- `EveryRequestEnds`: not even inits that hold the whole pool, or imports in opposite
  order, hang.
- `InitRepeatable` (finding).

### UpstreamCa

Three processes and the attempts `<<mint, number>>` of an RPC. The plugin connects,
waits, gives up (`AttemptError`), pauses, tries again; the task of an attempt in
kms-service authorises, asks the vHSM, records, answers, whether or not the plugin
still reads (`Awaited`); the vHSM signs what was `sent`, whether or not the task
still waits. `ServiceStart`, `AcceptError`, `VhsmRestart` are the failures of the
processes; `ServiceStart` may leave no listener, a new one, or a dead file.

- `MintedOnRecord`: a mint that succeeds has a chain and roots, and every certificate
  in them is the last attempt's, signed and on record, and valid for the time wished
  for or less than a day more.
- `RecordsTrue`: a success on record was signed, what was denied was not.
- `EveryMintEnds`: the RPC comes back, whatever the two others do.

### RequestGate

The rate limiter, then the HMAC middleware, in ticks of a fraction of a second. The
state is the limiter's (`bucket`, or `counter` in Redis) and the nonce store (`used`, in
the process or in Redis); `admits` and `last` are histories. A table of the process is
used with an `Instant` that was taken before its mutex (`ReadClock`, kept in `at`, then
`LimitMemory` or `MarkUsedMemory`), so a thread that had to wait inserts an old one; an
entry of `admits` has both, `at` and the moment it passed, `in`. `Skew` cuts off
fractions as `num_seconds` does. `RedisError` is an EVALSHA or EVAL that failed with the
script run or not. `Restart` empties what the process keeps; Redis keeps its counter and
its nonces, and the admissions under that counter are counted on.

- `WindowLimit`: whenever a request passes, fewer than `Limit` of those before it had
  taken their `Instant` within the window that ends then; in Redis, no life of the
  counter has more than `Limit` pass, whatever is retried or restarted.
- `NonceSpent`: a pair of nonce and timestamp that was accepted is not accepted again
  within the nonce's lifetime: while the process lives, or at all when Redis has it.
- `NonceUnique` (finding).

### HsmClient

A call is an exchange over a connection of its own: `part` is where the client is,
`conn` the daemon's end. The client gives up at any part (`CallError`); the daemon
serves a frame once, with or without a client (`Serve`), and may refuse what it asks
for, or drops it. A use case is
one call, or two (the ciphertext, then the version it is labelled with), and an audit
record. `boot` is `wait_for_vhsm_unsealed`.

- `ImplementsCall`: the exchange implements the abstract module **HsmCall** (`Make`,
  `Run`, `Succeed`, `Fail`): a result means carried out exactly once, an error at
  most once, perhaps after the return.
- `AnsweredOnRecord`: what is answered was done and is on record; the label is the
  version the text was sealed under, or 0 if the vHSM was restarted in between.
- `EveryCallEnds`, `StartsWhenUnsealed`.

## 3. The runs

| Run | Instance | States | Shows |
|---|---|---|---|
| `vhsm` | 3 connections on 2 permits, 2 tags, 2 keys, 1 secret, 3 of 3 shares | 117,000 | everything about the daemon: state, permits, every task ends; Vault |
| `audit` | 3 writers of any kind | 717,000 | links, order, what the verifier's answer means, lock waits |
| `audit_fork` | 3 writers | violated | two records follow the same row |
| `keys` | 2 requests, 2 versions, 3 key pairs, rewrap beside them | 627,000 | the table, the cache and the workers; KeyStore |
| `credentials` | 2 requests of 1-2 items, 2 credentials | 59,800 | the issue, with every failure; CredentialRegister |
| `credentials_orphan` | 1 request | violated | an account without a record |
| `provisioning` | 3 requests, 1 tag, 3 files, 1 credential provisioned before, 2 connections | 165,000 | all or nothing, no duplicates, no hanging; Catalogue |
| `provisioning_again` | the same | violated | a second init of a tag is refused |
| `upstream` | 1 mint of 3 attempts, days of 4 seconds | 150,000 | the mint and its audit trail |
| `gate` | 2 requests in flight, half-second ticks, window, lifetime and skew of 1 s | 5,220,000 | the limiters and the nonces |
| `gate_nonce` | the same with 2 timestamps | violated | a nonce is accepted again under another timestamp |
| `hsm_client` | 1 use case, 3 starts of the vHSM | 4,770 | calls, use cases, the start; HsmCall |

The bounds. Two clients are enough for a race between two lock sections or two awaits;
the third connection of `vhsm` is the one that finds no permit, the third writer of
`audit` the one that reads between two others. Two master keys let a second one replace
the first, two tags let a CA key sit beside the wrong one; one secret suffices because
secrets are copied and never compared. Two versions and three key pairs let a rotation
and a bootstrap both overwrite a version in the same behaviour; a batch of one row makes
a rewrap of two keys take two batches. Two credentials are an old one and its
replacement; three (1.0 million states, without liveness) show nothing new. In
`provisioning` two requests exhaust the pool while a third waits; two of the files hold
the same resources in opposite order, the third a resource without an id under a name of
theirs and a credential that was provisioned before. The mint of `upstream` has three
attempts, a first, one between and a last; the code has five (`ATTEMPTS`). The wishes
are none, a day less a second, a day, a day and a second. `gate` has `Limit` + 2
admissions and a clock that runs past two windows; two ticks a second are the least at
which cutting off fractions shows. Two use cases in `hsm_client` (400,000 states) show
nothing new, as they share only the daemon. At a bound (`MaxKeys`, `MaxSecrets`,
`MaxMats`, `MaxVersion`, `MaxIds`, `MaxNow`, `MaxAdmits`, `MaxCount`, `MaxStarts`) the
operation that would exceed it does not happen, or fails as it might anyway. Deadlock is
checked except in the chain's runs, where writers are used up.

Fairness, and why the code has it:

- `Vhsm`: weak fairness of what the daemon does by itself: `IO_TIMEOUT` expires,
  the lock is fair and never held across an await, a write ends or times out.
  Nothing is asked of clients.
- `AuditChain`: weak fairness of each writer's steps, taking the advisory lock among
  them. PostgreSQL queues those who wait; as each writer writes once, the lock is free
  for good in the end and weak fairness is enough.
- `KeyLifecycle`: the workers' loops come round (weak fairness of `ExpireRead`,
  `CleanupCheck` and `CleanupEvict`); a worker's statement that is tried
  again and again does not fail for ever (strong fairness of `ExpireOne`). Nothing
  is asked of requests.
- `CredentialIssue`: a request that was begun goes on (providers and vHSM answer or
  fail), and waits for locks are served in order (strong fairness of
  `Revoke \/ Audit`).
- `Provisioning`: weak fairness of a request's steps, of the pool's `acquire` timeout
  (sqlx's default, as `connect` sets none) and of PostgreSQL's deadlock detection.
  With every request bounded in number, weak fairness is enough for the locks.
- `UpstreamCa`: weak fairness of the plugin's own timers (`KMS_TIMEOUT` and the pause
  of the backoff). Nothing is asked of kms-service or the vHSM.
- `HsmClient`: weak fairness of the client's timeouts and of the loop at the start.
  Nothing is asked of the vHSM; `StartsWhenUnsealed` has its coming back as premise.
- `RequestGate` has no liveness property and no fairness.

Each violated run states what a comment, a document, a test or a migration of the
repository says, quoted in `PROJECT.json` under `findings`.

## 4. The proofs

Each `*Proofs` module proves the invariants of its component together, because
none of them is inductive alone, and derives the action properties from the same
invariant. The bounds are parameters, and the results hold for all of them.

- **VhsmProofs**: `Safe` joins `TypeOK` and the four invariants of the daemon's state.
  `InFlight` rests on nothing taking the master key away, `TypeOK` on `InFlight` (what
  is installed or inserted), the provenance of CA keys on that of the secrets in flight.
  `TaskInv` counts permits over a finite set of connections. For the Vault, `TagInv`
  says that a handler about to insert a CA key carries one tag; what makes `Load` a step
  of an open vault is again that nothing seals the daemon. Assumed: `Conns` is finite,
  `MaxPermits > 0`, `2 <= Threshold <= TotalShares`, bounds are naturals.
- **AuditChainProofs**: `ChainInv` adds `Past` (there is a newest row, and what is
  committed is done) and `Found` (an orderly writer about to insert has found the
  newest row and carries a newer timestamp), which hold because it holds the lock.
  What the verifier says is proved about the sequence `list_recent` returns, without
  induction over it. `Stamped` (no two rows have one timestamp or one hash) makes the
  order of the rows strict; `Listed` says that there is a listing, and that every moment
  splits it in an older and a younger part (`Splits`). A new row goes in at the split of
  its timestamp, which is how `Listed` is inductive. The walk's neighbours are then the
  next older row of each row (`VerifierIsExact`), and a window is a suffix of the walk
  with its anchor (`BoundedVerification`). `VerifiedHasNoFork` and `OrderlyLogVerifies`
  follow: a log that verifies has no fork, and over the orderly writers the verifier
  raises no false alarm. Assumed: the two genesis values are no writer's hash
  (`WritersAssumption`).
- **KeyLifecycleProofs**: `Inv = StoreInv /\ CacheInv /\ ReqInv /\ WorkInv /\ RewrapInv`.
  The strengthening is that whoever holds a key pair (cache, request, bootstrap,
  batch) holds one drawn earlier than the next, so that storing the next says nothing
  about it. What rewrap writes back is of the version it read, so `Held` is kept beside the
  service too. `RotationsKeepAnActiveKey` goes through the steps that write the table: of
  those that may retire a version, a rotation's makes another active in the same
  statement. Assumed: `Preload` is Boolean, `BatchSize`
  and `MaxVersion` are positive, `MaxMats` natural.
- **CredentialIssueProofs**: `Inv = TypeOK /\ RowInv /\ CredInv /\ SeenInv /\ Apart`.
  `CredInv` says what a request's credential is at each stage (not on record before the
  COMMIT, with an account once the provider has said so), `SeenInv` that all it saw is
  revoked or is its own to revoke and that it revokes nothing else (with both, what a
  COMMIT ends is exactly what the register's `Replace` ends), `Apart` that no two
  requests own one credential. Assumed: `MaxItems > 0`, `MaxIds` natural.
- **ProvisioningProofs**: `Inv` joins `TypeOK`, `ReqGood` per request (what it has
  written, found or skipped up to the record it is at, that it inserts no record it was
  to skip, and which locks its stage implies), `Disjoint` (what transactions have
  written clashes neither with each other nor with what is committed), `KeysGood` (what
  is loaded was fetched from a committed row) and that rows are on record. `Disjoint` is
  what makes `NoDuplicates` inductive: a COMMIT adds rows nobody checks again. For the
  Catalogue, `Asked` adds that a transaction holds rows of its own request only, and
  none provisioned before (`Due`); a COMMIT is then `Happen` with these rows, which
  are the missing ones because `Disjoint` keeps them apart from what others committed
  while it ran. Neither the advisory lock nor the looks before the inserts are needed:
  the unique indexes alone make the requests serializable. Assumed: files are non-empty
  sequences of records, `Provisioned` are ids, `Pool > 0`.
- **UpstreamCaProofs**: `Inv` says per attempt what its task's stage implies (about to
  record: signed; about to answer: recorded; denied: never sent), and per mint that the
  attempts after the current one have not begun and that its answer is the current
  attempt's. Rounding is a lemma on integer division. Assumed: `Attempts > 0`,
  `DaySecs > 0`, wishes are integers.
- **RequestGateProofs**: for the limiter in the process, no `Instant` is in the future
  (`InstantsGood`), each admission whose `Instant` is within the window is still in the
  bucket (`Complete`), and each came when fewer than `Limit` of those before it were
  within the window that ended then (`Spaced`, a bound on `Cardinality(Before)`). The
  `Instant` of a thread that waited at the mutex is old, so what it drops from the bucket
  has left the window all the more: `Complete` is kept, and the next admission is spaced
  because it counts a complete bucket. For Redis, what was admitted in the counter's
  life is at most its count, and `Limit` (`RedisGood`). `NoncesGood`: a pair accepted
  within its lifetime is still in the store. Assumed: lengths of time and the limit are
  positive.
- **HsmClientProofs**: `CallGood` ties the client's part, the daemon's end and the number
  of runs of a call (a frame not yet served was not run; a reply of success was run
  once), `UserGood` a use case's stage to its calls, label and record. The refinement
  follows: `Serve` is `Run` or a stutter, `ReadBody` is `Succeed` or `Fail`.

Five refinements are proved, each from the component's invariant, step by step: every
step of the detailed module is one step of the abstract one or none.

| Theorem | Detailed | Abstract | The step that counts |
|---|---|---|---|
| `TableIsKeyStore` | KeyLifecycle | KeyStore | a write that makes a pair active |
| `ClientImplementsCall` | HsmClient | HsmCall | `Serve` is `Run`, `ReadBody` is `Succeed` or `Fail` |
| `DaemonIsVault` | Vhsm | Vault | the second lock section of a handler |
| `ServiceIsRegister` | CredentialIssue | CredentialRegister | `Commit` is `Replace`, told or not; the snapshot of the UPDATE is `Begin` |
| `DatabaseIsCatalogue` | Provisioning | Catalogue | `Commit` is `Happen`, told or not |

Every invariant and every action property that a passing run checks is proved. Only
model-checked is what needs fairness (`EveryTaskEnds`, `EveryWriteEnds`,
`OverdueExpires`, `CacheCleaned`, `EveryIssueEnds`, `EveryRequestEnds`, `EveryMintEnds`,
`EveryCallEnds`, `StartsWhenUnsealed`), which is out of the prover's reach. `TypeOK` is
proved of every module and is no property of a run.

## 5. What the models assume and leave out

- Cryptography is ideal: AES-GCM, SHA-256, Shamir's scheme, fresh random values.
- PostgreSQL keeps its promises: READ COMMITTED, row and advisory locks, unique
  indexes, the immutability trigger. It leaves open whether the CTE or the INSERT
  of `rotate_active_key` runs first; a refusal by the unique index is one of the
  outcomes (`End` at `rotate`). A deadlock between two multi-row UPDATEs, which the
  server breaks by failing one, is an `Abort`.
- The clocks of the KMS, its database and a target agree, as far as expiry goes; a
  target whose clock runs ahead, where an account ends before its row, is left out.
- One instance of kms-service. A second one that rotates never empties this one's
  cache; the same state is reached by a rotation that ends before it evicts.
- ACL checks and validations that refuse a request without changing anything are not
  steps.
- The vHSM's unseal timer is left out: nothing starts it. `active_key_version` is
  always 1, and installing a key over another leaves the CA keys loaded, as modelled.
  A `Lock` request is described in `LOCK_FEATURE.md`; the daemon has none.
- `Provisioning` and `CredentialIssue` each take the chain's lock as their own; that the
  writers of `AuditChain` do not hold each other up for ever is checked there.
- `HsmClient` has the daemon as far as a client sees it; `Vhsm` has it in full.

Seen while modelling, without a run of their own:

- `listener.rs:79`: `timeout(..).await.is_err()` misses a failed read; the task goes
  on with zero bytes and answers instead of dropping the connection.
- `GenerateCeremony` looks at `initialized` under one lock and installs under another
  (`handler.rs:438`): two ceremonies at once both succeed, and the shares of the first
  open nothing that is sealed afterwards.
- A ceremony whose reply is lost leaves a vHSM unsealed under a key without shares.
- A blob is not bound to the tag it was made for: it may be loaded under another.
- Three writers start an empty log from the empty string, the verifier from zeros
  (`ceremonies.rs:63`, `import_bootstrap.rs:338`, `issue_agent_credential.rs:632`).
- The hash of a row covers nanoseconds that `TIMESTAMPTZ` does not keep
  (`postgres/audit.rs:49`), and `insert_audit_log_tx` hashes another id than it stores
  (`issue_agent_credential.rs:634`, `:653`): the verifier reports untouched rows.
- `rotate_active_key` retires whatever is active and upserts (`repositories.rs:637`): a
  rotation that lost a race overwrites the winner's key and reports success.
- `get_keys_needing_rewrap` has no condition (`repositories.rs:719`): the loop of
  `rewrap_keys` does not end once there is a key.
- After a rotation for a compromise, a read that began earlier or a signature that
  names the version puts the compromised key back in the cache (`sign_data.rs:162`).
- The expiration worker writes by id: a version overwritten since it was listed is
  expired while active (`expiration.rs:49`).
- `get_active_or_valid_deprecated_key` selects active rows only
  (`repositories.rs:692`): a deprecated key in its grace period is not published.
- A signature is labelled with the version asked for, or active afterwards, not with
  the version of the key that made it (`sign_data.rs:195`).
- A rewrap beside the service puts an old private key under a new public key
  (`repositories.rs:735`).
- Two issues at once may leave two live credentials for one caller and target; a lost
  answer to a COMMIT leaves a live row without an account
  (`issue_agent_credential.rs:215`, `:449`).
- A batch stops at its first failing item; what the earlier items have created stays and
  is reused by the next request (`handlers/agent.rs:188`).
- By the time a second `ca init` for a tag is refused (finding of `provisioning_again`)
  the vHSM has made a key pair and the CLI has printed its blob; `ca load` takes that blob.
- `credential_exists_by_id` asks `provisioned_credentials`, the import writes
  `db_credentials` (`import_bootstrap.rs:201`): a record whose id was provisioned is
  skipped and answered ok without its row in `db_credentials`; one whose row is there is
  not skipped, and the primary key prevents the second row.
- The retries of the plugin may leave several signatures, and several records of
  success, for one mint; what the vHSM signs after the service's timeout is on no record,
  and the arm of `sign_intermediate_ca.rs` that records a failure is not reached.
- The answer of MintX509CA is a chain of the intermediate alone, given as the upstream
  root as well, as `root_certificate_pem` is `None` (`main.rs:229`), and valid for the
  time wished for in days, rounded up, or 30. `SPIRE_INTEGRATION_PLAN.md:270` lists
  `[intermediate_cert, root_cert]` and `:264` 3650 days. `MintedOnRecord` takes no side:
  it holds each certificate of the chain and of the roots to the record. A chain that is
  empty or does not parse, which the plugin refuses, no vHSM answers.
- After an error of `accept()` the socket is served no more, and its file stays
  (`main.rs:271`).
- The skew is cut off to whole seconds and counts in both directions, while the nonce
  lives as long as the skew (`security.rs:114`, `:202`): a timestamp may be good for
  longer than its nonce is kept.
- A ciphertext may be labelled with version 0 when the vHSM was restarted between
  `encrypt` and `Status` (`kms_service.rs:125`).

Not modelled, and why:

- `kms-migrate`: a program that waits for the database, takes an advisory lock, hands the
  files to sqlx and ends.
- Configuration, ACL and IAM policy: read at start and never changed; a model has what
  they decide as a choice (`allowed` in `UpstreamCa`, `Denied` in `HsmClient`).
- `infrastructure/identity.rs`, certificates, SPIFFE ids, the go-plugin handshake: parsing
  and protocol plumbing without state.
- HTTP server, routing, logging, errors: transport and formatting. POST sign-intermediate
  passes one call to the vHSM. The governor layers are a library's.
- `compare_and_set_active_to_deprecated`, `update_encrypted_key` and `get_all_keys` have no
  caller; `grpc/upstream_authority.rs` is not compiled; `minio.rs` and `rabbitmq.rs` are
  empty.

## 6. Plan

Done, in this order: `Vhsm`, `AuditChain`, `KeyLifecycle`, `CredentialIssue`,
`Provisioning`, `UpstreamCa`, `RequestGate`, `HsmClient`, each with its MC module, runs
and proofs; the abstract specifications `KeyStore`, `HsmCall`, `Vault`,
`CredentialRegister` and `Catalogue` and the refinements. What would come next:

1. Proofs: action properties of `UpstreamCa` (what a late attempt may still change) and
   of `RequestGate` (an abstract limiter that both implementations refine).
2. Two instances of kms-service in `KeyLifecycle`, with a cache each.
3. `HsmClient` composed with `Vault` in place of its own short daemon.
4. The governor layers in front of `RequestGate`, and Redis losing its keys.
