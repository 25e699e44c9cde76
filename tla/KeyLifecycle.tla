--------------------------- MODULE KeyLifecycle ---------------------------
(***************************************************************************)
(* The keys of one (service, algorithm) pair in kms-service: the rows of    *)
(* the table `keys`, the KeyCache's entry, the use cases that generate,     *)
(* rotate, read and sign, bootstrap_keys, the expiration and the cache      *)
(* cleanup workers, and rewrap, another process or an admin request.        *)
(* Every statement awaits the database, every seal and open awaits the      *)
(* vHSM: a step is one statement, or what a task does between two awaits.   *)
(* A task may fail, or be dropped by its client, at each of them.           *)
(*                                                                         *)
(* Pairs meet only in remove_all_for_service, which is SiblingEvict here.   *)
(* Key material is a natural number, drawn fresh.  is_active goes with the  *)
(* status: every statement that writes one writes the other.                *)
(***************************************************************************)
EXTENDS Naturals, FiniteSets

CONSTANTS
    Reqs,          \* requests in flight
    Preload,       \* should_preload_for: keys read are kept in the cache
    BatchSize,     \* --batch-size of rewrap
    MaxVersion,    \* bound: versions of the key
    MaxMats        \* bound: key pairs that ever come to exist

ASSUME PreloadAssumption == Preload \in BOOLEAN
ASSUME BatchAssumption == BatchSize \in Nat \ {0}
ASSUME VersionAssumption == MaxVersion \in Nat \ {0}
ASSUME MatsAssumption == MaxMats \in Nat

VARIABLES
    rows,      \* the table, by version
    mats,      \* key pairs generated so far: 1 .. mats
    home,      \* history: the version each key pair was stored under
    cache,     \* the cached key, NoKey when there is none
    boot,      \* where bootstrap_keys is; the server listens from "up" on
    bootKey,   \* the key bootstrap_keys found or made and has yet to cache
    pc, op, want, got,  \* per request: stage, kind, key_version asked, key held
    expiring,  \* versions the expiration worker has still to write
    cleaner,   \* the cleanup worker found no active key and is to evict
    batch      \* what rewrap_keys has read: key material by version, 0 for not read

store == <<rows, mats, home>>
request == <<pc, op, want, got>>
booting == <<boot, bootKey>>
workers == <<expiring, cleaner>>
vars == <<store, cache, booting, request, workers, batch>>

Versions == 1 .. MaxVersion
Mats == 0 .. MaxMats
\* Overdue is Deprecated with created_at more than 30 minutes ago; Spent is
\* Revoked, Expired or Compromised, which no query tells apart.
Statuses == {"absent", "Active", "Deprecated", "Overdue", "Spent"}
Row == [mat : Mats, pub : Mats, status : Statuses]
Absent == [mat |-> 0, pub |-> 0, status |-> "absent"]
Key == [ver : 0 .. MaxVersion, mat : Mats]
NoKey == [ver |-> 0, mat |-> 0]
NoBatch == [v \in Versions |-> 0]
KeyAt(v) == [ver |-> v, mat |-> rows[v].mat]

\* get_active_key, get_all_active_keys, get_active_or_valid_deprecated_key:
\* all three select the rows with is_active.
IsActive(v) == rows[v].status = "Active"
HasActive == \E v \in Versions : IsActive(v)

-----------------------------------------------------------------------------
Init ==
    /\ rows = [v \in Versions |-> Absent]
    /\ mats = 0 /\ home = [m \in Mats |-> 0]
    /\ cache = NoKey /\ boot = "read" /\ bootKey = NoKey
    /\ pc = [r \in Reqs |-> "idle"] /\ op = [r \in Reqs |-> "none"]
    /\ want = [r \in Reqs |-> 0] /\ got = [r \in Reqs |-> NoKey]
    /\ expiring = {} /\ cleaner = FALSE
    /\ batch = NoBatch

\* INSERT ... ON CONFLICT (service_id, algorithm, version) DO UPDATE of a new
\* key pair m: a row of that version keeps its id and gets all the rest.
Upsert(table, v, m) ==
    /\ m \in Mats
    /\ mats' = m
    /\ home' = [home EXCEPT ![m] = v]
    /\ rows' = [table EXCEPT ![v] = [mat |-> m, pub |-> m, status |-> "Active"]]

\* UPDATE keys SET status, is_active = FALSE WHERE is_active.
Retire(status) ==
    [v \in Versions |-> IF IsActive(v) THEN [rows[v] EXCEPT !.status = status]
                        ELSE rows[v]]

\* uniq_active_key_per_service_algorithm: else the statement fails.
UniqueActive(v) == \A u \in Versions \ {v} : ~IsActive(u)

-----------------------------------------------------------------------------
(* Requests.  A refusal that changes nothing (ACL, no such key, a bad       *)
(* algorithm) is not a step.                                                *)

Start(r) == boot = "up" /\ pc[r] = "idle"
Goto(r, where) == pc' = [pc EXCEPT ![r] = where]
Hold(r, key) == got' = [got EXCEPT ![r] = key]
Kind(r, k) == op' = [op EXCEPT ![r] = k]

\* The response is made of what the request holds.
Reply(r) == Goto(r, "replied") /\ Kind(r, "none") /\ want' = [want EXCEPT ![r] = 0]

\* The request is answered with what it holds, or it fails, or its client has
\* gone: at any await, with what it did before it in place.
End(r) ==
    /\ pc[r] # "idle"
    /\ Goto(r, "idle") /\ Kind(r, "none") /\ Hold(r, NoKey)
    /\ want' = [want EXCEPT ![r] = 0]
    /\ UNCHANGED <<store, cache, booting, workers, batch>>

\* RotateKeyUseCase reads the active key; the new one gets the next version.
\* The reason of the rotation decides on the old key's status.
RotateRead(r) ==
    /\ Start(r)
    /\ \E v \in Versions, old \in {"Deprecated", "Spent"} :
         /\ IsActive(v) /\ v < MaxVersion
         /\ Kind(r, old) /\ Hold(r, [ver |-> v + 1, mat |-> 0])
    /\ Goto(r, "rotate")
    /\ UNCHANGED <<store, cache, booting, want, workers, batch>>

\* Mutant of RotateWrite: the old key is retired in a statement of its own.
RotateWriteSplit(r) ==
    /\ pc[r] = "rotate"
    /\ rows' = Retire(op[r])
    /\ Goto(r, "save")
    /\ UNCHANGED <<mats, home, cache, booting, op, want, got, workers, batch>>

\* rotate_active_key, one statement: retire what is active now, insert or
\* overwrite the new version.  The row count is 1 whatever was retired.
RotateWrite(r) ==
    /\ pc[r] = "rotate"
    /\ Upsert(Retire(op[r]), got[r].ver, mats + 1)
    /\ Hold(r, [got[r] EXCEPT !.mat = mats + 1])
    /\ Goto(r, "evict") /\ Kind(r, "none")
    /\ UNCHANGED <<cache, booting, want, workers, batch>>

\* remove or remove_all_for_service.
RotateEvict(r) ==
    /\ pc[r] = "evict"
    /\ cache' = NoKey
    /\ Reply(r)
    /\ UNCHANGED <<store, booting, got, workers, batch>>

\* GenerateKeyPairUseCase: the next version, or 1 when there is no active key,
\* whatever other versions there are.
GenerateRead(r) ==
    /\ Start(r) /\ Kind(r, "generate")
    /\ \/ /\ \E v \in Versions : /\ IsActive(v) /\ v < MaxVersion
                                 /\ Hold(r, [ver |-> v + 1, mat |-> 0])
          /\ Goto(r, "revoke")
       \/ /\ ~HasActive
          /\ Hold(r, [ver |-> 1, mat |-> 0])
          /\ Goto(r, "save")
    /\ UNCHANGED <<store, cache, booting, want, workers, batch>>

\* deactivate_keys_for_service.
GenerateRevoke(r) ==
    /\ pc[r] = "revoke"
    /\ rows' = Retire("Spent")
    /\ Goto(r, "save")
    /\ UNCHANGED <<mats, home, cache, booting, op, want, got, workers, batch>>

\* Mutant of GenerateSave: a row that is there is switched on again.
GenerateSaveRevives(r) ==
    /\ pc[r] = "save" /\ UniqueActive(got[r].ver)
    /\ \/ rows[got[r].ver].status = "absent" /\ Upsert(rows, got[r].ver, mats + 1)
       \/ /\ rows[got[r].ver].status # "absent"
          /\ rows' = [rows EXCEPT ![got[r].ver].status = "Active"]
          /\ UNCHANGED <<mats, home>>
    /\ Goto(r, "idle")
    /\ UNCHANGED <<cache, booting, op, want, got, workers, batch>>
\* Mutant of GenerateSave: the partial index is not there.
GenerateSaveNoIndex(r) ==
    /\ pc[r] = "save"
    /\ Upsert(rows, got[r].ver, mats + 1)
    /\ Goto(r, "idle")
    /\ UNCHANGED <<cache, booting, op, want, got, workers, batch>>

\* save_key.  The cache is left as it is.
GenerateSave(r) ==
    /\ pc[r] = "save" /\ UniqueActive(got[r].ver)
    /\ Upsert(rows, got[r].ver, mats + 1)
    /\ Hold(r, [got[r] EXCEPT !.mat = mats + 1])
    /\ Reply(r)
    /\ UNCHANGED <<cache, booting, workers, batch>>

\* GetPrivateKeyUseCase and GetSymmetricKeyUseCase, cache hit.
GetCached(r) ==
    /\ Start(r) /\ cache # NoKey
    /\ Hold(r, cache)
    /\ Reply(r)
    /\ UNCHANGED <<store, cache, booting, workers, batch>>

\* Cache miss: the active row is read, then opened by the vHSM.
GetMiss(r) ==
    /\ Start(r) /\ cache = NoKey
    /\ Kind(r, "get")
    /\ Goto(r, "getRead")
    /\ UNCHANGED <<store, cache, booting, want, got, workers, batch>>

GetRead(r) ==
    /\ pc[r] = "getRead"
    /\ \E v \in Versions : IsActive(v) /\ Hold(r, KeyAt(v))
    /\ Goto(r, "fill")
    /\ UNCHANGED <<store, cache, booting, op, want, workers, batch>>

Keep(key) == cache' = IF Preload THEN key ELSE cache

\* The opened key goes into the cache and to the caller.
GetFill(r) ==
    /\ pc[r] = "fill"
    /\ Keep(got[r])
    /\ Reply(r)
    /\ UNCHANGED <<store, booting, got, workers, batch>>

\* SignDataUseCase, cache hit: the version asked for is not looked at.
SignCached(r) ==
    /\ Start(r) /\ cache # NoKey
    /\ Kind(r, "sign") /\ Hold(r, cache)
    /\ \E v \in 0 .. MaxVersion : want' = [want EXCEPT ![r] = v]
    /\ Goto(r, "label")
    /\ UNCHANGED <<store, cache, booting, workers, batch>>

\* Cache miss: the version asked for, in any status, or the active key.
SignMiss(r) ==
    /\ Start(r) /\ cache = NoKey
    /\ \E v \in 0 .. MaxVersion :
         /\ want' = [want EXCEPT ![r] = v]
         /\ Kind(r, IF v = 0 THEN "sign" ELSE "signAsked")
    /\ Goto(r, "signRead")
    /\ UNCHANGED <<store, cache, booting, got, workers, batch>>

SignRead(r) ==
    /\ pc[r] = "signRead"
    /\ \E v \in Versions :
         /\ rows[v].status # "absent"
         /\ v = want[r] \/ (want[r] = 0 /\ IsActive(v))
         /\ Hold(r, KeyAt(v))
    /\ Goto(r, "signFill")
    /\ UNCHANGED <<store, cache, booting, op, want, workers, batch>>

\* Mutant of SignFill: the entry is labelled with the version asked for.
SignFillAsAsked(r) ==
    /\ pc[r] = "signFill"
    /\ Keep([got[r] EXCEPT !.ver = want[r]])
    /\ Goto(r, "label")
    /\ UNCHANGED <<store, booting, op, want, got, workers, batch>>

SignFill(r) ==
    /\ pc[r] = "signFill"
    /\ Keep(got[r])
    /\ Goto(r, "label")
    /\ UNCHANGED <<store, booting, op, want, got, workers, batch>>

\* output_version, the version the signature is answered under when the request
\* ends: the one asked for, else the one active by then, else 0.
Labels(r) ==
    IF want[r] # 0 THEN {want[r]}
    ELSE IF HasActive THEN {v \in Versions : IsActive(v)} ELSE {0}

\* A rotation after a compromise of another key of the same service.
SiblingEvict ==
    /\ boot = "up" /\ cache # NoKey
    /\ cache' = NoKey
    /\ UNCHANGED <<store, booting, request, workers, batch>>

-----------------------------------------------------------------------------
(* The process and its workers, which run from AppState::new on, before     *)
(* bootstrap_keys.                                                          *)

BootRead ==
    /\ boot = "read"
    /\ \/ /\ \E v \in Versions : IsActive(v) /\ bootKey' = KeyAt(v)
          /\ boot' = "preload"
       \/ /\ ~HasActive
          /\ boot' = "save"
          /\ UNCHANGED bootKey
    /\ UNCHANGED <<store, cache, request, workers, batch>>

\* No active key in the map: version 1 is saved.
BootSave ==
    /\ boot = "save" /\ UniqueActive(1)
    /\ Upsert(rows, 1, mats + 1)
    /\ bootKey' = [ver |-> 1, mat |-> mats + 1]
    /\ boot' = "preload"
    /\ UNCHANGED <<cache, request, workers, batch>>

BootPreload ==
    /\ boot = "preload"
    /\ Keep(bootKey)
    /\ boot' = "up" /\ bootKey' = NoKey
    /\ UNCHANGED <<store, request, workers, batch>>

\* The process dies, of an error in bootstrap_keys or otherwise, and starts again.
Restart ==
    /\ boot # "read"
    /\ boot' = "read" /\ bootKey' = NoKey /\ cache' = NoKey
    /\ pc' = [r \in Reqs |-> "idle"] /\ op' = [r \in Reqs |-> "none"]
    /\ want' = [r \in Reqs |-> 0] /\ got' = [r \in Reqs |-> NoKey]
    /\ expiring' = {} /\ cleaner' = FALSE
    /\ UNCHANGED <<store, batch>>

\* Half an hour after it was retired.
GracePasses(v) ==
    /\ rows[v].status = "Deprecated"
    /\ rows' = [rows EXCEPT ![v].status = "Overdue"]
    /\ UNCHANGED <<mats, home, cache, booting, request, workers, batch>>

\* Mutant of ExpireRead: only the keys within their grace are listed.
ExpireReadValid ==
    /\ expiring = {}
    /\ expiring' = {v \in Versions : rows[v].status = "Deprecated"}
    /\ expiring' # {}
    /\ UNCHANGED <<store, cache, booting, request, cleaner, batch>>

\* get_deprecated_keys_expired
ExpireRead ==
    /\ expiring = {}
    /\ expiring' = {v \in Versions : rows[v].status = "Overdue"}
    /\ expiring' # {}
    /\ UNCHANGED <<store, cache, booting, request, cleaner, batch>>

\* update_key_status: by id, whatever the row's status is by now.
ExpireOne(v) ==
    /\ v \in expiring
    /\ rows' = [rows EXCEPT ![v].status = "Spent"]
    /\ expiring' = expiring \ {v}
    /\ UNCHANGED <<mats, home, cache, booting, request, cleaner, batch>>

\* A statement or the audit record fails: the rest waits for the next round.
ExpireFail ==
    /\ expiring # {} /\ expiring' = {}
    /\ UNCHANGED <<store, cache, booting, request, cleaner, batch>>

\* The cached pair has no active key.
CleanupCheck ==
    /\ ~cleaner /\ cache # NoKey /\ ~HasActive
    /\ cleaner' = TRUE
    /\ UNCHANGED <<store, cache, booting, request, expiring, batch>>

\* Mutant of CleanupEvict: only an entry of the version checked is evicted,
\* and no version was found.
CleanupEvictNone ==
    /\ cleaner /\ cleaner' = FALSE
    /\ UNCHANGED <<store, cache, booting, request, expiring, batch>>

CleanupEvict ==
    /\ cleaner
    /\ cache' = NoKey /\ cleaner' = FALSE
    /\ UNCHANGED <<store, booting, request, expiring, batch>>

-----------------------------------------------------------------------------
(* rewrap_keys, which nothing keeps from running beside the rest.            *)

\* get_keys_needing_rewrap: any row may be in the batch; none is, and the loop
\* ends without a trace.
RewrapRead ==
    /\ batch = NoBatch
    /\ \E vs \in SUBSET {v \in Versions : rows[v].status # "absent"} :
         /\ vs # {} /\ Cardinality(vs) <= BatchSize
         /\ batch' = [v \in Versions |-> IF v \in vs THEN rows[v].mat ELSE 0]
    /\ UNCHANGED <<store, cache, booting, request, workers>>

\* update_encrypted_keys_batch, by id: encrypted_key_data and nothing else.
RewrapWrite ==
    /\ batch # NoBatch
    /\ rows' = [v \in Versions |-> IF batch[v] = 0 THEN rows[v]
                                   ELSE [rows[v] EXCEPT !.mat = batch[v]]]
    /\ batch' = NoBatch
    /\ UNCHANGED <<mats, home, cache, booting, request, workers>>

\* The vHSM or the transaction fails; the transaction leaves nothing.
RewrapFail ==
    /\ batch # NoBatch /\ batch' = NoBatch
    /\ UNCHANGED <<store, cache, booting, request, workers>>

-----------------------------------------------------------------------------
Rotate(r) == RotateRead(r) \/ RotateWrite(r) \/ RotateEvict(r)
Generate(r) == GenerateRead(r) \/ GenerateRevoke(r) \/ GenerateSave(r)
Get(r) == GetCached(r) \/ GetMiss(r) \/ GetRead(r) \/ GetFill(r)
Sign(r) == SignCached(r) \/ SignMiss(r) \/ SignRead(r) \/ SignFill(r)
Boot == BootRead \/ BootSave \/ BootPreload
Expire == ExpireRead \/ (\E v \in Versions : ExpireOne(v)) \/ ExpireFail
Cleanup == CleanupCheck \/ CleanupEvict
Rewrap == RewrapRead \/ RewrapWrite \/ RewrapFail

Next ==
    \/ \E r \in Reqs : Rotate(r) \/ Generate(r) \/ Get(r) \/ Sign(r) \/ End(r)
    \/ SiblingEvict \/ Boot \/ Restart \/ Expire \/ Cleanup \/ Rewrap
    \/ \E v \in Versions : GracePasses(v)

Spec == Init /\ [][Next]_vars

\* The workers' loops come round, and a statement of theirs that is tried again
\* and again does not fail for ever.  Nothing is owed by clients, by rewrap or by
\* the process, which need not die.
Fairness ==
    /\ WF_vars(ExpireRead) /\ \A v \in Versions : SF_vars(ExpireOne(v))
    /\ WF_vars(CleanupCheck) /\ WF_vars(CleanupEvict)
FairSpec == Spec /\ Fairness

-----------------------------------------------------------------------------
\* Every variable has its type.
TypeOK ==
    /\ rows \in [Versions -> Row] /\ mats \in Mats
    /\ home \in [Mats -> 0 .. MaxVersion]
    /\ cache \in Key /\ bootKey \in Key
    /\ boot \in {"read", "save", "preload", "up"}
    /\ pc \in [Reqs -> {"idle", "rotate", "evict", "revoke", "save", "getRead", "fill",
                        "signRead", "signFill", "label", "replied"}]
    /\ op \in [Reqs -> {"none", "Deprecated", "Spent", "generate", "get", "sign",
                        "signAsked"}]
    /\ want \in [Reqs -> 0 .. MaxVersion] /\ got \in [Reqs -> Key]
    /\ expiring \subseteq Versions /\ cleaner \in BOOLEAN
    /\ batch \in [Versions -> Mats]

\* At most one version is active, although rotation, generation and bootstrap
\* decide on a version long before they write it.
OneActive == \A u, v \in Versions : IsActive(u) /\ IsActive(v) => u = v

\* A key pair is kept under no other version than the one it was stored under:
\* in the table, in the cache, in the hands of a request that is to use it or
\* answers with it, in a batch of rewrap_keys, however late it is used.  The
\* label of a signature is another matter: a request that asked for a version
\* and read its key from the table is answered with that key's version; one that
\* found a key in the cache, or asked for none, need not be.
Genuine(key) == key # NoKey => key.mat # 0 /\ home[key.mat] = key.ver
VersionsGenuine ==
    /\ \A v \in Versions : rows[v].status # "absent" => Genuine(KeyAt(v))
    /\ Genuine(cache) /\ Genuine(bootKey)
    /\ \A r \in Reqs : pc[r] \in {"evict", "fill", "signFill", "label", "replied"}
                      => Genuine(got[r])
    /\ \A r \in Reqs : pc[r] = "label" /\ op[r] = "signAsked" =>
                        \A v \in Labels(r) : Genuine([got[r] EXCEPT !.ver = v])
    /\ \A v \in Versions : batch[v] # 0 => home[batch[v]] = v

\* The public keys of the table are a KeyStore: each statement that changes which
\* public key is active puts a new one in the place of the old, or leaves none.
\* One that was retired, revoked, expired, compromised or overwritten is never
\* active again, though its version may be, with rewrap beside the service too.
ActivePairs == {rows[v].pub : v \in {u \in Versions : IsActive(u)}}
Store == INSTANCE KeyStore WITH active <- ActivePairs, used <- mats
ImplementsKeyStore == Store!Spec

\* A rotation does not leave a moment without an active key, however many of
\* them race and whatever else writes the table.  The last active key goes only
\* where a generation revokes it, or the expiration worker writes a version that
\* has become active again since it was listed.
RotationKeepsActive ==
    [][ HasActive /\ ~HasActive' =>
          \/ \E r \in Reqs : pc[r] = "revoke" /\ pc'[r] = "save"
          \/ \E v \in expiring : IsActive(v) /\ v \notin expiring' ]_vars

\* A deprecated key whose grace is over is expired (or overwritten).
OverdueExpires ==
    \A v \in Versions : rows[v].status = "Overdue" ~> rows[v].status # "Overdue"

\* The cache does not for ever hold a key of a pair that has no active one.
CacheCleaned == []<>(cache = NoKey \/ HasActive)

=============================================================================
