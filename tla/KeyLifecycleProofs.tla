------------------------ MODULE KeyLifecycleProofs ------------------------
(***************************************************************************)
(* Proofs about KeyLifecycle, for any number of requests, versions and key  *)
(* pairs, with and without the cache, with rewrap beside the service.        *)
(*                                                                         *)
(* The invariants are proved together.  That a key pair is only known under *)
(* the version it was stored under needs that whoever holds one (the cache, *)
(* a request between two awaits, bootstrap, a batch of rewrap) holds one    *)
(* drawn earlier than the next, so that storing the next under some version *)
(* says nothing about it; Inv adds that to the properties of the runs.      *)
(***************************************************************************)
EXTENDS KeyLifecycle, TLAPS

Stages == {"idle", "rotate", "evict", "revoke", "save", "getRead", "fill",
           "signRead", "signFill", "label", "replied"}
Ops == {"none", "Deprecated", "Spent", "generate", "get", "sign", "signAsked"}

\* A key somebody holds was drawn already, and has its version right.
Held(key) == key \in Key /\ key.mat <= mats /\ Genuine(key)

RowGood(v) ==
    /\ rows[v] \in Row /\ rows[v].mat <= mats
    /\ rows[v].status # "absent" => rows[v].mat # 0 /\ home[rows[v].mat] = v
StoreInv ==
    /\ mats \in Mats /\ home \in [Mats -> 0 .. MaxVersion]
    /\ rows \in [Versions -> Row]
    /\ \A v \in Versions : RowGood(v)
    /\ OneActive

CacheInv ==
    /\ Held(cache) /\ Held(bootKey)
    /\ boot \in {"read", "save", "preload", "up"}

\* A request that is to write knows a version to write, and a rotation what
\* becomes of the old key; a signature that asked for a version and missed the
\* cache is made with the key of that version.
ReqGood(r) ==
    /\ got[r].mat <= mats
    /\ pc[r] \in {"evict", "fill", "signFill", "label", "replied"} => Genuine(got[r])
    /\ pc[r] \in {"rotate", "revoke", "save"} => got[r].ver \in Versions
    /\ pc[r] = "rotate" => op[r] \in {"Deprecated", "Spent"}
    /\ op[r] = "signAsked" =>
         /\ pc[r] = "signRead" => want[r] # 0
         /\ pc[r] \in {"signFill", "label"} => got[r].ver = want[r] /\ want[r] # 0
ReqTypes ==
    /\ pc \in [Reqs -> Stages] /\ op \in [Reqs -> Ops]
    /\ want \in [Reqs -> 0 .. MaxVersion] /\ got \in [Reqs -> Key]
ReqInv == ReqTypes /\ \A r \in Reqs : ReqGood(r)

WorkInv ==
    /\ expiring \subseteq Versions /\ cleaner \in BOOLEAN
    /\ \A v \in expiring : rows[v].status # "absent"

RewrapInv ==
    /\ batch \in [Versions -> Mats]
    /\ \A v \in Versions : batch[v] <= mats /\ (batch[v] # 0 => home[batch[v]] = v)

Inv == StoreInv /\ CacheInv /\ ReqInv /\ WorkInv /\ RewrapInv

-----------------------------------------------------------------------------
LEMMA KeyFacts ==
    /\ NoKey \in Key /\ NoKey.ver = 0 /\ NoKey.mat = 0
    /\ \A v \in 0 .. MaxVersion, m \in Mats :
         LET k == [ver |-> v, mat |-> m] IN k \in Key /\ k.ver = v /\ k.mat = m
    /\ \A k \in Key : k.ver \in 0 .. MaxVersion /\ k.mat \in Mats
    /\ \A k \in Key, m \in Mats : LET q == [k EXCEPT !.mat = m] IN
         q \in Key /\ q.ver = k.ver /\ q.mat = m
    /\ \A k \in Key, v \in 0 .. MaxVersion : LET q == [k EXCEPT !.ver = v] IN
         q \in Key /\ q.ver = v /\ q.mat = k.mat
  BY VersionAssumption, MatsAssumption DEF NoKey, Key, Mats

LEMMA RowFacts ==
    /\ Absent \in Row /\ Absent.mat = 0 /\ Absent.pub = 0 /\ Absent.status = "absent"
    /\ \A w \in Row : w.mat \in Mats /\ w.pub \in Mats /\ w.status \in Statuses
    /\ \A w \in Row, s \in Statuses : LET x == [w EXCEPT !.status = s] IN
         x \in Row /\ x.mat = w.mat /\ x.pub = w.pub /\ x.status = s
    /\ \A w \in Row, m \in Mats : LET x == [w EXCEPT !.mat = m] IN
         x \in Row /\ x.mat = m /\ x.pub = w.pub /\ x.status = w.status
    /\ \A m \in Mats : LET x == [mat |-> m, pub |-> m, status |-> "Active"] IN
         x \in Row /\ x.mat = m /\ x.pub = m /\ x.status = "Active"
  BY MatsAssumption DEF Absent, Row, Mats, Statuses

\* What is drawn stays where it is, and no row is deleted.
Grows ==
    /\ mats \in Mats /\ mats' \in Mats /\ mats <= mats'
    /\ \A m \in 1 .. mats : home'[m] = home[m]
    /\ \A v \in Versions : rows'[v].status = "absent" => rows[v].status = "absent"

LEMMA GenuineGrows ==
    ASSUME Grows, NEW key \in Key, key.mat <= mats, Genuine(key)
    PROVE  Genuine(key)' /\ key.mat <= mats'
  BY KeyFacts, MatsAssumption DEF Grows, Genuine, Mats

LEMMA StillGrows == ASSUME StoreInv, UNCHANGED store PROVE Grows /\ StoreInv'
  <1>1. Grows
    BY MatsAssumption DEF StoreInv, store, Grows, Mats
  <1>2. StoreInv'
    BY DEF StoreInv, store, RowGood, OneActive, IsActive
  <1> QED BY <1>1, <1>2

LEMMA CacheKept == ASSUME CacheInv, Grows, UNCHANGED <<cache, booting>> PROVE CacheInv'
  <1>1. Held(cache)' /\ Held(bootKey)'
    BY GenuineGrows DEF CacheInv, Held, booting, Genuine
  <1> QED BY <1>1 DEF CacheInv, booting

LEMMA ReqGoodKept ==
    ASSUME ReqInv, Grows, NEW r \in Reqs,
           pc'[r] = pc[r], op'[r] = op[r], got'[r] = got[r], want'[r] = want[r]
    PROVE  ReqGood(r)'
  <1>1. got[r] \in Key /\ got[r].mat <= mats
    BY DEF ReqInv, ReqTypes, ReqGood
  <1>2. got[r].mat <= mats'
    BY <1>1, KeyFacts, MatsAssumption DEF Grows, Mats
  <1>3. Genuine(got[r]) => Genuine(got[r])'
    BY <1>1, GenuineGrows DEF Genuine
  <1> QED BY <1>2, <1>3 DEF ReqInv, ReqGood, Genuine

LEMMA ReqKept == ASSUME ReqInv, Grows, UNCHANGED request PROVE ReqInv'
  <1>1. \A r \in Reqs : ReqGood(r)'
    BY ReqGoodKept DEF request
  <1> QED BY <1>1 DEF ReqInv, ReqTypes, request

SameRequest(q) == pc'[q] = pc[q] /\ op'[q] = op[q] /\ got'[q] = got[q] /\ want'[q] = want[q]

\* One request moves.
LEMMA ReqMoves ==
    ASSUME ReqInv, Grows, NEW r \in Reqs, ReqTypes', ReqGood(r)',
           \A q \in Reqs \ {r} : SameRequest(q)
    PROVE  ReqInv'
  <1>1. ASSUME NEW q \in Reqs PROVE ReqGood(q)'
    <2>1. CASE q = r BY <2>1
    <2>2. CASE q # r BY <2>2, ReqGoodKept DEF SameRequest
    <2> QED BY <2>1, <2>2
  <1> QED BY <1>1 DEF ReqInv

LEMMA WorkKept == ASSUME WorkInv, Grows, UNCHANGED workers PROVE WorkInv'
  BY DEF WorkInv, workers, Grows

LEMMA RewrapKept == ASSUME RewrapInv, Grows, UNCHANGED batch PROVE RewrapInv'
  <1>1. ASSUME NEW v \in Versions
        PROVE  batch[v] <= mats' /\ (batch[v] # 0 => home'[batch[v]] = v)
    BY MatsAssumption DEF RewrapInv, Grows, Mats
  <1> QED BY <1>1 DEF RewrapInv

-----------------------------------------------------------------------------
(* The statements that write rows.                                          *)

LEMMA RetireFacts ==
    ASSUME StoreInv, NEW s \in Statuses \ {"Active", "absent"}
    PROVE  /\ Retire(s) \in [Versions -> Row]
           /\ \A v \in Versions :
                /\ Retire(s)[v].mat = rows[v].mat /\ Retire(s)[v].pub = rows[v].pub
                /\ Retire(s)[v].status # "Active"
                /\ Retire(s)[v].status = "absent" <=> rows[v].status = "absent"
  <1>1. ASSUME NEW v \in Versions
        PROVE  LET w == IF IsActive(v) THEN [rows[v] EXCEPT !.status = s] ELSE rows[v]
               IN  /\ w \in Row /\ w.mat = rows[v].mat /\ w.pub = rows[v].pub
                   /\ w.status # "Active"
                   /\ w.status = "absent" <=> rows[v].status = "absent"
    BY RowFacts DEF StoreInv, IsActive
  <1> QED BY <1>1 DEF Retire

\* An upsert into a table that has no other active row, and otherwise the rows'
\* material, keeps the store's invariant.
LEMMA UpsertStore ==
    ASSUME StoreInv, NEW table \in [Versions -> Row], NEW v \in Versions,
           \A u \in Versions : /\ table[u].mat = rows[u].mat /\ table[u].pub = rows[u].pub
                               /\ table[u].status = "absent" <=> rows[u].status = "absent",
           \A u \in Versions \ {v} : table[u].status # "Active",
           Upsert(table, v, mats + 1)
    PROVE  /\ StoreInv' /\ Grows /\ mats' = mats + 1
           /\ home'[mats + 1] = v
  <1> DEFINE x == [mat |-> mats + 1, pub |-> mats + 1, status |-> "Active"]
  <1>1. mats + 1 \in Mats /\ mats' = mats + 1 /\ mats \in Nat
    BY MatsAssumption DEF Upsert, StoreInv, Mats
  <1>2. x \in Row /\ x.mat = mats + 1 /\ x.pub = mats + 1 /\ x.status = "Active"
    BY <1>1, RowFacts
  <1> HIDE DEF x
  <1>3. rows' = [table EXCEPT ![v] = x]
    BY DEF Upsert, x
  <1>4. home' = [home EXCEPT ![mats + 1] = v] /\ v \in 0 .. MaxVersion
    BY VersionAssumption DEF Upsert, Versions
  <1>5. home' \in [Mats -> 0 .. MaxVersion] /\ home'[mats + 1] = v
    BY <1>1, <1>4 DEF StoreInv
  <1>7. rows' \in [Versions -> Row] /\ rows'[v] = x
        /\ \A u \in Versions \ {v} : rows'[u] = table[u]
    BY <1>2, <1>3
  <1>6. Grows
    <2>1. \A m \in 1 .. mats : home'[m] = home[m]
      BY <1>1, <1>4, MatsAssumption DEF StoreInv, Mats
    <2>2. \A u \in Versions : rows'[u].status = "absent" => rows[u].status = "absent"
      BY <1>2, <1>7
    <2>3. mats \in Mats /\ mats' \in Mats /\ mats <= mats'
      BY <1>1 DEF StoreInv
    <2> QED BY <2>1, <2>2, <2>3 DEF Grows
  <1>8. ASSUME NEW u \in Versions PROVE RowGood(u)'
    <2>1. CASE u = v
      BY <2>1, <1>1, <1>2, <1>5, <1>7, MatsAssumption DEF RowGood, Mats
    <2>2. CASE u # v
      <3>1. rows[u].mat <= mats /\ rows[u].mat \in Mats
        BY RowFacts DEF StoreInv, RowGood
      <3>2. rows'[u] \in Row /\ rows'[u].mat = rows[u].mat
        BY <2>2, <1>7
      <3>3. rows'[u].mat <= mats'
        BY <3>1, <3>2, <1>1, MatsAssumption DEF Mats
      <3>4. ASSUME rows'[u].status # "absent"
            PROVE  rows'[u].mat # 0 /\ home'[rows'[u].mat] = u
        <4>1. rows[u].mat # 0 /\ home[rows[u].mat] = u
          BY <3>4, <2>2, <1>7 DEF StoreInv, RowGood
        <4>2. rows[u].mat \in 1 .. mats
          BY <4>1, <3>1, MatsAssumption DEF Mats
        <4>3. home'[rows[u].mat] = home[rows[u].mat]
          BY <4>2, <1>6 DEF Grows
        <4> QED BY <4>1, <4>3, <3>2
      <3> QED BY <3>2, <3>3, <3>4 DEF RowGood
    <2> QED BY <2>1, <2>2
  <1>9. OneActive'
    BY <1>7 DEF OneActive, IsActive
  <1> QED BY <1>1, <1>5, <1>6, <1>7, <1>8, <1>9 DEF StoreInv

\* A change of statuses that activates nothing keeps it too.
LEMMA RestatusStore ==
    ASSUME StoreInv, UNCHANGED <<mats, home>>, rows' \in [Versions -> Row],
           \A u \in Versions : /\ rows'[u].mat = rows[u].mat /\ rows'[u].pub = rows[u].pub
                               /\ rows'[u].status = "absent" <=> rows[u].status = "absent"
                               /\ rows'[u].status = "Active" => IsActive(u)
    PROVE  StoreInv' /\ Grows
  <1>1. Grows
    BY MatsAssumption DEF StoreInv, Grows, Mats
  <1>2. \A u \in Versions : RowGood(u)'
    BY DEF StoreInv, RowGood
  <1>3. OneActive'
    BY DEF StoreInv, OneActive, IsActive
  <1> QED BY <1>1, <1>2, <1>3 DEF StoreInv

-----------------------------------------------------------------------------
LEMMA InitInv == Init => Inv
  <1> SUFFICES ASSUME Init PROVE Inv
    OBVIOUS
  <1>0. 0 \in Mats /\ 0 \in 0 .. MaxVersion
    BY MatsAssumption, VersionAssumption DEF Mats
  <1>1. StoreInv
    <2>1. \A v \in Versions : rows[v] = Absent
      BY DEF Init
    <2>2. \A v \in Versions : RowGood(v)
      BY <2>1, RowFacts DEF RowGood, Init
    <2>3. OneActive
      BY <2>1, RowFacts DEF OneActive, IsActive
    <2> QED BY <1>0, <2>2, <2>3, RowFacts DEF StoreInv, Init
  <1>2. CacheInv
    BY KeyFacts DEF CacheInv, Init, Held, Genuine
  <1>3. ReqInv
    BY <1>0, KeyFacts DEF ReqInv, ReqTypes, ReqGood, Init, Stages, Ops
  <1>4. WorkInv
    BY DEF WorkInv, Init
  <1>5. RewrapInv
    <2>1. mats = 0 /\ batch = [v \in Versions |-> 0]
      BY DEF Init, NoBatch
    <2>2. \A v \in Versions : batch[v] <= mats /\ batch[v] = 0
      BY <2>1
    <2> QED BY <1>0, <2>1, <2>2 DEF RewrapInv
  <1> QED BY <1>1, <1>2, <1>3, <1>4, <1>5 DEF Inv

\* A request's step that leaves the store, the process and the workers alone.
LEMMA ReqStep ==
    ASSUME Inv, NEW r \in Reqs, ReqTypes', ReqGood(r)',
           \A q \in Reqs \ {r} : SameRequest(q),
           UNCHANGED <<store, booting, workers, batch>>, Held(cache')
    PROVE  Inv'
  <1>1. Grows /\ StoreInv'
    BY StillGrows DEF Inv
  <1>2. ReqInv'
    BY <1>1, ReqMoves DEF Inv
  <1>3. CacheInv'
    BY DEF Inv, CacheInv, Held, Genuine, booting, store
  <1>4. WorkInv' /\ RewrapInv'
    BY <1>1, WorkKept, RewrapKept DEF Inv
  <1> QED BY <1>1, <1>2, <1>3, <1>4 DEF Inv

\* A step that leaves the requests alone.
LEMMA OtherStep ==
    ASSUME Inv, StoreInv', Grows, CacheInv', WorkInv', RewrapInv', UNCHANGED request
    PROVE  Inv'
  BY ReqKept DEF Inv

LEMMA ActiveRow ==
    ASSUME Inv, NEW v \in Versions, rows[v].status # "absent"
    PROVE  /\ KeyAt(v) \in Key /\ KeyAt(v).ver = v /\ KeyAt(v).mat = rows[v].mat
           /\ rows[v].mat <= mats /\ Genuine(KeyAt(v)) /\ rows[v].mat # 0
           /\ rows[v].mat \in Mats /\ home[rows[v].mat] = v
  <1>1. v \in 0 .. MaxVersion
    BY VersionAssumption DEF Versions
  <1>2. rows[v].mat \in Mats /\ rows[v].mat <= mats /\ rows[v].mat # 0 /\ home[rows[v].mat] = v
    BY RowFacts DEF Inv, StoreInv, RowGood
  <1>3. KeyAt(v) \in Key /\ KeyAt(v).ver = v /\ KeyAt(v).mat = rows[v].mat
    BY <1>1, <1>2, KeyFacts DEF KeyAt
  <1> QED BY <1>2, <1>3 DEF Genuine

LEMMA Small == /\ 0 \in Mats /\ 0 \in 0 .. MaxVersion
               /\ Versions \subseteq 0 .. MaxVersion /\ 1 \in Versions
               /\ \A v \in Versions : v < MaxVersion => v + 1 \in Versions
               /\ Inv => mats \in Nat
  BY MatsAssumption, VersionAssumption DEF Mats, Versions, Inv, StoreInv

-----------------------------------------------------------------------------
LEMMA Reads ==
    ASSUME Inv, NEW r \in Reqs,
           RotateRead(r) \/ GenerateRead(r) \/ GetCached(r) \/ GetMiss(r) \/ GetRead(r)
             \/ SignCached(r) \/ SignMiss(r) \/ SignRead(r)
    PROVE  Inv'
  <1> USE DEF Start, Goto, Kind, Hold, Reply
  <1>0. ReqTypes /\ Held(cache)
    BY DEF Inv, ReqInv, CacheInv
  <1>a. UNCHANGED <<store, booting, workers, batch, cache>>
    BY DEF RotateRead, GenerateRead, GetCached, GetMiss, GetRead, SignCached, SignMiss, SignRead
  <1>b. Held(cache')
    BY <1>0, <1>a
  <1>c. \A q \in Reqs \ {r} : SameRequest(q)
    BY <1>0 DEF RotateRead, GenerateRead, GetCached, GetMiss, GetRead, SignCached, SignMiss,
                SignRead, ReqTypes, SameRequest
  <1>1. CASE RotateRead(r)
    <2> PICK v \in Versions, old \in {"Deprecated", "Spent"} :
          /\ IsActive(v) /\ v < MaxVersion
          /\ op' = [op EXCEPT ![r] = old]
          /\ got' = [got EXCEPT ![r] = [ver |-> v + 1, mat |-> 0]]
      BY <1>1 DEF RotateRead
    <2> DEFINE k == [ver |-> v + 1, mat |-> 0]
    <2>1. k \in Key /\ k.ver = v + 1 /\ k.mat = 0 /\ v + 1 \in Versions /\ mats \in Nat
      BY KeyFacts, Small
    <2> HIDE DEF k
    <2>2. got' = [got EXCEPT ![r] = k] /\ pc' = [pc EXCEPT ![r] = "rotate"] /\ want' = want
      BY <1>1 DEF k, RotateRead
    <2>3. ReqTypes'
      BY <1>0, <2>1, <2>2 DEF ReqTypes, Stages, Ops
    <2>4. ReqGood(r)'
      BY <1>0, <1>a, <2>1, <2>2 DEF ReqTypes, ReqGood, store
    <2> QED BY <1>a, <1>b, <1>c, <2>3, <2>4, ReqStep
  <1>2. CASE GenerateRead(r)
    <2>1. PICK v \in Versions, where \in {"revoke", "save"} :
            got' = [got EXCEPT ![r] = [ver |-> v, mat |-> 0]] /\ pc' = [pc EXCEPT ![r] = where]
      BY <1>2, Small DEF GenerateRead
    <2> DEFINE k == [ver |-> v, mat |-> 0]
    <2>2. k \in Key /\ k.ver = v /\ k.mat = 0 /\ mats \in Nat
      BY KeyFacts, Small
    <2> HIDE DEF k
    <2>3. /\ got' = [got EXCEPT ![r] = k] /\ pc' = [pc EXCEPT ![r] = where] /\ want' = want
          /\ op' = [op EXCEPT ![r] = "generate"]
      BY <1>2, <2>1 DEF k, GenerateRead
    <2>4. ReqTypes'
      BY <1>0, <2>2, <2>3 DEF ReqTypes, Stages, Ops
    <2>5. ReqGood(r)'
      BY <1>0, <1>a, <2>2, <2>3 DEF ReqTypes, ReqGood, store
    <2> QED BY <1>a, <1>b, <1>c, <2>4, <2>5, ReqStep
  <1>3. CASE GetCached(r) \/ SignCached(r)
    <2>1. got' = [got EXCEPT ![r] = cache]
      BY <1>3 DEF GetCached, SignCached
    <2>2. ReqTypes'
      BY <1>0, <1>3, <2>1, Small DEF GetCached, SignCached, ReqTypes, Stages, Ops, Held
    <2>3. pc'[r] \in {"replied", "label"} /\ op'[r] \in {"none", "sign"}
      BY <1>0, <1>3 DEF GetCached, SignCached, ReqTypes
    <2>4. ReqGood(r)'
      BY <1>0, <1>a, <2>1, <2>3 DEF ReqTypes, ReqGood, store, Held, Genuine
    <2> QED BY <1>a, <1>b, <1>c, <2>2, <2>4, ReqStep
  <1>4. CASE GetRead(r) \/ SignRead(r)
    <2>1. PICK v \in Versions : /\ rows[v].status # "absent" /\ got' = [got EXCEPT ![r] = KeyAt(v)]
                                /\ SignRead(r) => v = want[r] \/ want[r] = 0
      BY <1>4 DEF GetRead, SignRead, IsActive
    <2>2. KeyAt(v) \in Key /\ KeyAt(v).mat <= mats /\ Genuine(KeyAt(v)) /\ KeyAt(v).ver = v
      BY <2>1, ActiveRow
    <2>3. UNCHANGED <<op, want>>
      BY <1>4 DEF GetRead, SignRead
    <2>4. ReqTypes'
      BY <1>0, <1>4, <2>1, <2>2, <2>3 DEF GetRead, SignRead, ReqTypes, Stages
    <2>5. \/ pc'[r] = "fill"
          \/ pc'[r] = "signFill" /\ pc[r] = "signRead" /\ (v = want[r] \/ want[r] = 0)
      BY <1>0, <1>4, <2>1 DEF GetRead, SignRead, ReqTypes
    <2>6. got'[r] = KeyAt(v) /\ ReqGood(r)
      BY <1>0, <2>1 DEF ReqTypes, Inv, ReqInv
    <2>7. ReqGood(r)'
      BY <1>0, <1>a, <2>2, <2>3, <2>5, <2>6 DEF ReqGood, store, Genuine
    <2> QED BY <1>a, <1>b, <1>c, <2>4, <2>7, ReqStep
  <1>5. CASE GetMiss(r) \/ SignMiss(r)
    <2>1. UNCHANGED got /\ pc' \in [Reqs -> Stages] /\ pc'[r] \in {"getRead", "signRead"}
      BY <1>0, <1>5 DEF GetMiss, SignMiss, ReqTypes, Stages
    <2>2. PICK v \in 0 .. MaxVersion, k \in {"get", "sign", "signAsked"} :
            /\ op' = [op EXCEPT ![r] = k] /\ (k = "signAsked" => v # 0)
            /\ want' = [want EXCEPT ![r] = v] \/ (k = "get" /\ want' = want)
      BY <1>5, Small DEF GetMiss, SignMiss
    <2>3. ReqTypes'
      BY <1>0, <2>1, <2>2 DEF ReqTypes, Ops
    <2>4. got[r].mat <= mats
      BY DEF Inv, ReqInv, ReqGood
    <2>5. op'[r] = k /\ (k = "signAsked" => want'[r] # 0)
      BY <1>0, <2>2 DEF ReqTypes
    <2>6. ReqGood(r)'
      BY <1>a, <2>1, <2>4, <2>5 DEF ReqGood, store
    <2> QED BY <1>a, <1>b, <1>c, <2>3, <2>6, ReqStep
  <1> QED BY <1>1, <1>2, <1>3, <1>4, <1>5

LEMMA Moves ==
    ASSUME Inv, NEW r \in Reqs,
           RotateEvict(r) \/ GetFill(r) \/ SignFill(r) \/ End(r)
    PROVE  Inv'
  <1> USE DEF Goto, Kind, Hold, Reply
  <1>0. ReqTypes /\ ReqGood(r) /\ Held(cache)
    BY DEF Inv, ReqInv, CacheInv
  <1>a. UNCHANGED <<store, booting, workers, batch>>
    BY DEF RotateEvict, GetFill, SignFill, End
  <1>c. \A q \in Reqs \ {r} : SameRequest(q)
    BY <1>0 DEF RotateEvict, GetFill, SignFill, End, ReqTypes, SameRequest
  <1>n. Held(NoKey)
    BY KeyFacts, Small DEF Held, Genuine
  <1>1. CASE RotateEvict(r) \/ GetFill(r) \/ SignFill(r)
    <2>1. pc[r] \in {"evict", "fill", "signFill"} /\ UNCHANGED got
      BY <1>1 DEF RotateEvict, GetFill, SignFill
    <2>2. /\ pc' \in [Reqs -> Stages] /\ op' \in [Reqs -> Ops]
          /\ want' \in [Reqs -> 0 .. MaxVersion]
          /\ \/ pc'[r] = "replied" /\ op'[r] = "none"
             \/ pc[r] = "signFill" /\ pc'[r] = "label" /\ op'[r] = op[r] /\ want'[r] = want[r]
      BY <1>0, <1>1, Small DEF RotateEvict, GetFill, SignFill, ReqTypes, Stages, Ops
    <2>3. Held(got[r])
      BY <1>0, <2>1 DEF ReqTypes, ReqGood, Held
    <2>4. Held(cache')
      BY <1>0, <1>1, <1>n, <2>3 DEF RotateEvict, GetFill, SignFill, Keep
    <2>5. ReqTypes'
      BY <1>0, <2>1, <2>2 DEF ReqTypes
    <2>6. ReqGood(r)'
      BY <1>0, <1>a, <2>1, <2>2, <2>3 DEF ReqGood, Held, Genuine, store
    <2> QED BY <1>a, <1>c, <2>4, <2>5, <2>6, ReqStep
  <1>2. CASE End(r)
    <2>1. /\ pc' = [pc EXCEPT ![r] = "idle"] /\ op' = [op EXCEPT ![r] = "none"]
          /\ got' = [got EXCEPT ![r] = NoKey] /\ want' = [want EXCEPT ![r] = 0]
          /\ cache' = cache
      BY <1>2 DEF End
    <2>2. ReqTypes'
      BY <1>0, <2>1, KeyFacts, Small DEF ReqTypes, Stages, Ops
    <2>3. ReqGood(r)'
      BY <1>0, <1>a, <1>n, <2>1 DEF ReqGood, ReqTypes, store, Held
    <2> QED BY <1>0, <1>a, <1>c, <2>1, <2>2, <2>3, ReqStep
  <1> QED BY <1>1, <1>2

\* The three statements of requests that write rows.
LEMMA Writes ==
    ASSUME Inv, NEW r \in Reqs, RotateWrite(r) \/ GenerateRevoke(r) \/ GenerateSave(r)
    PROVE  Inv'
  <1> USE DEF Goto, Hold, Kind, Reply
  <1>0. ReqTypes /\ ReqGood(r) /\ StoreInv /\ ReqInv
    BY DEF Inv, ReqInv
  <1>a. UNCHANGED <<cache, booting, workers, batch>>
    BY DEF RotateWrite, GenerateRevoke, GenerateSave
  <1>b. pc[r] \in {"rotate", "revoke", "save"} /\ got[r] \in Key /\ got[r].ver \in Versions
    BY <1>0 DEF RotateWrite, GenerateRevoke, GenerateSave, ReqGood, ReqTypes
  <1>c. \A q \in Reqs \ {r} : SameRequest(q)
    BY <1>0 DEF RotateWrite, GenerateRevoke, GenerateSave, ReqTypes, SameRequest
  <1>1. CASE RotateWrite(r) \/ GenerateSave(r)
    <2>1. /\ StoreInv' /\ Grows /\ mats' = mats + 1 /\ home'[mats + 1] = got[r].ver
      <3>1. CASE RotateWrite(r)
        <4>1. op[r] \in Statuses \ {"Active", "absent"}
          BY <1>0, <3>1 DEF RotateWrite, ReqGood, Statuses
        <4>2. Upsert(Retire(op[r]), got[r].ver, mats + 1)
          BY <3>1 DEF RotateWrite
        <4> QED BY <1>0, <1>b, <4>1, <4>2, RetireFacts, UpsertStore
      <3>2. CASE GenerateSave(r)
        <4>1. Upsert(rows, got[r].ver, mats + 1) /\ UniqueActive(got[r].ver)
          BY <3>2 DEF GenerateSave
        <4>2. \A u \in Versions \ {got[r].ver} : rows[u].status # "Active"
          BY <4>1 DEF UniqueActive, IsActive
        <4>3. rows \in [Versions -> Row]
          BY <1>0 DEF StoreInv
        <4> QED BY <1>0, <1>b, <4>1, <4>2, <4>3, UpsertStore
      <3> QED BY <1>1, <3>1, <3>2
    <2> DEFINE k == [got[r] EXCEPT !.mat = mats + 1]
    <2>2. mats + 1 \in Mats /\ mats \in Nat
      BY <1>1, Small DEF RotateWrite, GenerateSave, Upsert
    <2>3. k \in Key /\ k.ver = got[r].ver /\ k.mat = mats + 1
      BY <1>b, <2>2, KeyFacts
    <2> HIDE DEF k
    <2>4. got' = [got EXCEPT ![r] = k]
      BY <1>1 DEF RotateWrite, GenerateSave, k
    <2>5. /\ pc' \in [Reqs -> Stages] /\ pc'[r] \in {"evict", "replied"}
          /\ op' \in [Reqs -> Ops] /\ op'[r] = "none" /\ want' \in [Reqs -> 0 .. MaxVersion]
      BY <1>0, <1>1, Small DEF RotateWrite, GenerateSave, ReqTypes, Stages, Ops
    <2>6. ReqTypes'
      BY <1>0, <2>3, <2>4, <2>5 DEF ReqTypes
    <2>7. got'[r] = k
      BY <1>0, <2>4 DEF ReqTypes
    <2>8. Genuine(got[r])'
      BY <2>1, <2>2, <2>3, <2>7 DEF Genuine
    <2>9. ReqGood(r)'
      BY <2>1, <2>2, <2>3, <2>5, <2>7, <2>8 DEF ReqGood
    <2>10. ReqInv'
      BY <1>0, <1>c, <2>1, <2>6, <2>9, ReqMoves
    <2> QED BY <1>a, <2>1, <2>10, CacheKept, WorkKept, RewrapKept DEF Inv
  <1>2. CASE GenerateRevoke(r)
    <2>1. rows' = Retire("Spent") /\ UNCHANGED <<mats, home, got, op, want>>
      BY <1>2 DEF GenerateRevoke
    <2>2. \A u \in Versions : Retire("Spent")[u].status # "Active"
      BY <1>0, RetireFacts DEF Statuses
    <2>3. StoreInv' /\ Grows
      BY <1>0, <2>1, <2>2, RetireFacts, RestatusStore DEF Statuses
    <2>4. pc' = [pc EXCEPT ![r] = "save"]
      BY <1>2 DEF GenerateRevoke
    <2>5. ReqTypes'
      BY <1>0, <2>1, <2>4 DEF ReqTypes, Stages
    <2>6. ReqGood(r)'
      BY <1>0, <1>b, <2>1, <2>4 DEF ReqTypes, ReqGood
    <2>7. ReqInv'
      BY <1>0, <1>c, <2>3, <2>5, <2>6, ReqMoves
    <2> QED BY <1>a, <2>3, <2>7, CacheKept, WorkKept, RewrapKept DEF Inv
  <1> QED BY <1>1, <1>2

\* Bootstrap, the end of the process, and the two evictions outside requests.
LEMMA Process ==
    ASSUME Inv, BootRead \/ BootSave \/ BootPreload \/ Restart \/ SiblingEvict
                  \/ CleanupCheck \/ CleanupEvict
    PROVE  Inv'
  <1>0. StoreInv /\ CacheInv /\ ReqInv /\ WorkInv /\ RewrapInv
    BY DEF Inv
  <1>n. Held(NoKey)
    BY KeyFacts, Small DEF Held, Genuine
  <1>1. CASE BootSave
    <2>1. Upsert(rows, 1, mats + 1) /\ UniqueActive(1) /\ bootKey' = [ver |-> 1, mat |-> mats + 1]
      BY <1>1 DEF BootSave
    <2>2. \A u \in Versions \ {1} : rows[u].status # "Active"
      BY <2>1 DEF UniqueActive, IsActive
    <2>3. StoreInv' /\ Grows /\ mats' = mats + 1 /\ home'[mats + 1] = 1
      BY <1>0, <2>1, <2>2, Small, UpsertStore DEF StoreInv
    <2>4. mats + 1 \in Mats /\ mats \in Nat
      BY <2>1, Small DEF Upsert
    <2>5. bootKey' \in Key /\ bootKey'.ver = 1 /\ bootKey'.mat = mats + 1
      BY <2>1, <2>4, KeyFacts, Small
    <2>6. Held(bootKey)'
      BY <2>3, <2>4, <2>5 DEF Held, Genuine
    <2>7. Held(cache)'
      BY <1>0, <1>1, <2>3, GenuineGrows DEF BootSave, CacheInv, Held, Genuine
    <2>8. CacheInv'
      BY <1>1, <2>6, <2>7 DEF CacheInv, BootSave
    <2> QED BY <1>0, <1>1, <2>3, <2>8, WorkKept, RewrapKept, OtherStep DEF BootSave
  <1>2. CASE Restart
    <2>1. Grows /\ StoreInv'
      BY <1>0, <1>2, StillGrows DEF Restart
    <2>2. UNCHANGED mats
      BY <1>2 DEF Restart, store
    <2>3. CacheInv'
      BY <1>2, <1>n DEF Restart, CacheInv, Held, Genuine, store
    <2>4. ReqInv'
      BY <1>2, <1>n, <2>2, KeyFacts, Small
         DEF Restart, ReqInv, ReqTypes, ReqGood, Stages, Ops, Held
    <2>5. WorkInv'
      BY <1>2 DEF Restart, WorkInv
    <2>6. RewrapInv'
      BY <1>0, <1>2, <2>1, RewrapKept DEF Restart
    <2> QED BY <2>1, <2>3, <2>4, <2>5, <2>6 DEF Inv
  <1>3. CASE BootRead \/ BootPreload \/ SiblingEvict \/ CleanupCheck \/ CleanupEvict
    <2>1. UNCHANGED <<store, request, batch, expiring>>
      BY <1>3 DEF BootRead, BootPreload, SiblingEvict, CleanupCheck, CleanupEvict, workers
    <2>2. Grows /\ StoreInv'
      BY <1>0, <2>1, StillGrows
    <2>3. Held(cache')
      BY <1>0, <1>3, <1>n
         DEF BootRead, BootPreload, SiblingEvict, CleanupCheck, CleanupEvict, CacheInv, Keep
    <2>4. Held(bootKey')
      <3>1. CASE BootRead
        <4>1. CASE \E v \in Versions : IsActive(v) /\ bootKey' = KeyAt(v)
          BY <4>1, ActiveRow DEF IsActive, Held
        <4> QED BY <1>0, <3>1, <4>1 DEF BootRead, CacheInv
      <3>2. CASE ~BootRead
        BY <1>0, <1>3, <1>n, <3>2
           DEF BootPreload, SiblingEvict, CleanupCheck, CleanupEvict, CacheInv, booting
      <3> QED BY <3>1, <3>2
    <2>5. boot' \in {"read", "save", "preload", "up"}
      BY <1>0, <1>3 DEF BootRead, BootPreload, SiblingEvict, CleanupCheck, CleanupEvict,
                        CacheInv, booting
    <2>6. CacheInv'
      BY <2>1, <2>3, <2>4, <2>5 DEF CacheInv, Held, Genuine, store
    <2>7. cleaner' \in BOOLEAN
      BY <1>0, <1>3 DEF BootRead, BootPreload, SiblingEvict, CleanupCheck, CleanupEvict,
                        WorkInv, workers
    <2>8. WorkInv'
      BY <1>0, <2>1, <2>7 DEF WorkInv, store
    <2> QED BY <1>0, <2>1, <2>2, <2>6, <2>8, RewrapKept, OtherStep
  <1> QED BY <1>1, <1>2, <1>3

LEMMA Expiry ==
    ASSUME Inv, ExpireRead \/ ExpireFail
                  \/ \E v \in Versions : GracePasses(v) \/ ExpireOne(v)
    PROVE  Inv'
  <1>0. StoreInv /\ CacheInv /\ ReqInv /\ WorkInv /\ RewrapInv
    BY DEF Inv
  <1>1. CASE ExpireRead \/ ExpireFail
    <2>1. UNCHANGED <<store, cache, booting, request, cleaner, batch>>
      BY <1>1 DEF ExpireRead, ExpireFail
    <2>2. expiring' \subseteq Versions /\ \A v \in expiring' : rows[v].status # "absent"
      BY <1>1 DEF ExpireRead, ExpireFail
    <2>3. WorkInv'
      BY <1>0, <2>1, <2>2 DEF WorkInv, store
    <2> QED BY <1>0, <2>1, <2>3, StillGrows, CacheKept, RewrapKept, OtherStep
  <1>2. ASSUME NEW v \in Versions, GracePasses(v) \/ ExpireOne(v) PROVE Inv'
    <2>1. PICK s \in {"Overdue", "Spent"} : rows' = [rows EXCEPT ![v].status = s]
      BY <1>2 DEF GracePasses, ExpireOne
    <2>2. rows[v].status # "absent" /\ rows \in [Versions -> Row] /\ rows[v] \in Row
      BY <1>0, <1>2 DEF GracePasses, ExpireOne, WorkInv, StoreInv
    <2> DEFINE w == [rows[v] EXCEPT !.status = s]
    <2>3. w \in Row /\ w.mat = rows[v].mat /\ w.pub = rows[v].pub /\ w.status = s
      <3>1. s \in Statuses
        BY DEF Statuses
      <3> QED BY <2>2, <3>1 DEF Row
    <2>4. rows' = [rows EXCEPT ![v] = w]
      BY <2>1
    <2> HIDE DEF w
    <2>5. rows' \in [Versions -> Row] /\ rows'[v] = w /\ \A u \in Versions \ {v} : rows'[u] = rows[u]
      BY <2>2, <2>3, <2>4
    <2>6. UNCHANGED <<mats, home, cache, booting, request, cleaner, batch>> /\ expiring' \subseteq expiring
      BY <1>2 DEF GracePasses, ExpireOne, workers
    <2>7. \A u \in Versions : /\ rows'[u].mat = rows[u].mat /\ rows'[u].pub = rows[u].pub
                              /\ rows'[u].status = "absent" <=> rows[u].status = "absent"
                              /\ rows'[u].status = "Active" => IsActive(u)
      BY <2>2, <2>3, <2>5 DEF IsActive
    <2>8. StoreInv' /\ Grows
      BY <1>0, <2>5, <2>6, <2>7, RestatusStore
    <2>9. WorkInv'
      BY <1>0, <2>6, <2>7 DEF WorkInv
    <2> QED BY <1>0, <2>6, <2>8, <2>9, CacheKept, RewrapKept, OtherStep
  <1> QED BY <1>1, <1>2

LEMMA Rewraps == ASSUME Inv, Rewrap PROVE Inv'
  <1>0. StoreInv /\ CacheInv /\ ReqInv /\ WorkInv /\ RewrapInv
    BY DEF Inv
  <1>z. ASSUME batch' = NoBatch, UNCHANGED <<mats, home>> PROVE RewrapInv'
    <2>1. \A v \in Versions : batch'[v] = 0
      BY <1>z DEF NoBatch
    <2>2. batch' \in [Versions -> Mats]
      BY <1>z, Small DEF NoBatch
    <2> QED BY <1>z, <2>1, <2>2, Small DEF RewrapInv, Inv
  <1>2. CASE RewrapRead
    <2>1. UNCHANGED <<store, cache, booting, request, workers>>
      BY <1>2 DEF RewrapRead
    <2>2. PICK vs \in SUBSET {v \in Versions : rows[v].status # "absent"} :
                batch' = [v \in Versions |-> IF v \in vs THEN rows[v].mat ELSE 0]
      BY <1>2 DEF RewrapRead
    <2>3. \A v \in Versions : /\ batch'[v] \in Mats /\ batch'[v] <= mats
                              /\ batch'[v] # 0 => home[batch'[v]] = v
      BY <2>2, ActiveRow, Small
    <2>4. batch' \in [Versions -> Mats]
      BY <2>2, <2>3
    <2>5. RewrapInv'
      BY <2>1, <2>3, <2>4 DEF RewrapInv, store
    <2> QED BY <1>0, <2>1, <2>5, StillGrows, CacheKept, WorkKept, OtherStep
  <1>3. CASE RewrapWrite
    <2>1. UNCHANGED <<mats, home, cache, booting, request, workers>>
      BY <1>3 DEF RewrapWrite
    <2>2. ASSUME NEW v \in Versions
          PROVE  /\ rows'[v] \in Row /\ rows'[v].status = rows[v].status
                 /\ rows'[v].mat <= mats
                 /\ rows[v].status # "absent" => rows'[v].mat # 0 /\ home[rows'[v].mat] = v
      <3>1. rows[v] \in Row /\ RowGood(v) /\ batch[v] \in Mats /\ batch[v] <= mats
            /\ (batch[v] # 0 => home[batch[v]] = v)
        BY <1>0 DEF StoreInv, RewrapInv
      <3>2. rows'[v] = IF batch[v] = 0 THEN rows[v] ELSE [rows[v] EXCEPT !.mat = batch[v]]
        BY <1>3 DEF RewrapWrite
      <3>3. CASE batch[v] = 0
        BY <3>1, <3>2, <3>3 DEF RowGood
      <3>4. CASE batch[v] # 0
        BY <3>1, <3>2, <3>4, RowFacts
      <3> QED BY <3>3, <3>4
    <2>3. rows' \in [Versions -> Row]
      BY <1>3, <2>2 DEF RewrapWrite
    <2>4. \A v \in Versions : RowGood(v)'
      BY <2>1, <2>2 DEF RowGood
    <2>5. OneActive'
      BY <1>0, <2>2 DEF StoreInv, OneActive, IsActive
    <2>6. StoreInv'
      BY <1>0, <2>1, <2>3, <2>4, <2>5 DEF StoreInv
    <2>7. Grows
      <3>1. mats \in Mats /\ mats \in Nat
        BY <1>0, Small DEF StoreInv
      <3> QED BY <2>1, <2>2, <3>1 DEF Grows
    <2>8. RewrapInv'
      BY <1>3, <1>z, <2>1 DEF RewrapWrite
    <2> QED BY <1>0, <2>1, <2>6, <2>7, <2>8, CacheKept, WorkKept, OtherStep
  <1>4. CASE RewrapFail
    <2>1. RewrapInv'
      BY <1>4, <1>z DEF RewrapFail, store
    <2> QED BY <1>0, <1>4, <2>1, StillGrows, CacheKept, WorkKept, OtherStep DEF RewrapFail
  <1> QED BY <1>2, <1>3, <1>4 DEF Rewrap

-----------------------------------------------------------------------------
LEMMA StepInv == Inv /\ [Next]_vars => Inv'
  <1> SUFFICES ASSUME Inv, [Next]_vars PROVE Inv'
    OBVIOUS
  <1>1. ASSUME NEW r \in Reqs, Rotate(r) \/ Generate(r) \/ Get(r) \/ Sign(r) \/ End(r)
        PROVE  Inv'
    BY <1>1, Reads, Moves, Writes DEF Rotate, Generate, Get, Sign
  <1>2. CASE SiblingEvict \/ Boot \/ Restart \/ Cleanup
    BY <1>2, Process DEF Boot, Cleanup
  <1>3. CASE Expire \/ \E v \in Versions : GracePasses(v)
    BY <1>3, Expiry DEF Expire
  <1>4. CASE Rewrap
    BY <1>4, Rewraps
  <1>5. CASE UNCHANGED vars
    BY <1>5, StillGrows, CacheKept, ReqKept, WorkKept, RewrapKept DEF vars, Inv
  <1> QED BY <1>1, <1>2, <1>3, <1>4, <1>5 DEF Next

LEMMA InvHolds == Spec => []Inv
  BY InitInv, StepInv, PTL DEF Spec

\* Every variable keeps its type, whatever use cases, workers and processes
\* interleave or fail.
THEOREM KeyTypeCorrect == Spec => []TypeOK
  <1>1. Inv => TypeOK
    BY DEF Inv, StoreInv, CacheInv, Held, ReqInv, ReqTypes, WorkInv, RewrapInv, TypeOK,
           Stages, Ops
  <1> QED BY <1>1, InvHolds, PTL

\* Rotation, generation and bootstrap never leave two active versions, although
\* each picks its version long before it writes it.
THEOREM NeverTwoActive == Spec => []OneActive
  <1>1. Inv => OneActive
    BY DEF Inv, StoreInv
  <1> QED BY <1>1, InvHolds, PTL

\* The cache, the rows, the batches of rewrap_keys and what the use cases hold
\* always name the version a key pair was stored under, and so does the label of
\* a signature that asked for a version and read its key from the table; nothing
\* is said of the labels of other signatures.
THEOREM VersionsAreGenuine == Spec => []VersionsGenuine
  <1>1. ASSUME Inv PROVE VersionsGenuine
    <2>1. \A v \in Versions : rows[v].status # "absent" => Genuine(KeyAt(v))
      BY <1>1, ActiveRow
    <2>2. ASSUME NEW r \in Reqs, pc[r] = "label", op[r] = "signAsked", NEW v \in Labels(r)
          PROVE  Genuine([got[r] EXCEPT !.ver = v])
      <3>1. got[r] \in Key /\ got[r].ver = want[r] /\ want[r] # 0 /\ Genuine(got[r])
        BY <1>1, <2>2 DEF Inv, ReqInv, ReqTypes, ReqGood
      <3>2. v = got[r].ver
        BY <2>2, <3>1 DEF Labels
      <3>3. [got[r] EXCEPT !.ver = v] = got[r]
        BY <3>1, <3>2 DEF Key
      <3> QED BY <3>1, <3>3
    <2> QED BY <1>1, <2>1, <2>2
        DEF Inv, CacheInv, Held, ReqInv, ReqGood, RewrapInv, VersionsGenuine
  <1> QED BY <1>1, InvHolds, PTL

-----------------------------------------------------------------------------
(* Who may take the last active key away.                                    *)

\* The steps that write the table.
LEMMA TableWriters ==
    ASSUME [Next]_vars
    PROVE  \/ UNCHANGED store \/ BootSave \/ RewrapWrite
           \/ \E r \in Reqs : RotateWrite(r) \/ GenerateRevoke(r) \/ GenerateSave(r)
           \/ \E u \in Versions : GracePasses(u) \/ ExpireOne(u)
  BY DEF Next, vars, Rotate, Generate, Get, Sign, Boot, Expire, Cleanup, Rewrap,
     RotateRead, RotateEvict, GenerateRead, GetCached, GetMiss, GetRead, GetFill, SignCached,
     SignMiss, SignRead, SignFill, End, SiblingEvict, BootRead, BootPreload, Restart, ExpireRead,
     ExpireFail, CleanupCheck, CleanupEvict, RewrapRead, RewrapFail

\* Whatever was in the table, an upsert leaves its version active.
LEMMA UpsertLeavesActive ==
    ASSUME NEW table \in [Versions -> Row], NEW v \in Versions, Upsert(table, v, mats + 1)
    PROVE  HasActive'
  <1>1. rows'[v] = [mat |-> mats + 1, pub |-> mats + 1, status |-> "Active"]
    BY DEF Upsert
  <1> QED BY <1>1 DEF HasActive, IsActive

LEMMA LastActive ==
    ASSUME Inv, [Next]_vars, HasActive, ~HasActive'
    PROVE  \/ \E r \in Reqs : pc[r] = "revoke" /\ pc'[r] = "save"
           \/ \E v \in expiring : IsActive(v) /\ v \notin expiring'
  <1>0. StoreInv /\ ReqInv /\ ReqTypes /\ rows \in [Versions -> Row]
    BY DEF Inv, StoreInv, ReqInv
  <1>1. PICK a \in Versions : IsActive(a)
    BY DEF HasActive
  <1>2. \A v \in Versions : rows'[v].status # "Active"
    BY DEF HasActive, IsActive
  <1>3. ~UNCHANGED store
    BY <1>1, <1>2 DEF store, IsActive
  <1>4. ~BootSave
    BY <1>0, Small, UpsertLeavesActive DEF BootSave
  <1>5. ~RewrapWrite
    <2> SUFFICES ASSUME RewrapWrite PROVE FALSE
      OBVIOUS
    <2>1. rows'[a] = IF batch[a] = 0 THEN rows[a] ELSE [rows[a] EXCEPT !.mat = batch[a]]
      BY <1>1 DEF RewrapWrite
    <2>2. rows[a] \in Row /\ batch[a] \in Mats
      BY <1>0 DEF Inv, RewrapInv
    <2>3. rows'[a].status = rows[a].status
      BY <2>1, <2>2, RowFacts
    <2> QED BY <1>1, <1>2, <2>3 DEF IsActive
  <1>6. ASSUME NEW r \in Reqs PROVE ~RotateWrite(r) /\ ~GenerateSave(r)
    <2>1. pc[r] = "rotate" => op[r] \in Statuses \ {"Active", "absent"}
      BY <1>0 DEF ReqInv, ReqGood, Statuses
    <2>2. pc[r] \in {"rotate", "save"} => got[r].ver \in Versions
      BY <1>0 DEF ReqInv, ReqGood
    <2>3. ~RotateWrite(r)
      BY <1>0, <2>1, <2>2, RetireFacts, UpsertLeavesActive DEF RotateWrite
    <2>4. ~GenerateSave(r)
      BY <1>0, <2>2, UpsertLeavesActive DEF GenerateSave
    <2> QED BY <2>3, <2>4
  <1>7. ASSUME NEW u \in Versions PROVE ~GracePasses(u)
    <2> SUFFICES ASSUME GracePasses(u) PROVE FALSE
      OBVIOUS
    <2>1. u # a /\ rows' = [rows EXCEPT ![u].status = "Overdue"]
      BY <1>1 DEF GracePasses, IsActive
    <2>2. rows'[a] = rows[a]
      BY <1>0, <1>1, <2>1
    <2> QED BY <1>1, <1>2, <2>2 DEF IsActive
  <1>8. ASSUME NEW r \in Reqs, GenerateRevoke(r) PROVE pc[r] = "revoke" /\ pc'[r] = "save"
    BY <1>0, <1>8 DEF GenerateRevoke, Goto, ReqTypes
  <1>9. ASSUME NEW u \in Versions, ExpireOne(u)
        PROVE  u \in expiring /\ IsActive(u) /\ u \notin expiring'
    <2>1. u \in expiring /\ u \notin expiring' /\ rows' = [rows EXCEPT ![u].status = "Spent"]
      BY <1>9 DEF ExpireOne
    <2>2. CASE u # a
      <3>1. rows'[a] = rows[a]
        BY <1>0, <1>1, <2>1, <2>2
      <3> QED BY <1>1, <1>2, <3>1 DEF IsActive
    <2> QED BY <1>1, <2>1, <2>2
  <1> QED BY <1>3, <1>4, <1>5, <1>6, <1>7, <1>8, <1>9, TableWriters

\* No rotation, bootstrap, rewrap or clock leaves the pair without an active key:
\* only a generation's revocation and a late write of the expiration worker do.
THEOREM RotationsKeepAnActiveKey == Spec => RotationKeepsActive
  <1>1. Inv /\ [Next]_vars =>
          [HasActive /\ ~HasActive' =>
             \/ \E r \in Reqs : pc[r] = "revoke" /\ pc'[r] = "save"
             \/ \E v \in expiring : IsActive(v) /\ v \notin expiring']_vars
    BY LastActive
  <1> QED BY <1>1, InvHolds, PTL DEF Spec, RotationKeepsActive

-----------------------------------------------------------------------------
(* The refinement: the active rows of the table are a KeyStore.             *)

\* A new key pair that is the only active one.
LEMMA UpsertActivates ==
    ASSUME Inv, NEW table \in [Versions -> Row], NEW u \in Versions,
           \A v \in Versions \ {u} : table[v].status # "Active",
           Upsert(table, u, mats + 1)
    PROVE  Store!Activate
  <1>1. rows' = [table EXCEPT ![u] = [mat |-> mats + 1, pub |-> mats + 1, status |-> "Active"]]
    BY DEF Upsert
  <1>2. {v \in Versions : IsActive(v)}' = {u}
    BY <1>1 DEF IsActive
  <1>3. ActivePairs' = {mats + 1}
    BY <1>1, <1>2 DEF ActivePairs
  <1> QED BY <1>3 DEF Upsert, Store!Activate

\* A statement that leaves the active rows as they are.
LEMMA ActiveKept ==
    ASSUME \A v \in Versions : rows'[v].status = "Active" <=> rows[v].status = "Active",
           \A v \in Versions : rows[v].status = "Active" => rows'[v].pub = rows[v].pub,
           UNCHANGED mats
    PROVE  UNCHANGED Store!vars
  <1>1. ActivePairs' = ActivePairs
    BY DEF ActivePairs, IsActive
  <1> QED BY <1>1 DEF Store!vars

\* A statement that leaves no active row.
LEMMA ActiveGone ==
    ASSUME \A v \in Versions : rows'[v].status # "Active", UNCHANGED mats
    PROVE  [Store!Next]_(Store!vars)
  <1>1. ActivePairs' = {}
    BY DEF ActivePairs, IsActive
  <1> QED BY <1>1 DEF Store!Next, Store!Deactivate, Store!vars

\* One step of the service, rewrap beside it or not, is one of the KeyStore, or
\* changes nothing there.
LEMMA StoreStep ==
    ASSUME Inv, [Next]_vars
    PROVE  [Store!Next]_(Store!vars)
  <1>0. StoreInv /\ RewrapInv /\ WorkInv /\ ReqInv
        /\ rows \in [Versions -> Row] /\ mats \in Nat
    BY Small DEF Inv, StoreInv
  <1>a. ASSUME NEW s \in Statuses \ {"Active", "absent"}
        PROVE  Retire(s) \in [Versions -> Row] /\ \A v \in Versions : Retire(s)[v].status # "Active"
    BY <1>0, <1>a, RetireFacts
  <1>1. CASE UNCHANGED store
    BY <1>1, ActiveKept DEF store
  <1>2. ASSUME NEW r \in Reqs, RotateWrite(r) \/ GenerateRevoke(r) \/ GenerateSave(r)
        PROVE  [Store!Next]_(Store!vars)
    <2>1. got[r].ver \in Versions /\ (pc[r] = "rotate" => op[r] \in {"Deprecated", "Spent"})
      BY <1>0, <1>2 DEF RotateWrite, GenerateRevoke, GenerateSave, ReqInv, ReqGood
    <2>2. CASE RotateWrite(r)
      <3>1. op[r] \in Statuses \ {"Active", "absent"} /\ Upsert(Retire(op[r]), got[r].ver, mats + 1)
        BY <2>1, <2>2 DEF RotateWrite, Statuses
      <3> QED BY <2>1, <3>1, <1>a, UpsertActivates DEF Store!Next
    <2>3. CASE GenerateRevoke(r)
      <3>1. rows' = Retire("Spent") /\ UNCHANGED mats
        BY <2>3 DEF GenerateRevoke
      <3> QED BY <3>1, <1>a, ActiveGone DEF Statuses
    <2>4. CASE GenerateSave(r)
      BY <1>0, <2>1, <2>4, UpsertActivates DEF GenerateSave, UniqueActive, IsActive, Store!Next
    <2> QED BY <1>2, <2>2, <2>3, <2>4
  <1>3. CASE BootSave
    BY <1>0, <1>3, UpsertActivates, Small DEF BootSave, UniqueActive, IsActive, Store!Next
  <1>4. ASSUME NEW u \in Versions, GracePasses(u) PROVE [Store!Next]_(Store!vars)
    <2>1. rows' = [rows EXCEPT ![u].status = "Overdue"] /\ rows[u].status = "Deprecated"
          /\ UNCHANGED mats
      BY <1>4 DEF GracePasses
    <2>2. rows'[u].status = "Overdue"
      BY <1>0, <2>1, RowFacts DEF Statuses
    <2> QED BY <1>0, <2>1, <2>2, ActiveKept
  <1>5. ASSUME NEW u \in Versions, ExpireOne(u) PROVE [Store!Next]_(Store!vars)
    <2>1. rows' = [rows EXCEPT ![u].status = "Spent"] /\ UNCHANGED mats
      BY <1>5 DEF ExpireOne
    <2>2. rows'[u].status = "Spent"
      BY <1>0, <2>1, RowFacts DEF Statuses
    <2>3. CASE IsActive(u)
      <3>1. \A v \in Versions \ {u} : rows[v].status # "Active"
        BY <1>0, <2>3 DEF StoreInv, OneActive, IsActive
      <3> QED BY <1>0, <2>1, <2>2, <3>1, ActiveGone
    <2>4. CASE ~IsActive(u)
      BY <1>0, <2>1, <2>2, <2>4, ActiveKept DEF IsActive
    <2> QED BY <2>3, <2>4
  <1>6. CASE RewrapWrite
    <2>1. ASSUME NEW v \in Versions
          PROVE  rows'[v].status = rows[v].status /\ rows'[v].pub = rows[v].pub
      <3>1. rows'[v] = IF batch[v] = 0 THEN rows[v] ELSE [rows[v] EXCEPT !.mat = batch[v]]
        BY <1>6 DEF RewrapWrite
      <3>2. rows[v] \in Row /\ batch[v] \in Mats
        BY <1>0 DEF RewrapInv
      <3> QED BY <3>1, <3>2, RowFacts
    <2> QED BY <1>6, <2>1, ActiveKept DEF RewrapWrite
  <1> QED BY <1>1, <1>2, <1>3, <1>4, <1>5, <1>6, TableWriters

\* The public keys of the table implement KeyStore, with rewrap beside the service
\* too: one active at a time, always a new one, never one that was active before.
THEOREM TableIsKeyStore == Spec => ImplementsKeyStore
  <1>1. Init => Store!Init
    BY DEF Init, Store!Init, ActivePairs, IsActive, Absent
  <1>2. Inv /\ [Next]_vars => [Store!Next]_(Store!vars)
    BY StoreStep
  <1> QED BY <1>1, <1>2, InvHolds, PTL DEF Spec, ImplementsKeyStore, Store!Spec
=============================================================================
