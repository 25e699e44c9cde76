------------------------- MODULE AuditChainProofs -------------------------
(***************************************************************************)
(* Proofs about the audit chain, for any set of writers.                   *)
(*                                                                         *)
(* OrderlyChain is not inductive by itself: a writer that is about to      *)
(* insert must have found the newest row, must carry a timestamp newer     *)
(* than every row, and no other orderly writer may insert before it.  That *)
(* is Found, and it holds because the writer holds the chain's lock.       *)
(***************************************************************************)
EXTENDS AuditChain, FiniteSetTheorems, TLAPS

AllOrderly == \A r \in rows : r.kind \in Orderly
Newest(q) == \A x \in rows : x.at <= q.at

Past == /\ rows = {} \/ \E q \in rows : Newest(q)
        /\ \A r \in rows : r.at <= clock /\ pc[r.hash] = "done"
Found ==
    \A w \in Writers :
        /\ ts[w] <= clock
        /\ pc[w] = "ready" =>
             prev[w] \in {Zeros, Empty} \/ \E q \in rows : q.hash = prev[w]
        /\ pc[w] = "ready" /\ kind[w] \in Orderly /\ AllOrderly =>
             /\ \A q \in rows : q.at < ts[w]
             /\ \/ rows = {} /\ prev[w] \in {Zeros, Empty}
                \/ \E q \in rows : q.hash = prev[w] /\ Newest(q)
ChainInv == TypeOK /\ ChainLocked /\ Past /\ Found /\ NoDanglingPrev /\ OrderlyChain

LEMMA InitChain == Init => ChainInv
  BY DEF Init, ChainInv, TypeOK, ChainLocked, Past, Found, NoDanglingPrev, OrderlyChain,
         Kinds, TxKinds, Hashes

\* The latest hash is the hash of a newest row, or the genesis of an empty log.
LEMMA LatestIsNewest ==
    ASSUME Past, NEW k
    PROVE  \/ rows = {} /\ LatestHash(k) \in {Zeros, Empty}
           \/ \E q \in rows : q.hash = LatestHash(k) /\ Newest(q)
  <1>1. CASE rows = {}
    BY <1>1 DEF LatestHash, Genesis
  <1>2. CASE rows # {}
    <2>1. \E q \in rows : \A x \in rows : x.at <= q.at
      BY <1>2 DEF Past, Newest
    <2> DEFINE q == CHOOSE r \in rows : \A x \in rows : x.at <= r.at
    <2>2. q \in rows /\ \A x \in rows : x.at <= q.at
      BY <2>1
    <2>3. LatestHash(k) = q.hash
      BY <1>2 DEF LatestHash
    <2> QED BY <2>2, <2>3 DEF Newest
  <1> QED BY <1>1, <1>2

\* Steps that leave the log alone keep what is known of it.
LEMMA LogUnchanged ==
    ASSUME ChainInv, rows' = rows, clock' \in Nat, clock <= clock',
           \A w \in Writers : pc[w] = "done" => pc'[w] = "done"
    PROVE  Past' /\ NoDanglingPrev' /\ OrderlyChain'
  <1>1. \A r \in rows : r.hash \in Writers /\ r.at \in Nat
    BY DEF ChainInv, TypeOK, Row
  <1>2. Past'
    BY <1>1 DEF ChainInv, TypeOK, Past, Newest
  <1>3. NoDanglingPrev' /\ OrderlyChain'
    BY DEF ChainInv, NoDanglingPrev, OrderlyChain, LinksInOrder
  <1> QED BY <1>2, <1>3

\* A writer starts, waits for the lock, gets it, or fails.
LEMMA QuietSteps ==
    ASSUME ChainInv, NEW w \in Writers, Begin(w) \/ LockChain(w) \/ Abort(w)
    PROVE  ChainInv'
  <1>1. /\ rows' = rows /\ clock' \in Nat /\ clock <= clock'
        /\ \A x \in Writers : pc[x] = "done" => pc'[x] = "done"
    BY DEF ChainInv, TypeOK, Begin, LockChain, Abort, Now
  <1>2. TypeOK'
    <2>1. CASE Begin(w)
      BY <2>1 DEF ChainInv, TypeOK, Begin, Now
    <2>2. CASE LockChain(w) \/ Abort(w)
      BY <2>2 DEF ChainInv, TypeOK, LockChain, Abort
    <2> QED BY <2>1, <2>2
  <1>3. ChainLocked'
    BY DEF ChainInv, TypeOK, ChainLocked, Begin, LockChain, Abort
  <1>4. Found'
    <2>1. CASE Begin(w)
      <3>1. \A x \in Writers : ts'[x] <= clock'
        BY <2>1, <1>1 DEF ChainInv, TypeOK, Found, Begin, Now
      <3>2. \A x \in Writers : pc'[x] = "ready" =>
              /\ pc[x] = "ready" /\ x # w
              /\ ts'[x] = ts[x] /\ kind'[x] = kind[x] /\ prev'[x] = prev[x]
        BY <2>1 DEF ChainInv, TypeOK, Begin, Now
      <3> QED BY <1>1, <3>1, <3>2 DEF ChainInv, Found, AllOrderly, Newest
    <2>2. CASE LockChain(w) \/ Abort(w)
      BY <2>2 DEF ChainInv, TypeOK, Found, AllOrderly, Newest, LockChain, Abort
    <2> QED BY <2>1, <2>2
  <1> QED BY <1>1, <1>2, <1>3, <1>4, LogUnchanged DEF ChainInv

LEMMA ReadLatestStep ==
    ASSUME ChainInv, NEW w \in Writers, ReadLatest(w) PROVE ChainInv'
  <1>1. /\ rows' = rows /\ clock' \in Nat /\ clock <= clock'
        /\ \A x \in Writers : pc[x] = "done" => pc'[x] = "done"
    BY DEF ChainInv, TypeOK, ReadLatest, Now
  <1>2. LatestHash(kind[w]) \in Hashes
    BY LatestIsNewest DEF ChainInv, TypeOK, Row, Hashes
  <1>3. TypeOK'
    BY <1>2 DEF ChainInv, TypeOK, ReadLatest, Now
  <1>4. ChainLocked'
    BY DEF ChainInv, TypeOK, ChainLocked, ReadLatest, TxKinds
  <1>5. Found'
    <2>1. ASSUME NEW x \in Writers, x # w
          PROVE /\ ts'[x] <= clock'
                /\ pc'[x] = "ready" =>
                     prev'[x] \in {Zeros, Empty} \/ \E q \in rows' : q.hash = prev'[x]
                /\ pc'[x] = "ready" /\ kind'[x] \in Orderly /\ AllOrderly' =>
                     /\ \A q \in rows' : q.at < ts'[x]
                     /\ \/ rows' = {} /\ prev'[x] \in {Zeros, Empty}
                        \/ \E q \in rows' : q.hash = prev'[x] /\ Newest(q)'
      <3>1. /\ pc'[x] = pc[x] /\ ts'[x] = ts[x] /\ prev'[x] = prev[x] /\ kind'[x] = kind[x]
        BY <2>1 DEF ReadLatest, Now, ChainInv, TypeOK
      <3> QED BY <1>1, <3>1 DEF ChainInv, TypeOK, Found, AllOrderly, Newest
    <2>2. ts'[w] <= clock' /\ prev'[w] = LatestHash(kind[w])
      BY <1>1 DEF ReadLatest, Now, ChainInv, TypeOK, Found
    <2>3. kind'[w] \in Orderly => \A q \in rows' : q.at < ts'[w]
      <3> SUFFICES ASSUME kind[w] \in Orderly, NEW q \in rows PROVE q.at < ts'[w]
        BY <1>1 DEF ReadLatest
      <3>1. q.at \in Nat /\ q.at <= clock
        BY DEF ChainInv, TypeOK, Row, Past
      <3>2. ts'[w] = clock + 1
        BY DEF ReadLatest, Now, Orderly, ChainInv, TypeOK
      <3> QED BY <3>1, <3>2 DEF ChainInv, TypeOK
    <2>4. \/ rows' = {} /\ prev'[w] \in {Zeros, Empty}
          \/ \E q \in rows' : q.hash = prev'[w] /\ Newest(q)'
      BY <1>1, <2>2, LatestIsNewest DEF ChainInv, Newest
    <2> QED BY <2>1, <2>2, <2>3, <2>4 DEF Found
  <1> QED BY <1>1, <1>3, <1>4, <1>5, LogUnchanged DEF ChainInv

\* The step that matters: a row is added.
LEMMA AppendStep ==
    ASSUME ChainInv, NEW w \in Writers, AppendRow(w) PROVE ChainInv'
  <1> DEFINE new == RowOf(w)
  <1>1. /\ new \in Row /\ new.hash = w /\ new.prev = prev[w] /\ new.at = ts[w]
        /\ new.kind = kind[w]
    BY DEF RowOf, Row, ChainInv, TypeOK
  <1> HIDE DEF new
  <1>2. /\ rows' = rows \cup {new} /\ pc[w] = "ready" /\ pc' = [pc EXCEPT ![w] = "done"]
        /\ lock' = lock \ {w} /\ UNCHANGED <<clock, kind, ts, exact, prev>>
    BY DEF AppendRow, new
  <1>3. TypeOK'
    BY <1>1, <1>2 DEF ChainInv, TypeOK
  <1>4. ChainLocked'
    BY <1>2 DEF ChainInv, TypeOK, ChainLocked
  <1>5. \A r \in rows : r.hash \in Writers /\ r.at \in Nat /\ r.at <= clock /\ r.hash # w
    BY <1>2 DEF ChainInv, TypeOK, Row, Past
  <1>6. ts[w] \in Nat /\ clock \in Nat /\ ts[w] <= clock
    BY <1>2 DEF ChainInv, TypeOK, Found
  <1>7. Past'
    <2>1. \A r \in rows' : r.at <= clock' /\ pc'[r.hash] = "done"
      BY <1>1, <1>2, <1>5, <1>6 DEF ChainInv, TypeOK, Past
    <2>2. \E q \in rows' : Newest(q)'
      <3>1. CASE rows = {}
        BY <3>1, <1>1, <1>2, <1>6 DEF Newest
      <3>2. CASE rows # {}
        <4>1. PICK q \in rows : Newest(q)
          BY <3>2 DEF ChainInv, Past
        <4>2. CASE q.at <= ts[w]
          BY <4>1, <4>2, <1>1, <1>2, <1>5, <1>6 DEF Newest
        <4>3. CASE ts[w] <= q.at
          BY <4>1, <4>3, <1>1, <1>2, <1>5, <1>6 DEF Newest
        <4> QED BY <4>2, <4>3, <1>5, <1>6
      <3> QED BY <3>1, <3>2
    <2> QED BY <2>1, <2>2 DEF Past
  <1>8. NoDanglingPrev'
    <2>1. new.prev \in {Zeros, Empty} \/ \E q \in rows : q.hash = new.prev /\ q # new
      BY <1>1, <1>2, <1>5 DEF ChainInv, Found
    <2> QED BY <1>2, <2>1 DEF ChainInv, NoDanglingPrev
  <1>9. Found'
    <2> SUFFICES ASSUME NEW x \in Writers, x # w
          PROVE /\ ts[x] <= clock
                /\ pc[x] = "ready" =>
                     prev[x] \in {Zeros, Empty} \/ \E q \in rows' : q.hash = prev[x]
                /\ ~(pc[x] = "ready" /\ kind[x] \in Orderly /\ AllOrderly')
      BY <1>2, <1>6 DEF Found, ChainInv, TypeOK
    <2>1. ASSUME pc[x] = "ready", kind[x] \in Orderly PROVE kind[w] = "record"
      <3>1. lock = {x}
        BY <2>1 DEF ChainInv, ChainLocked, Orderly, TxKinds
      <3> QED BY <1>2, <3>1 DEF ChainInv, ChainLocked, TypeOK, Kinds
    <2>2. kind[w] = "record" => ~AllOrderly'
      BY <1>1, <1>2 DEF AllOrderly, Orderly
    <2> QED BY <1>2, <2>1, <2>2 DEF ChainInv, Found
  <1>10. OrderlyChain'
    <2> SUFFICES ASSUME AllOrderly', NEW r \in rows' PROVE LinksInOrder(r, {Zeros, Empty})'
      BY DEF OrderlyChain, AllOrderly
    <2>1. AllOrderly /\ kind[w] \in Orderly
      BY <1>1, <1>2 DEF AllOrderly
    <2>2. \A q \in rows : q.at < ts[w]
      BY <1>2, <2>1 DEF ChainInv, Found
    <2>3. CASE r \in rows
      <3>1. LinksInOrder(r, {Zeros, Empty})
        BY <2>1, <2>3 DEF ChainInv, OrderlyChain, AllOrderly
      <3> QED BY <3>1, <2>2, <2>3, <1>1, <1>2, <1>5, <1>6 DEF LinksInOrder
    <2>4. CASE r = new
      <3>1. CASE rows = {}
        <4>1. prev[w] \in {Zeros, Empty}
          BY <1>2, <2>1, <3>1 DEF ChainInv, Found
        <4> QED BY <4>1, <3>1, <2>4, <1>1, <1>2, <1>6 DEF LinksInOrder
      <3>2. CASE rows # {}
        <4>1. PICK q \in rows : q.hash = prev[w] /\ Newest(q)
          BY <1>2, <2>1, <3>2 DEF ChainInv, Found
        <4> QED BY <4>1, <2>2, <2>4, <1>1, <1>2, <1>6 DEF LinksInOrder, Newest
      <3> QED BY <3>1, <3>2
    <2> QED BY <1>2, <2>3, <2>4
  <1> QED BY <1>3, <1>4, <1>7, <1>8, <1>9, <1>10 DEF ChainInv

LEMMA NextChain == ChainInv /\ [Next]_vars => ChainInv'
  <1> SUFFICES ASSUME ChainInv, [Next]_vars PROVE ChainInv'
    OBVIOUS
  <1>1. CASE Next
    BY <1>1, QuietSteps, ReadLatestStep, AppendStep DEF Next
  <1>2. CASE UNCHANGED vars
    <2> USE <1>2 DEF vars, ChainInv
    <2>1. TypeOK' /\ ChainLocked'
      BY DEF TypeOK, ChainLocked
    <2>2. Past' /\ NoDanglingPrev' /\ OrderlyChain'
      BY DEF Past, Newest, NoDanglingPrev, OrderlyChain, LinksInOrder
    <2>3. Found'
      BY DEF Found, AllOrderly, Newest
    <2> QED BY <2>1, <2>2, <2>3
  <1> QED BY <1>1, <1>2

LEMMA ChainInvAlways == Spec => []ChainInv
  BY InitChain, NextChain, PTL DEF Spec

\* Types.
THEOREM ChainTypeCorrect == Spec => []TypeOK
  BY ChainInvAlways, PTL DEF ChainInv

\* Writers that lock, read and stamp in this order leave one chain, in the
\* order the verifier walks, whatever anyone else is doing.
THEOREM OrderlyWritersChain == Spec => []OrderlyChain
  BY ChainInvAlways, PTL DEF ChainInv

\* No row follows a row that was never committed.
THEOREM LinksCommitted == Spec => []NoDanglingPrev
  BY ChainInvAlways, PTL DEF ChainInv
-----------------------------------------------------------------------------
(* The verifier.  It reads the log as a sequence in the order of created_at; *)
(* that such a sequence exists, and that it is the only one because no two   *)
(* rows carry the same timestamp, is itself an invariant: each insertion     *)
(* finds its place in the sequence of the rows before it.  Splits says that  *)
(* every timestamp has such a place.                                         *)

Splits(s) ==
    \A t \in Nat : \E k \in 0 .. Len(s) :
        /\ \A i \in 1 .. k : s[i].at <= t
        /\ \A i \in k + 1 .. Len(s) : t < s[i].at
Listed == IsFiniteSet(rows) /\ \E s \in Listings : Splits(s)
Stamped ==
    /\ \A w \in Writers :
         pc[w] = "ready" \/ (pc[w] \in {"begun", "locked"} /\ kind[w] \notin Orderly)
            => ts[w] # 0
    /\ \A v, w \in Writers : ts[v] = ts[w] /\ ts[v] # 0 => v = w
    /\ \A r \in rows : r.at = ts[r.hash] /\ r.at # 0
    /\ \A r, q \in rows : r.hash = q.hash => r = q

\* A sequence of all rows is a function on 1 .. n, n the number of rows.
LEMMA ListingShape ==
    ASSUME IsFiniteSet(rows), NEW s \in Listings
    PROVE  /\ Len(s) = Cardinality(rows) /\ Len(s) \in Nat /\ DOMAIN s = 1 .. Len(s)
           /\ s \in [1 .. Len(s) -> rows]
           /\ \A i, j \in 1 .. Len(s) : i # j => s[i] # s[j]
           /\ \A i, j \in 1 .. Len(s) : i < j => s[i].at <= s[j].at
           /\ \A r \in rows : \E i \in 1 .. Len(s) : s[i] = r
  <1> DEFINE n == Cardinality(rows)
  <1>1. n \in Nat
    BY FS_CardinalityType
  <1>2. s \in [1 .. n -> rows] /\ \A i, j \in 1 .. n : i # j => s[i] # s[j]
    BY DEF Listings, SetToSeqs
  <1>3. Len(s) = n /\ DOMAIN s = 1 .. n
    BY <1>1, <1>2
  <1>4. \A i, j \in 1 .. n : i < j => s[i].at <= s[j].at
    BY <1>3 DEF Listings
  <1>5. s \in Injection(1 .. n, rows)
    BY <1>2 DEF Injection, IsInjective
  <1>6. IsFiniteSet(1 .. n) /\ Cardinality(1 .. n) = n
    BY <1>1, FS_Interval
  <1>7. s \in Surjection(1 .. n, rows)
    BY <1>5, <1>6, FS_Injection
  <1> QED BY <1>1, <1>2, <1>3, <1>4, <1>7 DEF Surjection

LEMMA InitLog == Init => Listed /\ Stamped
  <1> SUFFICES ASSUME Init PROVE Listed /\ Stamped
    OBVIOUS
  <1>1. IsFiniteSet(rows) /\ Cardinality(rows) = 0
    BY FS_EmptySet DEF Init
  <1> DEFINE s == [i \in 1 .. 0 |-> 0]
  <1>2. s \in Listings
    BY <1>1 DEF Listings, SetToSeqs
  <1>3. Splits(s)
    BY DEF Splits
  <1>4. Stamped
    BY DEF Init, Stamped
  <1> QED BY <1>1, <1>2, <1>3, <1>4 DEF Listed

\* Each reading of the clock is later than all before it, so the timestamps
\* that were taken are all different.
LEMMA StampedStep ==
    ASSUME ChainInv, Stamped, [Next]_vars PROVE Stamped'
  <1>1. ASSUME NEW w \in Writers, Begin(w) PROVE Stamped'
    <2>1. \A r \in rows : r.hash \in Writers /\ r.hash # w
      BY <1>1 DEF ChainInv, TypeOK, Row, Past, Begin
    <2>2. clock \in Nat /\ ts \in [Writers -> Nat] /\ \A x \in Writers : ts[x] <= clock
      BY DEF ChainInv, TypeOK, Found
    <2>3. /\ rows' = rows /\ (\A x \in Writers : pc'[x] = IF x = w THEN "begun" ELSE pc[x])
          /\ \A x \in Writers \ {w} : kind'[x] = kind[x]
          /\ \/ kind'[w] \notin Orderly /\ ts' = [ts EXCEPT ![w] = clock + 1]
             \/ kind'[w] \in Orderly /\ ts' = ts
      BY <1>1 DEF Begin, Now, ChainInv, TypeOK
    <2> QED BY <2>1, <2>2, <2>3 DEF Stamped
  <1>2. ASSUME NEW w \in Writers, LockChain(w) \/ Abort(w) PROVE Stamped'
    BY <1>2 DEF Stamped, LockChain, Abort, ChainInv, TypeOK
  <1>3. ASSUME NEW w \in Writers, ReadLatest(w) PROVE Stamped'
    <2>1. \A r \in rows : r.hash \in Writers /\ r.hash # w
      BY <1>3 DEF ChainInv, TypeOK, Row, Past, ReadLatest
    <2>2. clock \in Nat /\ ts \in [Writers -> Nat] /\ \A x \in Writers : ts[x] <= clock
      BY DEF ChainInv, TypeOK, Found
    <2>3. /\ rows' = rows /\ (\A x \in Writers : pc'[x] = IF x = w THEN "ready" ELSE pc[x])
          /\ kind' = kind
          /\ \/ ts' = ts /\ pc[w] \in {"begun", "locked"} /\ kind[w] \notin Orderly
             \/ ts' = [ts EXCEPT ![w] = clock + 1]
      BY <1>3 DEF ReadLatest, Now, ChainInv, TypeOK, Orderly
    <2> QED BY <2>1, <2>2, <2>3 DEF Stamped
  <1>4. ASSUME NEW w \in Writers, AppendRow(w) PROVE Stamped'
    <2>1. \A r \in rows : r.hash \in Writers /\ r.hash # w
      BY <1>4 DEF ChainInv, TypeOK, Row, Past, AppendRow
    <2>2. RowOf(w).hash = w /\ RowOf(w).at = ts[w]
      BY DEF RowOf
    <2>3. /\ rows' = rows \cup {RowOf(w)} /\ pc[w] = "ready"
          /\ (\A x \in Writers : pc'[x] = IF x = w THEN "done" ELSE pc[x])
          /\ kind' = kind /\ ts' = ts
      BY <1>4 DEF AppendRow, ChainInv, TypeOK
    <2> QED BY <2>1, <2>2, <2>3 DEF Stamped
  <1>5. ASSUME UNCHANGED vars PROVE Stamped'
    BY <1>5 DEF vars, Stamped
  <1> QED BY <1>1, <1>2, <1>3, <1>4, <1>5 DEF Next

\* A new row finds its place in the sequence.
LEMMA Inserted ==
    ASSUME Listed, NEW r, r.at \in Nat, r \notin rows, rows' = rows \cup {r},
           \A q \in rows : q.at \in Nat
    PROVE  Listed'
  <1>1. PICK s \in Listings : Splits(s)
    BY DEF Listed
  <1> DEFINE n == Len(s)
  <1>2. /\ n \in Nat /\ n = Cardinality(rows) /\ s \in [1 .. n -> rows]
        /\ \A i, j \in 1 .. n : i # j => s[i] # s[j]
        /\ \A i, j \in 1 .. n : i < j => s[i].at <= s[j].at
    BY <1>1, ListingShape DEF Listed
  <1>3. IsFiniteSet(rows') /\ Cardinality(rows') = n + 1
    BY <1>2, FS_AddElement DEF Listed
  <1>4. PICK k \in 0 .. n : /\ \A i \in 1 .. k : s[i].at <= r.at
                            /\ \A i \in k + 1 .. n : r.at < s[i].at
    BY <1>1 DEF Splits
  <1> DEFINE s2 == [i \in 1 .. n + 1 |->
                      IF i <= k THEN s[i] ELSE IF i = k + 1 THEN r ELSE s[i - 1]]
  <1> HIDE DEF n
  <1>5. s2 \in [1 .. n + 1 -> rows']
    BY <1>2, <1>4
  <1>6. Len(s2) = n + 1 /\ DOMAIN s2 = 1 .. n + 1
    BY <1>2
  <1>7. /\ \A i \in 1 .. k : s2[i] = s[i] /\ i \in 1 .. n
        /\ s2[k + 1] = r
        /\ \A i \in k + 2 .. n + 1 : s2[i] = s[i - 1] /\ i - 1 \in k + 1 .. n
        /\ \A i \in 1 .. n + 1 : i \in 1 .. k \/ i = k + 1 \/ i \in k + 2 .. n + 1
    BY <1>2, <1>4
  <1> HIDE DEF s2
  <1>8. \A i, j \in 1 .. n + 1 : i # j => s2[i] # s2[j]
    <2> SUFFICES ASSUME NEW i \in 1 .. n + 1, NEW j \in 1 .. n + 1, i < j PROVE s2[i] # s2[j]
      BY <1>2
    <2>1. \A x \in 1 .. n : s[x] # r
      BY <1>2
    <2> QED BY <1>2, <1>4, <1>7, <2>1
  <1>9. \A i, j \in 1 .. n + 1 : i < j => s2[i].at <= s2[j].at
    <2> SUFFICES ASSUME NEW i \in 1 .. n + 1, NEW j \in 1 .. n + 1, i < j
                 PROVE  s2[i].at <= s2[j].at
      OBVIOUS
    <2>1. \A x \in 1 .. n : s[x].at \in Nat
      BY <1>2
    <2>2. CASE j \in 1 .. k
      BY <1>2, <1>4, <1>7, <2>1, <2>2
    <2>3. CASE j = k + 1
      <3>1. i \in 1 .. k
        BY <1>4, <2>3
      <3> QED BY <1>4, <1>7, <2>3, <3>1
    <2>4. CASE j \in k + 2 .. n + 1
      <3>1. s2[j] = s[j - 1] /\ j - 1 \in k + 1 .. n /\ r.at < s[j - 1].at
        BY <1>4, <1>7, <2>4
      <3>2. CASE i \in 1 .. k
        BY <1>2, <1>4, <1>7, <3>1, <3>2
      <3>3. CASE i = k + 1
        BY <1>2, <1>4, <1>7, <2>1, <3>1, <3>3
      <3>4. CASE i \in k + 2 .. n + 1
        <4>1. s2[i] = s[i - 1] /\ i - 1 \in 1 .. n /\ j - 1 \in 1 .. n /\ i - 1 < j - 1
          BY <1>2, <1>4, <1>7, <3>1, <3>4
        <4> QED BY <1>2, <3>1, <4>1
      <3> QED BY <1>7, <3>2, <3>3, <3>4
    <2> QED BY <1>7, <2>2, <2>3, <2>4
  <1>10. s2 \in Listings'
    BY <1>3, <1>5, <1>6, <1>8, <1>9 DEF Listings, SetToSeqs
  <1>11. Splits(s2)
    <2> SUFFICES ASSUME NEW t \in Nat
                 PROVE  \E m \in 0 .. n + 1 : /\ \A i \in 1 .. m : s2[i].at <= t
                                              /\ \A i \in m + 1 .. n + 1 : t < s2[i].at
      BY <1>6 DEF Splits
    <2>1. PICK m \in 0 .. n : /\ \A i \in 1 .. m : s[i].at <= t
                              /\ \A i \in m + 1 .. n : t < s[i].at
      BY <1>1 DEF Splits, n
    <2>2. \A x \in 1 .. n : s[x].at \in Nat
      BY <1>2
    <2>3. CASE r.at <= t
      <3>1. k <= m
        <4>1. SUFFICES ASSUME m < k PROVE FALSE
          BY <1>2, <1>4, <2>1
        <4>2. k \in m + 1 .. n /\ k \in 1 .. k /\ k \in 1 .. n
          BY <1>2, <1>4, <2>1, <4>1
        <4> QED BY <1>4, <2>1, <2>2, <2>3, <4>2
      <3>2. \A i \in 1 .. m + 1 : s2[i].at <= t
        BY <1>2, <1>4, <1>7, <2>1, <2>3, <3>1
      <3>3. \A i \in m + 2 .. n + 1 : t < s2[i].at
        BY <1>2, <1>4, <1>7, <2>1, <3>1
      <3> QED BY <1>2, <2>1, <3>2, <3>3
    <2>4. CASE t < r.at
      <3>1. m <= k
        <4>1. SUFFICES ASSUME k < m PROVE FALSE
          BY <1>2, <1>4, <2>1
        <4>2. m \in k + 1 .. n /\ m \in 1 .. m /\ m \in 1 .. n
          BY <1>2, <1>4, <2>1, <4>1
        <4> QED BY <1>4, <2>1, <2>2, <2>4, <4>2
      <3>2. \A i \in 1 .. m : s2[i].at <= t
        BY <1>2, <1>4, <1>7, <2>1, <3>1
      <3>3. ASSUME NEW i \in m + 1 .. n + 1 PROVE t < s2[i].at
        <4>1. i \in 1 .. n + 1
          BY <1>2, <2>1
        <4>2. CASE i \in 1 .. k
          BY <1>2, <1>4, <1>7, <2>1, <4>2
        <4>3. CASE i = k + 1
          BY <1>7, <2>4, <4>3
        <4>4. CASE i \in k + 2 .. n + 1
          BY <1>2, <1>4, <1>7, <2>1, <3>1, <4>4
        <4> QED BY <1>7, <4>1, <4>2, <4>3, <4>4
      <3>4. m \in 0 .. n + 1
        BY <1>2, <2>1
      <3> QED BY <3>2, <3>3, <3>4
    <2> QED BY <2>3, <2>4
  <1> QED BY <1>3, <1>10, <1>11 DEF Listed, Splits

LEMMA ListedStep == ChainInv /\ Listed /\ [Next]_vars => Listed'
  <1> SUFFICES ASSUME ChainInv, Listed, [Next]_vars PROVE Listed'
    OBVIOUS
  <1>1. CASE rows' = rows
    BY <1>1 DEF Listed, Listings
  <1>2. ASSUME NEW w \in Writers, AppendRow(w) PROVE Listed'
    <2>1. RowOf(w).at \in Nat /\ RowOf(w).hash = w
      BY DEF RowOf, ChainInv, TypeOK
    <2>2. \A q \in rows : q.at \in Nat /\ q.hash # w
      BY <1>2 DEF ChainInv, TypeOK, Row, Past, AppendRow
    <2> QED BY <1>2, <2>1, <2>2, Inserted DEF AppendRow
  <1> QED BY <1>1, <1>2 DEF Next, vars, Begin, LockChain, ReadLatest, Abort

LEMMA LogAlways == Spec => [](ChainInv /\ Listed /\ Stamped)
  BY InitChain, InitLog, NextChain, ListedStep, StampedStep, PTL DEF Spec

\* The sequence the verifier reads: all rows, oldest first, no two of one age.
LEMMA OrderedShape ==
    ASSUME ChainInv, Listed, Stamped
    PROVE  /\ Len(Ordered) \in Nat /\ Ordered \in [1 .. Len(Ordered) -> rows]
           /\ \A i \in 1 .. Len(Ordered) : Ordered[i].at \in Nat /\ Ordered[i].hash \in Writers
           /\ \A i, j \in 1 .. Len(Ordered) : i < j <=> Ordered[i].at < Ordered[j].at
           /\ \A r \in rows : \E i \in 1 .. Len(Ordered) : Ordered[i] = r
  <1>1. Ordered \in Listings
    BY DEF Listed, Ordered
  <1> HIDE DEF Ordered
  <1>2. /\ Len(Ordered) \in Nat /\ Ordered \in [1 .. Len(Ordered) -> rows]
        /\ \A i, j \in 1 .. Len(Ordered) : i # j => Ordered[i] # Ordered[j]
        /\ \A i, j \in 1 .. Len(Ordered) : i < j => Ordered[i].at <= Ordered[j].at
        /\ \A r \in rows : \E i \in 1 .. Len(Ordered) : Ordered[i] = r
    BY <1>1, ListingShape DEF Listed
  <1>3. \A r \in rows : r.at \in Nat /\ r.hash \in Writers
    BY DEF ChainInv, TypeOK, Row
  <1>4. \A r, q \in rows : r.at = q.at => r = q
    BY <1>3 DEF Stamped
  <1>5. \A i, j \in 1 .. Len(Ordered) : i # j => Ordered[i].at # Ordered[j].at
    BY <1>2, <1>4
  <1>6. \A i, j \in 1 .. Len(Ordered) : i < j => Ordered[i].at < Ordered[j].at
    BY <1>2, <1>3, <1>5
  <1>7. \A i, j \in 1 .. Len(Ordered) : Ordered[i].at < Ordered[j].at => i < j
    <2> SUFFICES ASSUME NEW i \in 1 .. Len(Ordered), NEW j \in 1 .. Len(Ordered), j <= i
                 PROVE  ~(Ordered[i].at < Ordered[j].at)
      BY <1>2
    <2>1. Ordered[i].at \in Nat /\ Ordered[j].at \in Nat
      BY <1>2, <1>3
    <2> QED BY <1>2, <1>6, <2>1
  <1> QED BY <1>2, <1>3, <1>6, <1>7

\* The full walk, without its anchor and its window.
LEMMA FullWalk ==
    ASSUME NEW s, Len(s) \in Nat
    PROVE  VerifyFull(s) <=> \A i \in 1 .. Len(s) :
               s[i].prev = (IF i = 1 THEN Zeros ELSE s[i - 1].hash) /\ Recomputes(s[i])
  BY DEF VerifyFull, VerifyOk, Anchor

LEMMA WalkFromAnywhere ==
    ASSUME NEW s, Len(s) \in Nat, VerifyFull(s), NEW n \in 0 .. Len(s)
    PROVE  VerifyOk(s, n)
  <1>1. CASE n = Len(s)
    BY <1>1 DEF VerifyFull
  <1>2. CASE n < Len(s)
    <2>1. Len(s) > n /\ Len(s) - n \in 1 .. Len(s)
      BY <1>2
    <2> SUFFICES ASSUME NEW i \in Len(s) - n + 1 .. Len(s)
                 PROVE  /\ s[i].prev = IF i = Len(s) - n + 1 THEN s[Len(s) - n].hash
                                                             ELSE s[i - 1].hash
                        /\ Recomputes(s[i])
      BY <2>1 DEF VerifyOk, Anchor
    <2>2. i \in 1 .. Len(s) /\ i # 1
      BY <2>1
    <2>3. s[i].prev = s[i - 1].hash /\ Recomputes(s[i])
      BY <2>2, FullWalk
    <2>4. i = Len(s) - n + 1 => i - 1 = Len(s) - n
      OBVIOUS
    <2> QED BY <2>3, <2>4
  <1> QED BY <1>1, <1>2

\* The position of a row in the sequence is its place in the chain: the row
\* before it is the newest of the older ones.
LEMMA PlaceInChain ==
    ASSUME ChainInv, Listed, Stamped, NEW i \in 1 .. Len(Ordered)
    PROVE  LinksInOrder(Ordered[i], {Zeros})
             <=> Ordered[i].prev = IF i = 1 THEN Zeros ELSE Ordered[i - 1].hash
  <1> DEFINE s == Ordered
  <1>1. /\ Len(s) \in Nat /\ s \in [1 .. Len(s) -> rows]
        /\ \A j \in 1 .. Len(s) : s[j].at \in Nat /\ s[j].hash \in Writers
        /\ \A j, k \in 1 .. Len(s) : j < k <=> s[j].at < s[k].at
        /\ \A r \in rows : \E j \in 1 .. Len(s) : s[j] = r
    BY OrderedShape
  <1> HIDE DEF s
  <1>2. SUFFICES LinksInOrder(s[i], {Zeros})
                   <=> s[i].prev = IF i = 1 THEN Zeros ELSE s[i - 1].hash
    BY DEF s
  <1>3. i \in 1 .. Len(s) /\ s[i] \in rows
    BY <1>1 DEF s
  <1>4. CASE i = 1
    <2>1. \A j \in 1 .. Len(s) : s[i].at <= s[j].at /\ ~(s[j].at < s[i].at)
      BY <1>1, <1>3, <1>4
    <2>2. \A q \in rows : s[i].at <= q.at /\ ~(q.at < s[i].at)
      BY <1>1, <2>1
    <2> QED BY <1>4, <2>2 DEF LinksInOrder
  <1>5. CASE i # 1
    <2>1. i - 1 \in 1 .. Len(s) /\ i - 1 < i
      BY <1>1, <1>3, <1>5
    <2>2. s[i - 1] \in rows /\ s[i - 1].at < s[i].at
      BY <1>1, <1>3, <2>1
    <2>3. ~(s[i].at <= s[i - 1].at)
      BY <1>1, <1>3, <2>1, <2>2
    <2>4. \A j \in 1 .. Len(s) : s[j].at < s[i].at => s[j].at <= s[i - 1].at
      <3> SUFFICES ASSUME NEW j \in 1 .. Len(s), s[j].at < s[i].at PROVE s[j].at <= s[i - 1].at
        OBVIOUS
      <3>1. j < i
        BY <1>1, <1>3
      <3>2. ~(i - 1 < j)
        BY <1>1, <1>3, <3>1
      <3> QED BY <1>1, <2>1, <3>2
    <2>5. \A x \in rows : x.at < s[i].at => x.at <= s[i - 1].at
      BY <1>1, <2>4
    <2>6. ASSUME NEW q \in rows, q.at < s[i].at, s[i - 1].at <= q.at PROVE q = s[i - 1]
      <3>1. PICK j \in 1 .. Len(s) : s[j] = q
        BY <1>1
      <3>2. j < i /\ ~(j < i - 1)
        BY <1>1, <1>3, <2>1, <2>6, <3>1
      <3>3. j = i - 1
        BY <1>1, <1>3, <3>2
      <3> QED BY <3>1, <3>3
    <2>7. LinksInOrder(s[i], {Zeros})
            <=> \E q \in rows : /\ q.hash = s[i].prev /\ q.at < s[i].at
                                /\ \A x \in rows : x.at < s[i].at => x.at <= q.at
      BY <2>2, <2>3 DEF LinksInOrder
    <2> QED BY <1>5, <2>2, <2>5, <2>6, <2>7
  <1> QED BY <1>4, <1>5

LEMMA Decides == ASSUME ChainInv, Listed, Stamped PROVE VerifierDecides
  <1>1. /\ Len(Ordered) \in Nat /\ Ordered \in [1 .. Len(Ordered) -> rows]
        /\ \A r \in rows : \E j \in 1 .. Len(Ordered) : Ordered[j] = r
    BY OrderedShape
  <1>2. VerifyFull(Ordered) <=> \A i \in 1 .. Len(Ordered) :
          /\ Ordered[i].prev = (IF i = 1 THEN Zeros ELSE Ordered[i - 1].hash)
          /\ Recomputes(Ordered[i])
    BY <1>1, FullWalk
  <1>3. VerifyFull(Ordered) <=> \A i \in 1 .. Len(Ordered) :
          LinksInOrder(Ordered[i], {Zeros}) /\ Recomputes(Ordered[i])
    BY <1>2, PlaceInChain
  <1>4. (\A i \in 1 .. Len(Ordered) : LinksInOrder(Ordered[i], {Zeros}) /\ Recomputes(Ordered[i]))
          <=> \A r \in rows : Recomputes(r) /\ LinksInOrder(r, {Zeros})
    BY <1>1
  <1> QED BY <1>3, <1>4 DEF VerifierDecides

\* In a log that verifies no two rows follow the same row.
LEMMA VerifiedIsUnforked ==
    ASSUME ChainInv, Listed, Stamped, VerifyFull(Ordered) PROVE NoFork
  <1> DEFINE s == Ordered
  <1>1. /\ Len(s) \in Nat /\ s \in [1 .. Len(s) -> rows]
        /\ \A j \in 1 .. Len(s) : s[j].at \in Nat /\ s[j].hash \in Writers
        /\ \A j, k \in 1 .. Len(s) : j < k <=> s[j].at < s[k].at
        /\ \A r \in rows : \E j \in 1 .. Len(s) : s[j] = r
    BY OrderedShape
  <1>2. \A i \in 1 .. Len(s) : s[i].prev = IF i = 1 THEN Zeros ELSE s[i - 1].hash
    BY <1>1, FullWalk
  <1> HIDE DEF s
  <1>3. ASSUME NEW i \in 1 .. Len(s), NEW j \in 1 .. Len(s), i < j PROVE s[i].prev # s[j].prev
    <2>1. j - 1 \in 1 .. Len(s) /\ s[j].prev = s[j - 1].hash /\ s[j - 1].hash \in Writers
      BY <1>1, <1>2, <1>3
    <2>2. CASE i = 1
      BY <1>2, <2>1, <2>2, WritersAssumption
    <2>3. CASE i # 1
      <3>1. i - 1 \in 1 .. Len(s) /\ s[i].prev = s[i - 1].hash /\ i - 1 < j - 1
        BY <1>1, <1>2, <1>3, <2>3
      <3>2. s[i - 1].at < s[j - 1].at
        BY <1>1, <2>1, <3>1
      <3>3. s[i - 1] # s[j - 1]
        BY <1>1, <2>1, <3>1, <3>2
      <3>4. s[i - 1].hash # s[j - 1].hash
        BY <1>1, <2>1, <3>1, <3>3 DEF Stamped
      <3> QED BY <2>1, <3>1, <3>4
    <2> QED BY <2>2, <2>3
  <1>4. ASSUME NEW r \in rows, NEW q \in rows, r.prev = q.prev PROVE r = q
    <2>1. PICK i \in 1 .. Len(s) : s[i] = r
      BY <1>1
    <2>2. PICK j \in 1 .. Len(s) : s[j] = q
      BY <1>1
    <2>3. i = j
      BY <1>1, <1>3, <1>4, <2>1, <2>2
    <2> QED BY <2>1, <2>2, <2>3
  <1> QED BY <1>4 DEF NoFork

\* The verifier says yes exactly to the logs that are one chain of genuine
\* rows, begun at the zeros.
THEOREM VerifierIsExact == Spec => []VerifierDecides
  BY LogAlways, Decides, PTL

\* A bounded verification never contradicts a full one.
THEOREM BoundedVerification == Spec => []WindowAgrees
  <1>1. ChainInv /\ Listed /\ Stamped => WindowAgrees
    BY OrderedShape, WalkFromAnywhere DEF WindowAgrees
  <1> QED BY <1>1, LogAlways, PTL

\* A log that verifies has no fork.
THEOREM VerifiedHasNoFork == Spec => [](VerifyFull(Ordered) => NoFork)
  BY LogAlways, VerifiedIsUnforked, PTL

\* The verifier raises no false alarm over the orderly writers: if only they
\* wrote, each row recomputes and none began at the empty string, the log
\* verifies in full.
THEOREM OrderlyLogVerifies ==
    Spec => []((\A r \in rows : r.kind \in Orderly /\ Recomputes(r) /\ r.prev # Empty)
                   => VerifyFull(Ordered))
  <1>1. ASSUME ChainInv, Listed, Stamped,
               \A r \in rows : r.kind \in Orderly /\ Recomputes(r) /\ r.prev # Empty
        PROVE  VerifyFull(Ordered)
    <2>1. \A r \in rows : LinksInOrder(r, {Zeros, Empty})
      BY <1>1 DEF ChainInv, OrderlyChain
    <2>2. \A r \in rows : LinksInOrder(r, {Zeros})
      BY <1>1, <2>1 DEF LinksInOrder
    <2> QED BY <1>1, <2>2, Decides DEF VerifierDecides
  <1> QED BY <1>1, LogAlways, PTL
=============================================================================
