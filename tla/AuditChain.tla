---------------------------- MODULE AuditChain ----------------------------
(***************************************************************************)
(* The audit log's hash chain: the table audit_logs, its five writers, and *)
(* the verifier.  AuditRepository::record reads the latest hash and        *)
(* inserts, in two statements and outside any transaction; the other four  *)
(* write inside a transaction under an advisory lock.  "record",           *)
(* "bootstrap" and "issue" take the row's timestamp long before they       *)
(* insert; "caInit" and "ceremony" take it once they hold the lock.        *)
(*                                                                         *)
(* SHA-256 is ideal: the hash of a row is the writer's name, and a         *)
(* recomputed hash is the stored one iff the inputs are the same.  Two     *)
(* readings of the clock are at least a microsecond apart.                 *)
(***************************************************************************)
EXTENDS Naturals, SequencesExt

CONSTANT Writers  \* one audited operation each; a bound on the rows

VARIABLES
    rows,    \* audit_logs, committed
    lock,    \* holders of AUDIT_CHAIN_LOCK_KEY: {} or one writer
    clock,   \* wall clock, in microseconds (the resolution of created_at)
    pc, kind, ts, exact, prev  \* per writer: where it is, what it holds

vars == <<rows, lock, clock, pc, kind, ts, exact, prev>>

TxKinds == {"caInit", "ceremony", "bootstrap", "issue"}
Kinds == TxKinds \cup {"record"}
Orderly == {"caInit", "ceremony"}
Zeros == "zeros"  \* 64 zeros, the hash the verifier starts from
Empty == "empty"  \* the empty string
Genesis(k) == IF k \in {"record", "caInit"} THEN Zeros ELSE Empty
Hashes == Writers \cup {Zeros, Empty}

\* SHA-256 returns neither root.
ASSUME WritersAssumption == Zeros \notin Writers /\ Empty \notin Writers

\* exact: Utc::now() had no part below the microsecond, so that what TIMESTAMPTZ
\* returns is what was hashed.  sameId: the row's id is the id that was hashed.
Row == [hash : Writers, prev : Hashes, at : Nat, kind : Kinds,
        exact : BOOLEAN, sameId : BOOLEAN]

-----------------------------------------------------------------------------
Init ==
    /\ rows = {} /\ lock = {} /\ clock = 0
    /\ pc = [w \in Writers |-> "idle"]
    /\ kind = [w \in Writers |-> "record"]
    /\ ts = [w \in Writers |-> 0]
    /\ exact = [w \in Writers |-> TRUE]
    /\ prev = [w \in Writers |-> Zeros]

\* Utc::now()
Now(w) ==
    /\ clock' = clock + 1
    /\ ts' = [ts EXCEPT ![w] = clock + 1]
    /\ \E e \in BOOLEAN : exact' = [exact EXCEPT ![w] = e]

\* Mutant of LatestHash: the hash computed last is remembered, committed or not.
LatestHashCached(k) ==
    IF \E w \in Writers : pc[w] = "ready" THEN CHOOSE w \in Writers : pc[w] = "ready"
    ELSE IF rows = {} THEN Genesis(k)
    ELSE (CHOOSE r \in rows : \A q \in rows : q.at <= r.at).hash

\* latest_hash: ORDER BY created_at DESC LIMIT 1, among the committed rows.
LatestHash(k) ==
    IF rows = {} THEN Genesis(k)
    ELSE (CHOOSE r \in rows : \A q \in rows : q.at <= r.at).hash

\* An operation that will be audited starts.
Begin(w) ==
    /\ pc[w] = "idle"
    /\ pc' = [pc EXCEPT ![w] = "begun"]
    /\ \E k \in Kinds :
         /\ kind' = [kind EXCEPT ![w] = k]
         /\ \/ k \notin Orderly /\ Now(w)
            \/ k \in Orderly /\ UNCHANGED <<clock, ts, exact>>
    /\ UNCHANGED <<rows, lock, prev>>

\* lock_audit_chain_tx: pg_advisory_xact_lock waits for the holder to end.
LockChain(w) ==
    /\ pc[w] = "begun" /\ kind[w] \in TxKinds /\ lock = {}
    /\ lock' = {w}
    /\ pc' = [pc EXCEPT ![w] = "locked"]
    /\ UNCHANGED <<rows, clock, kind, ts, exact, prev>>

\* Mutant of ReadLatest: the timestamp of caInit and ceremony is the one of
\* their begin, as in the other writers.
ReadLatestStale(w) ==
    /\ \/ pc[w] = "begun" /\ kind[w] = "record"
       \/ pc[w] = "locked"
    /\ prev' = [prev EXCEPT ![w] = LatestHash(kind[w])]
    /\ pc' = [pc EXCEPT ![w] = "ready"]
    /\ UNCHANGED <<rows, lock, kind, clock, ts, exact>>

\* latest_hash and latest_hash_tx, and the clock of the orderly writers.
ReadLatest(w) ==
    /\ \/ pc[w] = "begun" /\ kind[w] = "record" /\ UNCHANGED <<clock, ts, exact>>
       \/ pc[w] = "locked" /\ kind[w] \in Orderly /\ Now(w)
       \/ pc[w] = "locked" /\ kind[w] \notin Orderly /\ UNCHANGED <<clock, ts, exact>>
    /\ prev' = [prev EXCEPT ![w] = LatestHash(kind[w])]
    /\ pc' = [pc EXCEPT ![w] = "ready"]
    /\ UNCHANGED <<rows, lock, kind>>

RowOf(w) == [hash |-> w, prev |-> prev[w], at |-> ts[w], kind |-> kind[w],
             exact |-> exact[w], sameId |-> kind[w] # "issue"]

\* insert; or insert_tx and the COMMIT that shows the row and frees the lock.
AppendRow(w) ==
    /\ pc[w] = "ready"
    /\ rows' = rows \cup {RowOf(w)}
    /\ lock' = lock \ {w}
    /\ pc' = [pc EXCEPT ![w] = "done"]
    /\ UNCHANGED <<clock, kind, ts, exact, prev>>

\* Mutant of Abort: the session keeps the lock.
AbortKeepsLock(w) ==
    /\ pc[w] \in {"begun", "locked", "ready"}
    /\ pc' = [pc EXCEPT ![w] = "failed"]
    /\ UNCHANGED <<rows, lock, clock, kind, ts, exact, prev>>

\* A statement or the COMMIT fails, or the process dies: the transaction is
\* rolled back and its lock is freed; a pool statement leaves nothing.
Abort(w) ==
    /\ pc[w] \in {"begun", "locked", "ready"}
    /\ lock' = lock \ {w}
    /\ pc' = [pc EXCEPT ![w] = "failed"]
    /\ UNCHANGED <<rows, clock, kind, ts, exact, prev>>

Next ==
    \E w \in Writers :
        Begin(w) \/ LockChain(w) \/ ReadLatest(w) \/ AppendRow(w) \/ Abort(w)

Spec == Init /\ [][Next]_vars

\* A request is driven to its end by its task, and the advisory lock is granted
\* in order; failures are never owed.
Fairness == \A w \in Writers :
    WF_vars(LockChain(w)) /\ WF_vars(ReadLatest(w)) /\ WF_vars(AppendRow(w))
FairSpec == Spec /\ Fairness

-----------------------------------------------------------------------------
(* verify_audit_handler.                                                     *)

\* list_recent(full): ORDER BY created_at ASC.
Listings == {s \in SetToSeqs(rows) : \A i, j \in DOMAIN s : i < j => s[i].at <= s[j].at}
Ordered == CHOOSE s \in Listings : TRUE
Recomputes(r) == r.exact /\ r.sameId

\* Mutant of Anchor: the anchor is the first row of the window itself.
AnchorInside(log, limit) ==
    IF Len(log) > limit THEN log[Len(log) - limit + 1].hash ELSE Zeros

\* The hash the walk over the last `limit` rows starts from: list_recent gets
\* one row more, which is skipped; a log that is short enough starts at zero.
Anchor(log, limit) == IF Len(log) > limit THEN log[Len(log) - limit].hash ELSE Zeros

\* Mutant of VerifyOk: the first row of the walk is not linked to anything.
VerifyUnanchored(log, limit) ==
    LET from == IF Len(log) > limit THEN Len(log) - limit + 1 ELSE 1 IN
    \A i \in from .. Len(log) :
        (i = from \/ log[i].prev = log[i - 1].hash) /\ Recomputes(log[i])

\* The walk stops at the first row that does not link or does not recompute.
VerifyOk(log, limit) ==
    LET from == IF Len(log) > limit THEN Len(log) - limit + 1 ELSE 1 IN
    \A i \in from .. Len(log) :
        /\ log[i].prev = IF i = from THEN Anchor(log, limit) ELSE log[i - 1].hash
        /\ Recomputes(log[i])
VerifyFull(log) == VerifyOk(log, Len(log))

-----------------------------------------------------------------------------
\* Every variable has its type.
TypeOK ==
    /\ rows \subseteq Row /\ lock \subseteq Writers /\ clock \in Nat
    /\ pc \in [Writers -> {"idle", "begun", "locked", "ready", "done", "failed"}]
    /\ kind \in [Writers -> Kinds] /\ ts \in [Writers -> Nat]
    /\ exact \in [Writers -> BOOLEAN] /\ prev \in [Writers -> Hashes]

\* The advisory lock: a transaction between its lock and its end holds it, so
\* at most one writer of the four is there.
ChainLocked ==
    \A w \in Writers :
        pc[w] \in {"locked", "ready"} /\ kind[w] \in TxKinds => lock = {w}

\* Every row follows a row that was committed before it: a transaction that is
\* rolled back after its hash was computed leaves no link to nothing, whoever
\* read in between.  (The rows committed before r are all there still.)
NoDanglingPrev ==
    \A r \in rows :
        r.prev \in {Zeros, Empty} \/ \E q \in rows \ {r} : q.hash = r.prev

\* The row r follows the newest of the rows older than it; the oldest starts
\* from one of the roots.
LinksInOrder(r, roots) ==
    \/ r.prev \in roots /\ \A q \in rows : r.at <= q.at
    \/ \E q \in rows : /\ q.hash = r.prev /\ q.at < r.at
                       /\ \A x \in rows : x.at < r.at => x.at <= q.at

\* As long as only the writers that take lock, latest hash and timestamp in
\* this order have written, the log is one chain in the order the verifier
\* reads it in, however they and everyone else interleave or fail.
OrderlyChain == (\A r \in rows : r.kind \in Orderly) =>
    \A r \in rows : LinksInOrder(r, {Zeros, Empty})

\* What the verifier's answer means.  Its walk, row by row with a running hash,
\* finds no violation exactly when the rows recompute and are one chain in the
\* order of their timestamps, begun at the 64 zeros: not after a fork, a link
\* that skips a row, or an oldest row whose writer began at the empty string.
VerifierDecides ==
    VerifyFull(Ordered) <=> \A r \in rows : Recomputes(r) /\ LinksInOrder(r, {Zeros})

\* A log that verifies in full verifies from every anchor: a bounded check
\* never reports a violation the full one does not.
WindowAgrees ==
    VerifyFull(Ordered) => \A n \in 0 .. Len(Ordered) : VerifyOk(Ordered, n)

\* Whoever waits for the chain's lock gets it: each write ends or fails.
EveryWriteEnds == \A w \in Writers : pc[w] = "begun" ~> pc[w] \in {"done", "failed"}

\* 002_audit_chain.sql:2: "Upgrades audit_logs to a cryptographic hash chain":
\* no two rows follow the same row.
NoFork == \A r, q \in rows : r.prev = q.prev => r = q

=============================================================================
