---------------------------- MODULE RequestGate ----------------------------
(***************************************************************************)
(* What a request passes on its way to a handler of kms-service: the rate   *)
(* limiter (redis_rate_limit_middleware), then the signature, the clock and *)
(* the nonce (hmac_security_middleware).  The module looks at the requests  *)
(* of one path from one address, hence at one bucket of the limiter.  State *)
(* is kept in the process, or in Redis when settings.redis.enabled.         *)
(*                                                                         *)
(* Time is counted in ticks, Sub of them to a second, and passes between    *)
(* any two steps of a request.  A table of the process is behind a Mutex,   *)
(* and the Instant it is used with was taken before the lock: a thread that *)
(* had to wait comes with an old one.                                       *)
(***************************************************************************)
EXTENDS Integers, Sequences, FiniteSets

CONSTANTS
    Conns,      \* requests in flight
    Nonces,     \* values of service : nonce
    Stamps,     \* values of X-Timestamp, in seconds
    Sub,        \* ticks of a second
    MaxSkew,    \* MAX_CLOCK_SKEW_SECONDS
    NonceTtl,   \* MAX_NONCE_TTL_SECONDS
    Limit,      \* burst of the tier
    Window,     \* window_sec of the tier
    MaxNow,     \* bound: ticks of the clock
    MaxAdmits,  \* bound: requests past the limiter
    MaxCount    \* bound: value of the counter in Redis

ASSUME TimesAssumption ==
    /\ Stamps \subseteq Int /\ Sub \in Nat \ {0} /\ MaxSkew \in Nat
    /\ NonceTtl \in Nat \ {0} /\ Window \in Nat \ {0}
ASSUME LimitAssumption == Limit \in Nat \ {0}
ASSUME BoundsAssumption == MaxNow \in Nat /\ MaxAdmits \in Nat /\ MaxCount \in Nat

VARIABLES
    now,      \* the clock
    backend,  \* "memory" or "redis"
    pc, req,  \* per request: stage; what it carries
    at,       \* per request: the Instant it took
    used,     \* the nonce store: the Instant a key was inserted with, or Never
    last,     \* history: that of the last request accepted with this key
    admits,   \* history: the requests past the limiter, their Instant and when
    bucket,   \* InMemoryRateLimiter: the entries, as positions in admits
    counter   \* Redis: the counter's value and end, and admits at its start

nonceStore == <<used, last>>
limiter == <<admits, bucket, counter>>
vars == <<now, backend, pc, req, at, nonceStore, limiter>>

Never == -1
\* hmac:nonce:<service>:<nonce>:<timestamp>
Keys == Nonces \X Stamps
\* "signed" carries a good signature for its key, "public" asks a public
\* endpoint, "bad" lacks a header, a known service or a good signature.
Request == [kind : {"signed", "public", "bad"}, key : Keys]

NoRequest == [kind |-> "none"]
NoCounter == [count |-> 0, until |-> 0, base |-> 0]

Init ==
    /\ now = 0 /\ backend \in {"memory", "redis"}
    /\ pc = [c \in Conns |-> "idle"] /\ req = [c \in Conns |-> NoRequest]
    /\ at = [c \in Conns |-> 0]
    /\ used = [k \in Keys |-> Never] /\ last = [k \in Keys |-> Never]
    /\ admits = << >> /\ bucket = {} /\ counter = NoCounter

-----------------------------------------------------------------------------
\* An Instant is used once, in the step after the one that takes it.
Goto(c, stage) ==
    pc' = [pc EXCEPT ![c] = stage] /\ at' = [at EXCEPT ![c] = 0] /\ UNCHANGED req
\* The response is on its way, and the request is forgotten.
Respond(c) ==
    /\ pc' = [pc EXCEPT ![c] = "idle"] /\ req' = [req EXCEPT ![c] = NoRequest]
    /\ at' = [at EXCEPT ![c] = 0]

Tick ==
    /\ now < MaxNow /\ now' = now + 1
    /\ UNCHANGED <<backend, pc, req, at, nonceStore, limiter>>

\* A request comes in; a copy of one that came before is nothing special.
Arrive(c) ==
    /\ pc[c] = "idle"
    /\ \E q \in Request : req' = [req EXCEPT ![c] = q]
    /\ pc' = [pc EXCEPT ![c] = "limit"]
    /\ UNCHANGED <<now, backend, at, nonceStore, limiter>>

\* Past the limiter, into the HMAC middleware; or 429.
Admit(c, instant) ==
    admits' = Append(admits, [at |-> instant, in |-> now]) /\ Goto(c, "hmac")
TooMany(c) == Respond(c) /\ UNCHANGED admits

\* Instant::now(), before the lock of the table that is looked at next.
ReadClock(c) ==
    /\ backend = "memory"
    /\ \/ pc[c] = "limit" /\ pc' = [pc EXCEPT ![c] = "bucket"]
       \/ pc[c] = "nonce" /\ pc' = [pc EXCEPT ![c] = "used"]
    /\ at' = [at EXCEPT ![c] = now]
    /\ UNCHANGED <<now, backend, req, nonceStore, limiter>>

\* Mutant of Recent: an entry of exactly the window's age is gone.
RecentOpen(instant, window) == {i \in bucket : instant - admits[i].at < window}

\* entries.retain(..): what is not older than the window (an entry later than
\* the instant has age 0).
Recent(instant, window) == {i \in bucket : instant - admits[i].at <= window}

\* InMemoryRateLimiter::check, the lock held.
LimitMemory(c) ==
    /\ pc[c] = "bucket" /\ backend = "memory" /\ Len(admits) < MaxAdmits
    /\ LET entries == Recent(at[c], Window * Sub) IN
         IF Cardinality(entries) < Limit
           THEN Admit(c, at[c]) /\ bucket' = entries \cup {Len(admits) + 1}
           ELSE TooMany(c) /\ bucket' = entries
    /\ UNCHANGED <<now, backend, nonceStore, counter>>

\* redis_rate_limit.lua: INCR, and EXPIRE when the counter is new.
Script ==
    IF counter.count > 0 /\ now < counter.until
      THEN [counter EXCEPT !.count = @ + 1]
      ELSE [count |-> 1, until |-> now + Window * Sub, base |-> Len(admits)]

\* The script runs and its result comes back: EVALSHA, or EVAL after an
\* EVALSHA that failed.
LimitRedis(c) ==
    /\ pc[c] \in {"limit", "eval"} /\ backend = "redis"
    /\ Len(admits) < MaxAdmits /\ Script.count <= MaxCount
    /\ counter' = Script
    /\ IF Script.count <= Limit THEN Admit(c, now) ELSE TooMany(c)
    /\ UNCHANGED <<now, backend, nonceStore, bucket>>

\* EVALSHA or EVAL fails, with the script run or not: EVALSHA is followed by
\* EVAL, EVAL by status 500.
RedisError(c) ==
    /\ pc[c] \in {"limit", "eval"} /\ backend = "redis" /\ Script.count <= MaxCount
    /\ counter' \in {counter, Script}
    /\ IF pc[c] = "limit" THEN Goto(c, "eval") ELSE Respond(c)
    /\ UNCHANGED <<now, backend, nonceStore, admits, bucket>>

\* A public endpoint is not asked for a signature.
Public(c) ==
    /\ pc[c] = "hmac" /\ req[c].kind = "public"
    /\ Goto(c, "handler")
    /\ UNCHANGED <<now, backend, nonceStore, limiter>>

\* The difference of the clocks, in whole seconds, with the rest cut off.
Skew(stamp) ==
    LET d == now - stamp * Sub IN (IF d < 0 THEN -d ELSE d) \div Sub

\* The timestamp is near enough and the signature good.
Verify(c) ==
    /\ pc[c] = "hmac" /\ req[c].kind = "signed" /\ Skew(req[c].key[2]) <= MaxSkew
    /\ Goto(c, "nonce")
    /\ UNCHANGED <<now, backend, nonceStore, limiter>>

Unauthorized(c) ==
    /\ pc[c] = "hmac"
    /\ \/ req[c].kind = "bad"
       \/ req[c].kind = "signed" /\ Skew(req[c].key[2]) > MaxSkew
    /\ Respond(c)
    /\ UNCHANGED <<now, backend, nonceStore, limiter>>

\* Mutant of Fresh: a nonce is kept for less than its lifetime.
FreshOpen(inserted, instant) == inserted # Never /\ instant - inserted < NonceTtl * Sub

\* used.retain(..): what is not older than the lifetime.
Fresh(inserted, instant) == inserted # Never /\ instant - inserted <= NonceTtl * Sub

\* The request is accepted, its key in the store as of instant.
Accept(c, store, instant) ==
    /\ used' = [store EXCEPT ![req[c].key] = instant]
    /\ last' = [last EXCEPT ![req[c].key] = instant]
    /\ Goto(c, "handler")

\* InMemoryNonceStore::mark_used, the lock held.
MarkUsedMemory(c) ==
    /\ pc[c] = "used" /\ backend = "memory"
    /\ LET kept == [k \in Keys |-> IF Fresh(used[k], at[c]) THEN used[k] ELSE Never] IN
         IF kept[req[c].key] # Never
           THEN Respond(c) /\ used' = kept /\ UNCHANGED last
           ELSE Accept(c, kept, at[c])
    /\ UNCHANGED <<now, backend, limiter>>

\* SET key NX EX ttl: the key is there until its lifetime is over.
InRedis(key) == used[key] # Never /\ now - used[key] < NonceTtl * Sub

\* RedisNonceStore::mark_used
MarkUsedRedis(c) ==
    /\ pc[c] = "nonce" /\ backend = "redis"
    /\ IF InRedis(req[c].key) THEN Respond(c) /\ UNCHANGED nonceStore ELSE Accept(c, used, now)
    /\ UNCHANGED <<now, backend, limiter>>

\* Redis does not answer, with the key set or not: unwrap_or(false) refuses.
MarkUsedError(c) ==
    /\ pc[c] = "nonce" /\ backend = "redis"
    /\ \/ UNCHANGED used
       \/ ~InRedis(req[c].key) /\ used' = [used EXCEPT ![req[c].key] = now]
    /\ Respond(c)
    /\ UNCHANGED <<now, backend, last, limiter>>

\* The handler is done, or the connection is closed before.
Finish(c) ==
    /\ pc[c] # "idle"
    /\ Respond(c)
    /\ UNCHANGED <<now, backend, nonceStore, limiter>>

\* A new process: its tables are empty, and their histories begin again.
\* What is in Redis stays.
Restart ==
    /\ pc' = [c \in Conns |-> "idle"] /\ req' = [c \in Conns |-> NoRequest]
    /\ at' = [c \in Conns |-> 0]
    /\ IF backend = "memory"
         THEN /\ used' = [k \in Keys |-> Never] /\ last' = [k \in Keys |-> Never]
              /\ bucket' = {} /\ admits' = << >>
         ELSE UNCHANGED <<nonceStore, admits, bucket>>
    /\ UNCHANGED <<now, backend, counter>>

Serve(c) ==
    \/ Arrive(c) \/ ReadClock(c) \/ LimitMemory(c) \/ LimitRedis(c) \/ RedisError(c)
    \/ Public(c) \/ Verify(c) \/ Unauthorized(c)
    \/ MarkUsedMemory(c) \/ MarkUsedRedis(c) \/ MarkUsedError(c) \/ Finish(c)

Next == Tick \/ Restart \/ \E c \in Conns : Serve(c)

Spec == Init /\ [][Next]_vars

-----------------------------------------------------------------------------
Stages == {"idle", "limit", "eval", "bucket", "hmac", "nonce", "used", "handler"}
Instant == Nat \cup {Never}

\* The values the variables take.
TypeOK ==
    /\ now \in Nat /\ backend \in {"memory", "redis"}
    /\ pc \in [Conns -> Stages] /\ req \in [Conns -> Request \cup {NoRequest}]
    /\ \A c \in Conns : pc[c] # "idle" => req[c] \in Request
    /\ at \in [Conns -> Nat]
    /\ used \in [Keys -> Instant] /\ last \in [Keys -> Instant]
    /\ admits \in Seq([at : Nat, in : Nat]) /\ bucket \subseteq 1 .. Len(admits)
    /\ counter \in [count : Nat, until : Nat, base : Nat]

\* A copy of a signed request (the same nonce under the same timestamp) gets
\* to a handler only when the lifetime is over since the Instant the one
\* before was entered with, however many copies come at once and however
\* long they wait for the lock; with Redis also across restarts of the
\* service.  Another timestamp makes another key (see NonceUnique).
NonceSpent ==
    [][\A k \in Keys :
         last[k] # Never /\ last'[k] \notin {last[k], Never} =>
           IF backend = "memory" THEN now - last[k] > NonceTtl * Sub
                                 ELSE now - last[k] >= NonceTtl * Sub]_vars

\* However requests bunch together and wait for the lock: when one passes,
\* fewer than Limit of those before it had looked at the clock within the
\* window that ends now.  In Redis, no life of the counter has more than
\* Limit pass, also when the service is restarted meanwhile.
WindowLimit ==
    IF backend = "memory"
      THEN \A j \in 1 .. Len(admits) :
             Cardinality({i \in 1 .. j - 1 : admits[j].in - admits[i].at <= Window * Sub})
               < Limit
      ELSE Len(admits) - counter.base <= Limit

\* What docs/API.md says of X-Nonce: one service does not use a nonce twice
\* within the lifetime.  The key holds the timestamp too (security.rs:199).
NonceUnique ==
    \A j, k \in Keys :
      j # k /\ j[1] = k[1] /\ last[j] # Never /\ last[k] # Never =>
        last[j] - last[k] > NonceTtl * Sub \/ last[k] - last[j] > NonceTtl * Sub
=============================================================================
