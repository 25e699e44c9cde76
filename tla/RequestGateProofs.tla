------------------------- MODULE RequestGateProofs -------------------------
(***************************************************************************)
(* Proofs about RequestGate, for any limit, window, lifetime and resolution *)
(* of the clock, and any number of requests in flight.                      *)
(*                                                                         *)
(* An Instant is never later than the clock, so that whoever drops an entry *)
(* or a nonce, with however old an Instant, drops what is older than the    *)
(* window or the lifetime by the clock as well.  Hence a request admitted   *)
(* too early would find Limit requests before it still among the entries,   *)
(* and a nonce accepted within the lifetime is still in the store.  The     *)
(* limiter in Redis: the counter is never behind the requests it let pass.  *)
(***************************************************************************)
EXTENDS RequestGate, FiniteSetTheorems, TLAPS

W == Window * Sub
T == NonceTtl * Sub

LEMMA Durations == W \in Nat /\ T \in Nat
  BY TimesAssumption DEF W, T

\* No Instant is ahead of the clock.
InstantsGood == \A c \in Conns : at[c] <= now

\* The limiter in the process.
Complete == \A i \in 1 .. Len(admits) : now - admits[i].at <= W => i \in bucket
Before(s, j) == {i \in 1 .. j - 1 : s[j].in - s[i].at <= W}
Spaced == \A j \in 1 .. Len(admits) : Cardinality(Before(admits, j)) < Limit
MemoryGood == Complete /\ Spaced

\* The limiter in Redis.
RedisGood ==
    /\ counter.base <= Len(admits)
    /\ Len(admits) - counter.base <= counter.count
    /\ Len(admits) - counter.base <= Limit

LimiterGood == IF backend = "memory" THEN MemoryGood ELSE RedisGood

\* The nonces.
NoncesGood ==
    \A k \in Keys : last[k] # Never =>
      /\ last[k] <= now
      /\ now - last[k] < T \/ (backend = "memory" /\ now - last[k] <= T)
           => used[k] = last[k]

Inv == TypeOK /\ InstantsGood /\ LimiterGood /\ NoncesGood

LEMMA InitInv == Init => Inv
  <1> SUFFICES ASSUME Init PROVE Inv
    OBVIOUS
  <1>1. TypeOK
    BY DEF Init, TypeOK, NoCounter, Stages, Instant
  <1>2. LimiterGood
    BY LimitAssumption DEF Init, LimiterGood, MemoryGood, RedisGood, Complete, Spaced, NoCounter
  <1>3. InstantsGood /\ NoncesGood
    BY DEF Init, InstantsGood, NoncesGood
  <1> QED BY <1>1, <1>2, <1>3 DEF Inv

-----------------------------------------------------------------------------
\* A request moves and keeps its kind, or ends; its Instant is used up.
LEMMA MoveType ==
    ASSUME TypeOK, InstantsGood, NEW c \in Conns, NEW stage \in Stages, pc[c] # "idle",
           Goto(c, stage) \/ Respond(c), now' = now
    PROVE  /\ pc' \in [Conns -> Stages] /\ req' \in [Conns -> Request \cup {NoRequest}]
           /\ \A d \in Conns : pc'[d] # "idle" => req'[d] \in Request
           /\ at' \in [Conns -> Nat] /\ InstantsGood'
  <1>1. /\ pc' \in [Conns -> Stages] /\ req' \in [Conns -> Request \cup {NoRequest}]
        /\ \A d \in Conns : pc'[d] # "idle" => req'[d] \in Request
    BY DEF TypeOK, Goto, Respond, Stages
  <1>2. at' \in [Conns -> Nat] /\ \A d \in Conns : at'[d] \in {0, at[d]}
    BY DEF TypeOK, Goto, Respond
  <1>3. now \in Nat
    BY DEF TypeOK
  <1> QED BY <1>1, <1>2, <1>3 DEF InstantsGood

\* What an entry of the history holds.
LEMMA EntryType ==
    ASSUME TypeOK, NEW i \in 1 .. Len(admits)
    PROVE  admits[i].at \in Nat /\ admits[i].in \in Nat
  <1> DEFINE Entry == [at : Nat, in : Nat]
  <1>1. admits \in Seq(Entry)
    BY DEF TypeOK
  <1>2. admits[i] \in Entry
    <2> HIDE DEF Entry
    <2> QED BY <1>1
  <1> QED BY <1>2

\* The clock runs: entries and nonces only get older.
LEMMA TickInv == ASSUME Inv, Tick PROVE Inv'
  <1>0. /\ TypeOK /\ InstantsGood /\ LimiterGood /\ NoncesGood /\ now' = now + 1 /\ now \in Nat
        /\ UNCHANGED <<backend, pc, req, at, used, last, admits, bucket, counter>>
    BY DEF Inv, Tick, nonceStore, limiter, TypeOK
  <1>1. TypeOK'
    BY <1>0 DEF TypeOK
  <1>2. LimiterGood'
    <2>1. CASE backend = "memory"
      <3>1. MemoryGood /\ \A i \in 1 .. Len(admits) : admits[i].at \in Nat
        BY <1>0, <2>1, EntryType DEF LimiterGood
      <3>2. Complete'
        BY <1>0, <3>1, Durations DEF MemoryGood, Complete, W
      <3> QED BY <1>0, <2>1, <3>1, <3>2 DEF LimiterGood, MemoryGood, Spaced, Before, W
    <2>2. CASE backend # "memory"
      BY <1>0, <2>2 DEF LimiterGood, RedisGood
    <2> QED BY <2>1, <2>2
  <1>3. NoncesGood'
    <2> SUFFICES ASSUME NEW k \in Keys, last[k] # Never
                 PROVE  /\ last[k] <= now'
                        /\ now' - last[k] < T \/ (backend = "memory" /\ now' - last[k] <= T)
                             => used[k] = last[k]
      BY <1>0 DEF NoncesGood, T
    <2>1. last[k] \in Nat
      BY <1>0 DEF TypeOK, Instant
    <2> QED BY <1>0, <2>1, Durations DEF NoncesGood
  <1>4. InstantsGood'
    BY <1>0 DEF InstantsGood, TypeOK
  <1> QED BY <1>1, <1>2, <1>3, <1>4 DEF Inv

LEMMA RestartInv == ASSUME Inv, Restart PROVE Inv'
  <1>0. TypeOK /\ LimiterGood /\ NoncesGood
    BY DEF Inv
  <1>1. /\ now' \in Nat /\ backend' \in {"memory", "redis"}
        /\ pc' \in [Conns -> Stages] /\ req' \in [Conns -> Request \cup {NoRequest}]
        /\ \A c \in Conns : pc'[c] = "idle"
        /\ at' \in [Conns -> Nat] /\ \A c \in Conns : at'[c] = 0
        /\ counter' \in [count : Nat, until : Nat, base : Nat]
    BY <1>0 DEF TypeOK, Restart, Stages
  <1>2. InstantsGood'
    BY <1>1 DEF InstantsGood
  <1>3. CASE backend = "memory"
    <2>1. /\ used' = [k \in Keys |-> Never] /\ last' = [k \in Keys |-> Never]
          /\ bucket' = {} /\ admits' = << >> /\ backend' = backend
      BY <1>3 DEF Restart
    <2>2. TypeOK'
      BY <1>1, <2>1 DEF TypeOK, Instant
    <2>3. LimiterGood' /\ NoncesGood'
      BY <1>3, <2>1 DEF LimiterGood, MemoryGood, Complete, Spaced, NoncesGood
    <2> QED BY <1>2, <2>2, <2>3 DEF Inv
  <1>4. CASE backend # "memory"
    <2>1. UNCHANGED <<now, backend, used, last, admits, bucket, counter>>
      BY <1>4 DEF Restart, nonceStore
    <2>2. TypeOK'
      BY <1>0, <1>1, <2>1 DEF TypeOK
    <2>3. LimiterGood' /\ NoncesGood'
      BY <1>0, <1>4, <2>1 DEF LimiterGood, RedisGood, NoncesGood, T
    <2> QED BY <1>2, <2>2, <2>3 DEF Inv
  <1> QED BY <1>3, <1>4

-----------------------------------------------------------------------------
\* What LimitMemory keeps and adds.
LEMMA LimitMemoryInv == ASSUME Inv, NEW c \in Conns, LimitMemory(c) PROVE Inv'
  <1> DEFINE L == Len(admits)
             entries == Recent(at[c], W)
             entry == [at |-> at[c], in |-> now]
  <1>0. /\ TypeOK /\ InstantsGood /\ MemoryGood /\ NoncesGood
        /\ pc[c] # "idle" /\ backend = "memory"
        /\ UNCHANGED <<now, backend, used, last, counter>>
    BY DEF Inv, LimitMemory, LimiterGood, nonceStore
  <1>1. /\ now \in Nat /\ L \in Nat /\ at[c] \in Nat /\ at[c] <= now
        /\ \A i \in 1 .. L : admits[i].at \in Nat /\ admits[i].in \in Nat
        /\ entries \subseteq 1 .. L /\ Limit \in Nat /\ Limit > 0
    <2>1. /\ now \in Nat /\ L \in Nat /\ at[c] \in Nat /\ at[c] <= now
          /\ \A i \in 1 .. L : admits[i].at \in Nat /\ admits[i].in \in Nat
      <3>1. now \in Nat /\ L \in Nat /\ at[c] \in Nat /\ at[c] <= now
        BY <1>0 DEF TypeOK, InstantsGood
      <3> QED BY <1>0, <3>1, EntryType
    <2>2. entries \subseteq 1 .. L
      BY <1>0 DEF TypeOK, Recent
    <2> QED BY <2>1, <2>2, LimitAssumption
  <1>2. \A i \in 1 .. L : now - admits[i].at <= W => i \in entries
    BY <1>0, <1>1, Durations DEF MemoryGood, Complete, Recent
  <1>3. \/ /\ Cardinality(entries) < Limit /\ admits' = Append(admits, entry)
           /\ Goto(c, "hmac") /\ bucket' = entries \cup {L + 1}
        \/ Respond(c) /\ admits' = admits /\ bucket' = entries
    BY DEF LimitMemory, Admit, TooMany, W
  <1>4. /\ pc' \in [Conns -> Stages] /\ req' \in [Conns -> Request \cup {NoRequest}]
        /\ \A d \in Conns : pc'[d] # "idle" => req'[d] \in Request
        /\ at' \in [Conns -> Nat] /\ InstantsGood'
    BY <1>0, <1>3, MoveType DEF Stages
  <1>5. NoncesGood'
    BY <1>0 DEF NoncesGood, T
  <1> HIDE DEF entries
  <1>6. CASE Respond(c) /\ admits' = admits /\ bucket' = entries
    <2>1. TypeOK'
      BY <1>0, <1>1, <1>4, <1>6 DEF TypeOK
    <2>2. MemoryGood'
      BY <1>0, <1>2, <1>6 DEF MemoryGood, Complete, Spaced, Before, W
    <2> QED BY <1>0, <1>4, <1>5, <2>1, <2>2 DEF Inv, LimiterGood
  <1>7. CASE /\ Cardinality(entries) < Limit /\ admits' = Append(admits, entry)
             /\ Goto(c, "hmac") /\ bucket' = entries \cup {L + 1}
    <2>0. /\ Len(admits') = L + 1 /\ admits'[L + 1] = entry
          /\ admits' \in Seq([at : Nat, in : Nat])
          /\ \A i \in 1 .. L : admits'[i] = admits[i]
      BY <1>0, <1>1, <1>7 DEF TypeOK
    <2>1. TypeOK'
      <3>2. bucket' \subseteq 1 .. Len(admits')
        <4>1. 1 .. L \subseteq 1 .. L + 1 /\ L + 1 \in 1 .. L + 1
          BY <1>1
        <4> QED BY <1>1, <1>7, <2>0, <4>1
      <3> QED BY <1>0, <1>4, <2>0, <3>2 DEF TypeOK
    <2>2. Complete'
      BY <1>0, <1>1, <1>2, <1>7, <2>0 DEF Complete, W
    <2>3. Cardinality(Before(admits', L + 1)) < Limit
      <3>1. Before(admits', L + 1) \subseteq entries
        <4> SUFFICES ASSUME NEW i \in 1 .. L, admits'[L + 1].in - admits'[i].at <= W
                     PROVE  i \in entries
          BY <1>1 DEF Before
        <4>1. admits'[L + 1].in = now /\ admits'[i].at = admits[i].at
          BY <2>0
        <4> QED BY <1>2, <4>1
      <3>2. IsFiniteSet(entries)
        <4>1. IsFiniteSet(1 .. L)
          BY <1>1, FS_Interval
        <4> QED BY <1>1, <4>1, FS_Subset
      <3>3. /\ Cardinality(Before(admits', L + 1)) <= Cardinality(entries)
            /\ Cardinality(entries) \in Nat /\ Cardinality(Before(admits', L + 1)) \in Nat
        BY <3>1, <3>2, FS_Subset, FS_CardinalityType
      <3> QED BY <1>1, <1>7, <3>3
    <2>4. ASSUME NEW j \in 1 .. L PROVE Before(admits', j) = Before(admits, j)
      <3>1. \A i \in 1 .. j - 1 : i \in 1 .. L
        BY <1>1
      <3> QED BY <2>0, <3>1 DEF Before, W
    <2>5. Spaced'
      <3>1. \A j \in 1 .. L + 1 : j = L + 1 \/ j \in 1 .. L
        BY <1>1
      <3>2. \A j \in 1 .. L : Cardinality(Before(admits', j)) < Limit
        BY <1>0, <2>4 DEF MemoryGood, Spaced
      <3> QED BY <2>0, <2>3, <3>1, <3>2 DEF Spaced
    <2> QED BY <1>0, <1>4, <1>5, <2>1, <2>2, <2>5 DEF Inv, LimiterGood, MemoryGood
  <1> QED BY <1>3, <1>6, <1>7

\* The script, with or without its answer: the counter is not behind.
LEMMA LimitRedisInv ==
    ASSUME Inv, NEW c \in Conns, LimitRedis(c) \/ RedisError(c)
    PROVE  Inv'
  <1> DEFINE L == Len(admits)
             entry == [at |-> now, in |-> now]
  <1>0. /\ TypeOK /\ InstantsGood /\ RedisGood /\ NoncesGood
        /\ pc[c] # "idle" /\ backend = "redis"
        /\ UNCHANGED <<now, backend, used, last, bucket>>
    BY DEF Inv, LimitRedis, RedisError, LimiterGood, nonceStore
  <1>1. /\ L \in Nat /\ Limit \in Nat /\ Limit > 0 /\ now \in Nat
        /\ counter.count \in Nat /\ counter.base \in Nat /\ counter.until \in Nat
    BY <1>0, LimitAssumption DEF TypeOK
  <1>2. /\ Script \in [count : Nat, until : Nat, base : Nat]
        /\ \/ Script.base = counter.base /\ Script.count = counter.count + 1
           \/ Script.base = L /\ Script.count = 1
    <2>1. CASE counter.count > 0 /\ now < counter.until
      <3>1. counter \in [count : Nat, until : Nat, base : Nat]
        BY <1>0 DEF TypeOK
      <3> QED BY <1>1, <2>1, <3>1 DEF Script
    <2>2. CASE ~(counter.count > 0 /\ now < counter.until)
      <3>1. now + Window * Sub \in Nat
        BY <1>1, Durations DEF W
      <3> QED BY <1>1, <2>2, <3>1 DEF Script
    <2> QED BY <2>1, <2>2
  <1>3. /\ counter' \in [count : Nat, until : Nat, base : Nat]
        /\ \/ /\ admits' = admits
              /\ counter' \in {counter, Script}
           \/ admits' = Append(admits, entry) /\ counter' = Script /\ Script.count <= Limit
    BY <1>0, <1>2 DEF LimitRedis, RedisError, Admit, TooMany, TypeOK
  <1>4. /\ pc' \in [Conns -> Stages] /\ req' \in [Conns -> Request \cup {NoRequest}]
        /\ \A d \in Conns : pc'[d] # "idle" => req'[d] \in Request
        /\ at' \in [Conns -> Nat] /\ InstantsGood'
    <2>1. Goto(c, "hmac") \/ Goto(c, "eval") \/ Respond(c)
      BY DEF LimitRedis, RedisError, Admit, TooMany
    <2> QED BY <1>0, <2>1, MoveType DEF Stages
  <1>5. admits' \in Seq([at : Nat, in : Nat]) /\ bucket' \subseteq 1 .. Len(admits')
    <2>1. CASE admits' = admits
      BY <1>0, <2>1 DEF TypeOK
    <2>2. CASE admits' = Append(admits, entry)
      BY <1>0, <1>1, <2>2 DEF TypeOK
    <2> QED BY <1>3, <2>1, <2>2
  <1>6. TypeOK'
    BY <1>0, <1>3, <1>4, <1>5 DEF TypeOK
  <1>7. RedisGood'
    <2>1. CASE admits' = admits /\ counter' \in {counter, Script}
      BY <1>0, <1>1, <1>2, <2>1 DEF RedisGood
    <2>2. CASE admits' = Append(admits, entry) /\ counter' = Script /\ Script.count <= Limit
      <3>1. Len(admits') = L + 1
        BY <1>0, <1>1, <2>2 DEF TypeOK
      <3> QED BY <1>0, <1>1, <1>2, <2>2, <3>1 DEF RedisGood
    <2> QED BY <1>3, <2>1, <2>2
  <1>8. NoncesGood'
    BY <1>0 DEF NoncesGood, T
  <1> QED BY <1>0, <1>4, <1>6, <1>7, <1>8 DEF Inv, LimiterGood

-----------------------------------------------------------------------------
\* A request comes, looks at the clock, passes a check or leaves: the tables
\* stay.
LEMMA QuietInv ==
    ASSUME Inv, NEW c \in Conns,
           \/ Arrive(c) \/ ReadClock(c) \/ Public(c) \/ Verify(c) \/ Unauthorized(c)
           \/ Finish(c)
    PROVE  Inv'
  <1>0. /\ TypeOK /\ InstantsGood
        /\ UNCHANGED <<now, backend, used, last, admits, bucket, counter>>
    BY DEF Inv, Arrive, ReadClock, Public, Verify, Unauthorized, Finish, nonceStore, limiter
  <1>1. /\ pc' \in [Conns -> Stages] /\ req' \in [Conns -> Request \cup {NoRequest}]
        /\ \A d \in Conns : pc'[d] # "idle" => req'[d] \in Request
        /\ at' \in [Conns -> Nat] /\ InstantsGood'
    <2>1. CASE Arrive(c)
      BY <1>0, <2>1 DEF Arrive, TypeOK, InstantsGood, Stages
    <2>2. CASE ReadClock(c)
      <3>1. /\ pc' \in [Conns -> Stages] /\ req' = req /\ pc[c] # "idle"
            /\ \A d \in Conns : d # c => pc'[d] = pc[d]
        BY <1>0, <2>2 DEF ReadClock, TypeOK, Stages
      <3>2. at' \in [Conns -> Nat] /\ \A d \in Conns : at'[d] \in {now, at[d]} /\ now \in Nat
        BY <1>0, <2>2 DEF ReadClock, TypeOK
      <3>3. \A d \in Conns : pc'[d] # "idle" => req'[d] \in Request
        BY <1>0, <3>1 DEF TypeOK
      <3>4. req \in [Conns -> Request \cup {NoRequest}]
        BY <1>0 DEF TypeOK
      <3>5. InstantsGood'
        BY <1>0, <3>2 DEF InstantsGood
      <3> QED BY <3>1, <3>2, <3>3, <3>4, <3>5
    <2>3. CASE ~Arrive(c) /\ ~ReadClock(c)
      <3>1. pc[c] # "idle" /\ (Goto(c, "handler") \/ Goto(c, "nonce") \/ Respond(c))
        BY <2>3 DEF Public, Verify, Unauthorized, Finish
      <3> QED BY <1>0, <3>1, MoveType DEF Stages
    <2> QED BY <2>1, <2>2, <2>3
  <1>2. TypeOK'
    BY <1>0, <1>1 DEF TypeOK
  <1>3. LimiterGood' /\ NoncesGood'
    BY <1>0 DEF Inv, LimiterGood, MemoryGood, RedisGood, Complete, Spaced, Before, NoncesGood,
                W, T
  <1> QED BY <1>1, <1>2, <1>3 DEF Inv

\* Marking a nonce, in the process or in Redis: what it drops or overwrites is
\* older than the lifetime.
LEMMA MarkUsedStep ==
    ASSUME Inv, NEW c \in Conns, MarkUsedMemory(c) \/ MarkUsedRedis(c) \/ MarkUsedError(c)
    PROVE  /\ req[c].key \in Keys
           /\ used' \in [Keys -> Instant]
           /\ \A k \in Keys : last[k] # Never
                /\ (now - last[k] < T \/ (backend = "memory" /\ now - last[k] <= T))
                  => used'[k] = last[k] /\ last'[k] = last[k]
           /\ \/ last' = last
              \/ \E t \in Nat : t <= now /\ last' = [last EXCEPT ![req[c].key] = t]
                                /\ used'[req[c].key] = t
  <1> DEFINE key == req[c].key
             kept == [k \in Keys |-> IF Fresh(used[k], at[c]) THEN used[k] ELSE Never]
             Young(k) == now - last[k] < T \/ (backend = "memory" /\ now - last[k] <= T)
  <1>0. /\ TypeOK /\ InstantsGood /\ NoncesGood /\ pc[c] # "idle"
    BY DEF Inv, MarkUsedMemory, MarkUsedRedis, MarkUsedError, TypeOK
  <1>1. /\ key \in Keys /\ now \in Nat /\ at[c] \in Nat /\ at[c] <= now
        /\ used \in [Keys -> Instant] /\ last \in [Keys -> Instant]
    BY <1>0 DEF Request, TypeOK, InstantsGood
  <1>2. \A k \in Keys : last[k] # Never /\ Young(k) =>
          used[k] = last[k] /\ last[k] \in Nat /\ last[k] <= now
    BY <1>0, <1>1 DEF NoncesGood, Instant
  <1>3. CASE MarkUsedMemory(c)
    <2>1. backend = "memory" /\ kept \in [Keys -> Instant]
      BY <1>1, <1>3 DEF MarkUsedMemory, Instant
    <2>2. ASSUME NEW k \in Keys, last[k] # Never, Young(k)
          PROVE  kept[k] = last[k]
      <3>1. used[k] = last[k] /\ last[k] \in Nat /\ now - last[k] <= T
        BY <1>1, <1>2, <2>1, <2>2, Durations
      <3>2. at[c] - used[k] <= NonceTtl * Sub
        BY <1>1, <3>1, Durations DEF T
      <3> QED BY <2>2, <3>1, <3>2 DEF Fresh
    <2>3. \/ used' = kept /\ last' = last
          \/ /\ kept[key] = Never /\ used' = [kept EXCEPT ![key] = at[c]]
             /\ last' = [last EXCEPT ![key] = at[c]]
      BY <1>3 DEF MarkUsedMemory, Accept
    <2> HIDE DEF kept, key, Young
    <2>4. CASE used' = kept /\ last' = last
      BY <1>1, <2>1, <2>2, <2>4 DEF key, Young
    <2>5. CASE /\ kept[key] = Never /\ used' = [kept EXCEPT ![key] = at[c]]
               /\ last' = [last EXCEPT ![key] = at[c]]
      <3>1. used' \in [Keys -> Instant] /\ used'[key] = at[c]
        BY <1>1, <2>1, <2>5 DEF Instant
      <3>2. ASSUME NEW k \in Keys, last[k] # Never, Young(k)
            PROVE  used'[k] = last[k] /\ last'[k] = last[k]
        <4>1. k # key
          BY <2>2, <2>5, <3>2
        <4> QED BY <1>1, <2>1, <2>2, <2>5, <3>2, <4>1
      <3> QED BY <1>1, <2>5, <3>1, <3>2 DEF key, Young
    <2> QED BY <2>3, <2>4, <2>5
  <1>4. CASE MarkUsedRedis(c) \/ MarkUsedError(c)
    <2>1. /\ backend = "redis"
          /\ \/ used' = used /\ last' = last
             \/ /\ ~InRedis(key) /\ used' = [used EXCEPT ![key] = now]
                /\ last' = last \/ last' = [last EXCEPT ![key] = now]
      BY <1>4 DEF MarkUsedRedis, MarkUsedError, Accept, nonceStore
    <2>2. \A k \in Keys : last[k] # Never /\ Young(k) => InRedis(k)
      BY <1>1, <1>2, <2>1 DEF InRedis, T
    <2> HIDE DEF key, Young
    <2>3. CASE used' = used /\ last' = last
      BY <1>1, <1>2, <2>3 DEF key, Young
    <2>4. CASE /\ ~InRedis(key) /\ used' = [used EXCEPT ![key] = now]
               /\ last' = last \/ last' = [last EXCEPT ![key] = now]
      <3>1. used' \in [Keys -> Instant] /\ used'[key] = now
        BY <1>1, <2>4 DEF Instant
      <3>2. ASSUME NEW k \in Keys, last[k] # Never, Young(k)
            PROVE  used'[k] = last[k] /\ last'[k] = last[k]
        <4>1. k # key
          BY <2>2, <2>4, <3>2
        <4> QED BY <1>1, <1>2, <2>4, <3>2, <4>1
      <3> QED BY <1>1, <2>4, <3>1, <3>2 DEF key, Young
    <2> QED BY <2>1, <2>3, <2>4
  <1> QED BY <1>3, <1>4

LEMMA MarkUsedInv ==
    ASSUME Inv, NEW c \in Conns, MarkUsedMemory(c) \/ MarkUsedRedis(c) \/ MarkUsedError(c)
    PROVE  Inv'
  <1> DEFINE key == req[c].key
  <1>0. /\ TypeOK /\ InstantsGood /\ LimiterGood /\ NoncesGood /\ pc[c] # "idle"
        /\ now \in Nat /\ last \in [Keys -> Instant]
        /\ UNCHANGED <<now, backend, admits, bucket, counter>>
    BY DEF Inv, MarkUsedMemory, MarkUsedRedis, MarkUsedError, limiter, TypeOK
  <1>1. /\ pc' \in [Conns -> Stages] /\ req' \in [Conns -> Request \cup {NoRequest}]
        /\ \A d \in Conns : pc'[d] # "idle" => req'[d] \in Request
        /\ at' \in [Conns -> Nat] /\ InstantsGood'
    <2>1. Goto(c, "handler") \/ Respond(c)
      BY DEF MarkUsedMemory, MarkUsedRedis, MarkUsedError, Accept
    <2> QED BY <1>0, <2>1, MoveType DEF Stages
  <1>2. LimiterGood'
    BY <1>0 DEF LimiterGood, MemoryGood, RedisGood, Complete, Spaced, Before, W
  <1>3. CASE last' = last
    <2>1. TypeOK'
      BY <1>0, <1>1, <1>3, MarkUsedStep DEF TypeOK
    <2>2. NoncesGood'
      BY <1>0, <1>3, MarkUsedStep DEF NoncesGood, T
    <2> QED BY <1>1, <1>2, <2>1, <2>2 DEF Inv
  <1>4. ASSUME NEW t \in Nat, t <= now, last' = [last EXCEPT ![key] = t], used'[key] = t
        PROVE  Inv'
    <2>0. key \in Keys /\ used' \in [Keys -> Instant]
      BY MarkUsedStep
    <2>1. last' \in [Keys -> Instant]
      BY <1>0, <1>4, <2>0 DEF Instant
    <2>2. TypeOK'
      BY <1>0, <1>1, <2>0, <2>1 DEF TypeOK
    <2>3. NoncesGood'
      <3> SUFFICES ASSUME NEW k \in Keys, last'[k] # Never
                   PROVE  /\ last'[k] <= now
                          /\ now - last'[k] < T \/ (backend = "memory" /\ now - last'[k] <= T)
                               => used'[k] = last'[k]
        BY <1>0 DEF NoncesGood, T
      <3>1. CASE k = key
        BY <1>0, <1>4, <2>0, <3>1
      <3>2. CASE k # key
        <4>1. last'[k] = last[k]
          BY <1>0, <1>4, <3>2
        <4>2. last[k] <= now
          BY <1>0, <4>1 DEF NoncesGood
        <4> QED BY <4>1, <4>2, MarkUsedStep
      <3> QED BY <3>1, <3>2
    <2> QED BY <1>1, <1>2, <2>2, <2>3 DEF Inv
  <1> QED BY <1>3, <1>4, MarkUsedStep

LEMMA StepInv == Inv /\ [Next]_vars => Inv'
  <1> SUFFICES ASSUME Inv, [Next]_vars PROVE Inv'
    OBVIOUS
  <1>1. CASE UNCHANGED vars
    BY <1>1 DEF Inv, TypeOK, InstantsGood, LimiterGood, MemoryGood, RedisGood, Complete, Spaced,
                Before, NoncesGood, W, T, vars, nonceStore, limiter
  <1>2. ASSUME NEW c \in Conns, Serve(c) PROVE Inv'
    BY <1>2, LimitMemoryInv, LimitRedisInv, QuietInv, MarkUsedInv DEF Serve
  <1> QED BY <1>1, <1>2, TickInv, RestartInv DEF Next

LEMMA InvHolds == Spec => []Inv
  BY InitInv, StepInv, PTL DEF Spec

\* The model of the middleware keeps its types.
THEOREM GateTypeCorrect == Spec => []TypeOK
  <1>1. Inv => TypeOK
    BY DEF Inv
  <1> QED BY <1>1, InvHolds, PTL

\* When InMemoryRateLimiter::check lets a request pass, fewer than burst of
\* those before it had taken their Instant within the last window_sec seconds;
\* redis_rate_limit.lua lets no more than burst pass in a life of its counter,
\* with EVALSHA repeated as EVAL or not and across restarts of the service.
THEOREM LimitKept == Spec => []WindowLimit
  <1>1. Inv => WindowLimit
    BY DEF Inv, LimiterGood, MemoryGood, Spaced, Before, RedisGood, WindowLimit, W
  <1> QED BY <1>1, InvHolds, PTL

\* mark_used accepts one key (service, nonce and timestamp) again only after
\* its lifetime, counted from the Instant it was entered with: in the process
\* until it is restarted, in Redis across restarts of the service.
THEOREM KeyAcceptedOnce == Spec => NonceSpent
  <1> DEFINE A == \A k \in Keys :
                    last[k] # Never /\ last'[k] \notin {last[k], Never} =>
                      IF backend = "memory" THEN now - last[k] > NonceTtl * Sub
                                            ELSE now - last[k] >= NonceTtl * Sub
  <1>1. Inv /\ [Next]_vars => [A]_vars
    <2> SUFFICES ASSUME Inv, Next, NEW k \in Keys, last[k] # Never,
                        last'[k] # last[k], last'[k] # Never
                 PROVE  IF backend = "memory" THEN now - last[k] > NonceTtl * Sub
                                              ELSE now - last[k] >= NonceTtl * Sub
      OBVIOUS
    <2>1. PICK c \in Conns : MarkUsedMemory(c) \/ MarkUsedRedis(c) \/ MarkUsedError(c)
      <3>1. CASE Restart
        BY <3>1 DEF Restart, nonceStore
      <3>2. CASE Tick
        BY <3>2 DEF Tick, nonceStore
      <3>3. ASSUME NEW c \in Conns, Serve(c), ~MarkUsedMemory(c), ~MarkUsedRedis(c),
                   ~MarkUsedError(c)
            PROVE  FALSE
        BY <3>3 DEF Serve, Arrive, ReadClock, LimitMemory, LimitRedis, RedisError, Public,
                    Verify, Unauthorized, Finish, nonceStore
      <3> QED BY <3>1, <3>2, <3>3 DEF Next
    <2>2. ~(now - last[k] < T \/ (backend = "memory" /\ now - last[k] <= T))
      BY <2>1, MarkUsedStep
    <2>3. last[k] \in Nat /\ now \in Nat
      BY DEF Inv, TypeOK, Instant
    <2> QED BY <2>2, <2>3, Durations DEF T
  <1>2. Spec => [][A]_vars
    BY <1>1, InvHolds, PTL DEF Spec
  <1> QED BY <1>2 DEF NonceSpent
=============================================================================
