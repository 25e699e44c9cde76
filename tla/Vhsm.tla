------------------------------- MODULE Vhsm -------------------------------
(***************************************************************************)
(* The vHSM daemon (crates/vhsm-daemon): one tokio task per accepted       *)
(* connection, a semaphore that bounds the tasks, and handle_request, whose *)
(* handlers share one RwLock<VhsmState>.  No critical section awaits, so a  *)
(* step of a handler is what it does between two acquisitions of the lock;  *)
(* other tasks run between the steps of one handler.                        *)
(*                                                                         *)
(* Master keys and the secrets they wrap are natural numbers, drawn fresh.  *)
(* AES-GCM is ideal: a blob opens under exactly the key that sealed it.     *)
(***************************************************************************)
EXTENDS Naturals, FiniteSets

CONSTANTS
    Conns,        \* connection slots a client may use
    Tags,         \* CA tags
    MaxPermits,   \* MAX_CONCURRENT_REQUESTS
    Threshold,    \* M of the ceremonies that succeed
    TotalShares,  \* N of the ceremonies that succeed
    MaxKeys,      \* bound: master keys that ever come to exist
    MaxSecrets    \* bound: wrapped secrets that ever come to exist

ASSUME ConnsAssumption == IsFiniteSet(Conns)
ASSUME PermitsAssumption == MaxPermits \in Nat \ {0}
ASSUME SharesAssumption == /\ Threshold \in Nat
                           /\ TotalShares \in Nat
                           /\ 2 <= Threshold /\ Threshold <= TotalShares
ASSUME BoundsAssumption == MaxKeys \in Nat /\ MaxSecrets \in Nat

VARIABLES
    initialized, version, masterKey, caKeys, \* VhsmState; 0 stands for None
    permits,      \* permits left in the semaphore
    pc,           \* where each task is
    loc,          \* the value a task took out of the lock (a key, a secret)
    tagOf,        \* {the ca_tag of the LoadRootCa a task is serving}, or {}
    resp,         \* the response a task is about to write
    usedKeys,     \* master keys generated so far: 1 .. usedKeys
    usedSecrets,  \* wrapped secrets generated so far: 1 .. usedSecrets
    blobs,        \* wrapped secrets the clients have received
    custody,      \* ceremonies whose shares the operators have received
    installed,    \* history: keys put in master_key, in any life of the daemon
    loaded        \* history: <<tag, secret>> pairs loaded since the last start

hsm == <<initialized, version, masterKey, caKeys>>
task == <<permits, pc, loc, tagOf, resp>>
world == <<usedKeys, usedSecrets, blobs, custody>>
history == <<installed, loaded>>
vars == <<hsm, task, world, history>>

None == 0
Keys == 1 .. MaxKeys
Secrets == 1 .. MaxSecrets
Blob == [key : Keys, secret : Secrets]
Stages == {"idle", "header", "payload", "request", "ceremony", "install",
           "rootCa", "loadCa", "reply"}
Response == [ok : BOOLEAN, blob : SUBSET Blob, shares : SUBSET Keys,
             sig : SUBSET (Tags \X Secrets)]  \* ok is FALSE for Error{code, message}

-----------------------------------------------------------------------------
Carry(b, k, g) == [ok |-> TRUE, blob |-> b, shares |-> k, sig |-> g]
Ok == Carry({}, {}, {})
Err == [ok |-> FALSE, blob |-> {}, shares |-> {}, sig |-> {}]
Wrapped(k, s) == Carry({[key |-> k, secret |-> s]}, {}, {})

\* VhsmState::new, an empty semaphore and no task: the daemon after (re)start.
FreshDaemon ==
    /\ initialized = FALSE /\ version = 0 /\ masterKey = None
    /\ caKeys = [t \in Tags |-> None]
    /\ permits = MaxPermits
    /\ pc = [c \in Conns |-> "idle"]
    /\ loc = [c \in Conns |-> None]
    /\ tagOf = [c \in Conns |-> {}]
    /\ resp = [c \in Conns |-> Ok]
    /\ loaded = {}

Init ==
    /\ FreshDaemon
    /\ usedKeys = 0 /\ usedSecrets = 0
    /\ blobs = {} /\ custody = {} /\ installed = {}

-----------------------------------------------------------------------------
(* The listener and the life of a task.                                     *)

Goto(c, stage) == pc' = [pc EXCEPT ![c] = stage]

\* accept() with a free permit; with none the stream is dropped unread.
Accept(c) ==
    /\ pc[c] = "idle" /\ permits > 0
    /\ permits' = permits - 1
    /\ Goto(c, "header")
    /\ UNCHANGED <<hsm, loc, tagOf, resp, world, history>>

\* The task ends; dropping _permit gives the permit back.
Finish(c) ==
    /\ permits' = permits + 1
    /\ Goto(c, "idle")
    /\ loc' = [loc EXCEPT ![c] = None]
    /\ resp' = [resp EXCEPT ![c] = Ok]
    /\ tagOf' = [tagOf EXCEPT ![c] = {}]

\* read_exact of the length: done, or failed with an I/O error, which
\* timeout(..).is_err() does not see: the task reads on with the zeros it has.
ReadHeader(c) ==
    /\ pc[c] = "header"
    /\ Goto(c, "payload")
    /\ UNCHANGED <<hsm, permits, loc, tagOf, resp, world, history>>

\* Mutant of HeaderTimeout: the early return leaks the permit.
HeaderTimeoutLeaks(c) ==
    /\ pc[c] = "header"
    /\ Goto(c, "idle")
    /\ UNCHANGED <<hsm, permits, loc, tagOf, resp, world, history>>

\* No header within IO_TIMEOUT, or a length above MAX_PAYLOAD_SIZE.
HeaderTimeout(c) ==
    /\ pc[c] = "header"
    /\ Finish(c)
    /\ UNCHANGED <<hsm, world, history>>

\* What the buffer holds deserializes to a request, which is handled; a failed
\* read is no more noticed than the header's.
ReadPayload(c) ==
    /\ pc[c] = "payload"
    /\ Goto(c, "request")
    /\ UNCHANGED <<hsm, permits, loc, tagOf, resp, world, history>>

\* What the buffer holds does not: also when a read has failed, after which it
\* is empty or ends in zeros, which JSON refuses.  The task answers.
BadPayload(c) ==
    /\ pc[c] = "payload"
    /\ resp' = [resp EXCEPT ![c] = Err]
    /\ Goto(c, "reply")
    /\ UNCHANGED <<hsm, permits, loc, tagOf, world, history>>

\* Mutant of PayloadTimeout: the payload is read without a timeout.
PayloadForever(c) == FALSE /\ UNCHANGED vars

\* No payload within IO_TIMEOUT.
PayloadTimeout(c) ==
    /\ pc[c] = "payload"
    /\ Finish(c)
    /\ UNCHANGED <<hsm, world, history>>

\* The response is written and the client has it.
WriteReply(c) ==
    /\ pc[c] = "reply"
    /\ blobs' = blobs \cup resp[c].blob
    /\ custody' = custody \cup resp[c].shares
    /\ Finish(c)
    /\ UNCHANGED <<hsm, usedKeys, usedSecrets, history>>

\* The response is over the size limit, or write_all fails or times out: the
\* effects of the request stay, the answer is gone.
LoseReply(c) ==
    /\ pc[c] = "reply"
    /\ Finish(c)
    /\ UNCHANGED <<hsm, world, history>>

\* The process dies and is started again: RAM is gone, the shares the
\* operators hold and the blobs the clients stored are not.
Restart ==
    /\ \/ masterKey # None
       \/ \E c \in Conns : pc[c] # "idle"
    /\ initialized' = FALSE /\ version' = 0 /\ masterKey' = None
    /\ caKeys' = [t \in Tags |-> None]
    /\ permits' = MaxPermits
    /\ pc' = [c \in Conns |-> "idle"]
    /\ loc' = [c \in Conns |-> None]
    /\ tagOf' = [c \in Conns |-> {}]
    /\ resp' = [c \in Conns |-> Ok]
    /\ loaded' = {}
    /\ UNCHANGED <<world, installed>>

-----------------------------------------------------------------------------
(* handle_request, one action per step of a handler.  A handler's first     *)
(* step starts from "request"; a request refused for what it holds (an      *)
(* algorithm's name, a length, a version, a CSR's text) is the client's     *)
(* choice.  The codes of the refusals stand beside them.                    *)

Serve(c) == pc[c] = "request"
Sealed == masterKey = None
Answer(c, r) ==
    /\ resp' = [resp EXCEPT ![c] = r]
    /\ Goto(c, "reply")
    /\ UNCHANGED <<permits, loc, tagOf>>
Refuse(c) ==
    /\ Answer(c, Err)
    /\ UNCHANGED <<hsm, world, history>>
\* Leave the lock with a value in hand; the next step is at `stage`.
Keep(c, stage, v) ==
    /\ loc' = [loc EXCEPT ![c] = v]
    /\ Goto(c, stage)
    /\ UNCHANGED <<permits, resp>>
FreshSecret(s) == s = usedSecrets + 1 /\ s \in Secrets /\ usedSecrets' = s
FreshKey(k) == k = usedKeys + 1 /\ k \in Keys /\ usedKeys' = k

\* Answer with a new secret sealed under the master key held now.
WrapFresh(c) ==
    /\ ~Sealed
    /\ \E s \in Secrets : FreshSecret(s) /\ Answer(c, Wrapped(masterKey, s))
    /\ UNCHANGED <<hsm, usedKeys, blobs, custody, history>>

\* Ping and Status, which only read.
Query(c) == Serve(c) /\ Answer(c, Ok) /\ UNCHANGED <<hsm, world, history>>

\* The bytes come from the operating system, sealed or not.
GenerateRandomBytes(c) ==
    /\ Serve(c)
    /\ \/ Answer(c, Ok) /\ UNCHANGED <<hsm, world, history>>
       \/ Refuse(c)                  \* 400: length 0 or above 4096

\* The guard is dropped after the check; the key is generated and split
\* outside the lock.  split_secret refuses a threshold below 2 or above N.
GenerateCeremony(c) ==
    /\ Serve(c)
    /\ \/ initialized /\ Refuse(c)   \* 400: already initialized
       \/ ~initialized /\ Refuse(c)  \* 500: the split fails
       \/ /\ ~initialized
          /\ \E k \in Keys : FreshKey(k) /\ Keep(c, "ceremony", k)
          /\ UNCHANGED <<hsm, tagOf, usedSecrets, blobs, custody, history>>

\* Mutant of SetMasterKey: active_ca_keys is emptied, being of the old key.
SetMasterKeyClears(k) ==
    /\ masterKey' = k /\ initialized' = TRUE /\ version' = 1
    /\ installed' = installed \cup {k}
    /\ caKeys' = [t \in Tags |-> None]
\* Mutant of SetMasterKey: `initialized` is set by the ceremony only.
SetMasterKeyQuiet(k) ==
    /\ masterKey' = k /\ version' = 1 /\ installed' = installed \cup {k}
    /\ UNCHANGED <<initialized, caKeys>>

SetMasterKey(k) ==
    /\ masterKey' = k
    /\ initialized' = TRUE
    /\ version' = 1
    /\ installed' = installed \cup {k}
    /\ UNCHANGED caKeys

\* Mutant of GenerateCeremonyInstall: the loser of a race leaves the key alone
\* but still hands out its shares.
CeremonyInstallLoses(c) ==
    /\ pc[c] = "ceremony"
    /\ IF initialized THEN UNCHANGED <<hsm, installed>>
       ELSE SetMasterKey(loc[c])
    /\ Answer(c, Carry({}, {loc[c]}, {}))
    /\ UNCHANGED <<world, loaded>>

\* The write lock, without a second look at `initialized`.
GenerateCeremonyInstall(c) ==
    /\ pc[c] = "ceremony"
    /\ SetMasterKey(loc[c])
    /\ Answer(c, Carry({}, {loc[c]}, {}))
    /\ UNCHANGED <<world, loaded>>

\* The shares a client sends, by index: each of a ceremony whose shares were
\* handed out, or made up, or None.
MadeUp == MaxKeys + 1
Shares == [1 .. TotalShares -> custody \cup {MadeUp, None}]

\* reconstruct_master_key: the keys it may return.  Too few shares, shares of
\* several ceremonies and shares that were made up are not told apart by the
\* code: the library fails or yields some 32 bytes, taken here for any key, of
\* before (the same shares may be sent again) or new.
Reconstruct(shares) ==
    LET sent == {i \in DOMAIN shares : shares[i] # None}
    IN  {k \in Keys :
          /\ Cardinality(sent) >= 2 /\ k <= usedKeys + 1
          /\ \A m \in custody :
               Cardinality(sent) >= Threshold /\ (\A i \in sent : shares[i] = m) => k = m}

\* InitMasterKey: the client names the threshold; `initialized` is not read.
InitMasterKey(c) ==
    /\ Serve(c)
    /\ \/ Refuse(c)                  \* 400 threshold 0, 422 too few or bad shares
       \/ \E shares \in Shares : \E k \in Reconstruct(shares) :
            /\ Keep(c, "install", k)
            /\ usedKeys' = IF k > usedKeys THEN k ELSE usedKeys
            /\ UNCHANGED <<hsm, tagOf, usedSecrets, blobs, custody, history>>

InitMasterKeyInstall(c) ==
    /\ pc[c] = "install"
    /\ SetMasterKey(loc[c])
    /\ Answer(c, Ok)
    /\ UNCHANGED <<world, loaded>>

\* GenerateKek and GenerateRootCaKey hold the read lock from check to seal.
GenerateKek(c) ==
    /\ Serve(c)
    /\ \/ Sealed /\ Refuse(c)        \* 403
       \/ ~Sealed /\ Refuse(c)       \* 400 algorithm
       \/ WrapFresh(c)
GenerateRootCaKey(c) ==
    /\ Serve(c)
    /\ \/ Sealed /\ Refuse(c)        \* 403
       \/ ~Sealed /\ Refuse(c)       \* 400 algorithm, 500 certificate
       \/ WrapFresh(c)

\* GenerateCredential clones the key; all that follows is local to the task.
GenerateCredential(c) ==
    /\ Serve(c)
    /\ \/ Sealed /\ Refuse(c)        \* 403
       \/ ~Sealed /\ Refuse(c)       \* 400: length 0 or above 1024
       \/ WrapFresh(c)

\* The data key is wrapped under the KEK, not under the master key: it is
\* the client's to store and never comes back to this handler as a blob.
GenerateDataKey(c) ==
    /\ Serve(c)
    /\ \/ Sealed /\ Refuse(c)        \* 403
       \/ ~Sealed /\ Refuse(c)       \* 409 version, 400 algorithm, 500 unwrap
       \/ /\ \E b \in blobs : b.key = masterKey
          /\ Answer(c, Ok)
          /\ UNCHANGED <<hsm, world, history>>

\* Encrypt seals what the client sends: something new, or the plaintext of an
\* earlier blob.
Encrypt(c) ==
    /\ Serve(c)
    /\ \/ Sealed /\ Refuse(c)        \* 404 key id, 403
       \/ ~Sealed /\ Refuse(c)       \* 404 key id, 409 version
       \/ WrapFresh(c)
       \/ /\ ~Sealed
          /\ \E b \in blobs : Answer(c, Wrapped(masterKey, b.secret))
          /\ UNCHANGED <<hsm, world, history>>

Decrypt(c) ==
    /\ Serve(c)
    /\ \/ Sealed /\ Refuse(c)        \* 404 key id, 403
       \/ ~Sealed /\ Refuse(c)       \* 404 key id, 409 version, 500 decrypt
       \/ /\ \E b \in blobs : b.key = masterKey
          /\ Answer(c, Ok)
          /\ UNCHANGED <<hsm, world, history>>

\* Mutant of InitRootCa: the first look at master_key is gone.
InitRootCaUnchecked(c) ==
    /\ Serve(c)
    /\ \E s \in Secrets : FreshSecret(s) /\ Keep(c, "rootCa", s)
    /\ UNCHANGED <<hsm, tagOf, usedKeys, blobs, custody, history>>

\* InitRootCa drops the lock after the check, builds the key and the
\* certificate, takes the lock again and unwrap()s master_key.
InitRootCa(c) ==
    /\ Serve(c)
    /\ \/ Sealed /\ Refuse(c)        \* 403
       \/ ~Sealed /\ Refuse(c)       \* 400 algorithm, 500 certificate
       \/ /\ ~Sealed
          /\ \E s \in Secrets : FreshSecret(s) /\ Keep(c, "rootCa", s)
          /\ UNCHANGED <<hsm, tagOf, usedKeys, blobs, custody, history>>

InitRootCaWrap(c) ==
    /\ pc[c] = "rootCa"
    /\ Answer(c, Wrapped(masterKey, loc[c]))
    /\ UNCHANGED <<hsm, world, history>>

\* LoadRootCa clones the key under the read lock, opens the blob outside it,
\* and inserts the secret under the write lock.  Any blob of this key opens.
LoadRootCa(c) ==
    /\ Serve(c)
    /\ \/ Sealed /\ Refuse(c)        \* 403
       \/ ~Sealed /\ Refuse(c)       \* 422: the blob does not open
       \/ \E b \in blobs, t \in Tags :
            /\ b.key = masterKey
            /\ Keep(c, "loadCa", b.secret)
            /\ tagOf' = [tagOf EXCEPT ![c] = {t}]
            /\ UNCHANGED <<hsm, world, history>>

\* Mutant of LoadRootCaInsert: the tag is ignored.
LoadRootCaEverywhere(c) ==
    /\ pc[c] = "loadCa"
    /\ caKeys' = [t \in Tags |-> loc[c]]
    /\ loaded' = loaded \cup (tagOf[c] \X {loc[c]})
    /\ Answer(c, Ok)
    /\ UNCHANGED <<initialized, version, masterKey, world, installed>>

LoadRootCaInsert(c) ==
    /\ pc[c] = "loadCa"
    /\ caKeys' = [t \in Tags |-> IF t \in tagOf[c] THEN loc[c] ELSE caKeys[t]]
    /\ loaded' = loaded \cup (tagOf[c] \X {loc[c]})
    /\ Answer(c, Ok)
    /\ UNCHANGED <<initialized, version, masterKey, world, installed>>

\* The CA key of a tag is cloned under the read lock; what the client sent is
\* checked and signed outside it.
Sign(c, t) ==
    \/ caKeys[t] = None /\ Refuse(c)  \* 404
    \/ caKeys[t] # None /\ Refuse(c)  \* 400, 422, 500
    \/ /\ caKeys[t] # None
       /\ Answer(c, Carry({}, {}, {<<t, caKeys[t]>>}))
       /\ UNCHANGED <<hsm, world, history>>
SignIntermediateCa(c) == Serve(c) /\ \E t \in Tags : Sign(c, t)
SignWithCaKey(c) == Serve(c) /\ \E t \in Tags : Sign(c, t)

-----------------------------------------------------------------------------
Dispatch(c) ==
    \/ Query(c) \/ GenerateRandomBytes(c) \/ GenerateCeremony(c) \/ InitMasterKey(c)
    \/ GenerateKek(c) \/ GenerateRootCaKey(c) \/ GenerateCredential(c)
    \/ GenerateDataKey(c) \/ Encrypt(c) \/ Decrypt(c) \/ InitRootCa(c)
    \/ LoadRootCa(c) \/ SignIntermediateCa(c) \/ SignWithCaKey(c)
Resume(c) ==
    \/ GenerateCeremonyInstall(c) \/ InitMasterKeyInstall(c)
    \/ InitRootCaWrap(c) \/ LoadRootCaInsert(c)
Read(c) ==
    \/ ReadHeader(c) \/ HeaderTimeout(c)
    \/ ReadPayload(c) \/ BadPayload(c) \/ PayloadTimeout(c)

Next ==
    \/ \E c \in Conns :
         \/ Accept(c) \/ Read(c) \/ Dispatch(c) \/ Resume(c)
         \/ WriteReply(c) \/ LoseReply(c)
    \/ Restart

Spec == Init /\ [][Next]_vars

\* A client need not send anything, and the process need not die.  What the
\* daemon does by itself it does: IO_TIMEOUT expires, the lock is fair and
\* held only between awaits, the write ends or times out.
Fairness ==
    \A c \in Conns :
        /\ WF_vars(HeaderTimeout(c)) /\ WF_vars(PayloadTimeout(c))
        /\ WF_vars(Dispatch(c)) /\ WF_vars(Resume(c)) /\ WF_vars(LoseReply(c))
FairSpec == Spec /\ Fairness

-----------------------------------------------------------------------------
\* Every variable has its type: a key, a secret or None where one is held.
TypeOK ==
    /\ initialized \in BOOLEAN /\ version \in {0, 1}
    /\ masterKey \in Keys \cup {None}
    /\ caKeys \in [Tags -> Secrets \cup {None}]
    /\ permits \in Nat
    /\ pc \in [Conns -> Stages]
    /\ loc \in [Conns -> Nat]
    /\ tagOf \in [Conns -> SUBSET Tags]
    /\ resp \in [Conns -> Response]
    /\ usedKeys \in 0 .. MaxKeys /\ usedSecrets \in 0 .. MaxSecrets
    /\ blobs \subseteq Blob /\ custody \subseteq Keys
    /\ installed \subseteq Keys
    /\ loaded \subseteq Tags \X Secrets

\* initialized, active_key_version and master_key are three fields that
\* different steps read: they always tell the same story, and a sealed vHSM
\* holds no CA key (LoadRootCa inserts without looking at the key again).
SealCoherent ==
    /\ initialized <=> masterKey # None
    /\ version = IF masterKey = None THEN 0 ELSE 1
    /\ Sealed => \A t \in Tags : caKeys[t] = None

\* What a task carries from one lock section to the next is still good when it
\* comes to use it: a key to install exists, InitRootCa's second look at the
\* key, an unwrap(), finds one, and the CA secret LoadRootCa inserts was opened
\* from a stored blob and goes into an unsealed vHSM.
InFlight ==
    \A c \in Conns :
        /\ pc[c] \in {"ceremony", "install"} => loc[c] \in Keys
        /\ pc[c] = "rootCa" => loc[c] \in Secrets /\ masterKey # None
        /\ pc[c] = "loadCa" => /\ masterKey # None
                               /\ \E b \in blobs : b.secret = loc[c]

\* What leaves the daemon belongs to a key the daemon has really held: every
\* blob is sealed under one, and every set of shares given out (or about to
\* be) is of one, though installing the key and answering are separate steps.
OnlyInstalledKeys ==
    /\ masterKey # None => masterKey \in installed
    /\ \A b \in blobs : b.key \in installed
    /\ custody \subseteq installed
    /\ \A c \in Conns : /\ \A b \in resp[c].blob : b.key \in installed
                        /\ resp[c].shares \subseteq installed

\* A CA key in RAM, and the key behind every signature, was loaded under that
\* tag since the daemon started, out of a blob the daemon itself had sealed.
CaKeyProvenance ==
    /\ \A t \in Tags : caKeys[t] # None => <<t, caKeys[t]>> \in loaded
    /\ \A c \in Conns : resp[c].sig \subseteq loaded
    /\ \A l \in loaded : \E b \in blobs : b.secret = l[2]

\* To those outside, the daemon is a Vault: one step of the Vault for each lock
\* section that changes VhsmState and each answer that is written, though
\* handlers check under one lock and act under another, install keys beside
\* each other, are cut off before they answer, or lose their process.
TheVault == INSTANCE Vault WITH key <- masterKey, ca <- caKeys, held <- installed,
    out <- blobs, shares <- custody
ImplementsVault == TheVault!Spec

\* A permit is never lost or minted: each task has exactly one, on every one
\* of the early returns of the listener's task.
PermitsConserved == permits + Cardinality({c \in Conns : pc[c] # "idle"}) = MaxPermits

\* Once unsealed, no request, in any interleaving, seals the vHSM again or
\* takes a CA key away: only the end of the process does.
UnsealedUntilRestart ==
    [][ \/ /\ masterKey # None => masterKey' # None
           /\ \A t \in Tags : caKeys[t] # None => caKeys'[t] # None
        \/ FreshDaemon' ]_vars

\* Every connection that got a permit gives it back, whatever its client does.
EveryTaskEnds == \A c \in Conns : pc[c] # "idle" ~> pc[c] = "idle"

=============================================================================
