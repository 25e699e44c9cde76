---------------------------- MODULE VhsmProofs ----------------------------
(***************************************************************************)
(* Proofs about the vHSM daemon, for any number of connections, CA tags,   *)
(* permits, keys and secrets.                                              *)
(*                                                                         *)
(* The safety invariants are proved together, as one inductive invariant:  *)
(* InFlight needs that nothing takes the master key away, TypeOK needs     *)
(* InFlight (what is wrapped, installed or inserted), and the provenance   *)
(* of CA keys needs that of the secrets still in flight.                   *)
(***************************************************************************)
EXTENDS Vhsm, FiniteSetTheorems, TLAPS

Safe == /\ TypeOK /\ SealCoherent /\ InFlight
        /\ OnlyInstalledKeys /\ CaKeyProvenance

\* A response carries what it was given; the empty ones carry nothing.
LEMMA CarryFacts ==
    ASSUME NEW b \in SUBSET Blob, NEW k \in SUBSET Keys,
           NEW g \in SUBSET (Tags \X Secrets)
    PROVE  /\ Carry(b, k, g) \in Response
           /\ Carry(b, k, g).blob = b
           /\ Carry(b, k, g).shares = k
           /\ Carry(b, k, g).sig = g
  BY DEF Carry, Response

LEMMA EmptyResponses ==
    /\ Ok \in Response /\ Ok.blob = {} /\ Ok.shares = {} /\ Ok.sig = {}
    /\ Err \in Response /\ Err.blob = {} /\ Err.shares = {} /\ Err.sig = {}
  <1>1. Err \in Response /\ Err.blob = {} /\ Err.shares = {} /\ Err.sig = {}
    BY DEF Err, Response
  <1>2. Ok \in Response /\ Ok.blob = {} /\ Ok.shares = {} /\ Ok.sig = {}
    BY CarryFacts DEF Ok
  <1> QED BY <1>1, <1>2

LEMMA WrappedFacts ==
    ASSUME NEW k \in Keys, NEW s \in Secrets
    PROVE  /\ Wrapped(k, s) \in Response
           /\ Wrapped(k, s).blob = {[key |-> k, secret |-> s]}
           /\ Wrapped(k, s).shares = {} /\ Wrapped(k, s).sig = {}
  <1>1. {[key |-> k, secret |-> s]} \in SUBSET Blob
    BY DEF Blob
  <1> QED BY <1>1, CarryFacts DEF Wrapped

LEMMA InitSafe == Init => Safe
  <1> SUFFICES ASSUME Init PROVE Safe
    OBVIOUS
  <1> USE DEF Init, FreshDaemon
  <1>1. TypeOK
    <2>1. resp \in [Conns -> Response] /\ pc \in [Conns -> Stages]
      BY EmptyResponses DEF Stages
    <2>2. caKeys \in [Tags -> Secrets \cup {None}] /\ loc \in [Conns -> Nat]
      BY DEF None
    <2>3. permits \in Nat /\ usedKeys \in 0 .. MaxKeys /\ usedSecrets \in 0 .. MaxSecrets
      BY PermitsAssumption, BoundsAssumption
    <2> QED BY <2>1, <2>2, <2>3 DEF TypeOK
  <1>2. SealCoherent /\ InFlight
    BY DEF SealCoherent, InFlight, Sealed, None
  <1>3. OnlyInstalledKeys /\ CaKeyProvenance
    BY EmptyResponses DEF OnlyInstalledKeys, CaKeyProvenance, None
  <1> QED BY <1>1, <1>2, <1>3 DEF Safe

\* A task that only answers: nothing shared changes but the supply of fresh
\* secrets, and the answer carries what the invariant allows it to carry.
LEMMA AnswerSafe ==
    ASSUME Safe, NEW c \in Conns, NEW r \in Response,
           resp' = [resp EXCEPT ![c] = r], Goto(c, "reply"),
           usedSecrets' \in 0 .. MaxSecrets,
           UNCHANGED <<hsm, permits, loc, tagOf, usedKeys, blobs, custody, history>>,
           \A b \in r.blob : b.key \in installed,
           r.shares \subseteq installed, r.sig \subseteq loaded
    PROVE  Safe'
  <1> USE DEF Safe, hsm, history, Goto
  <1>1. TypeOK'
    BY DEF TypeOK, Stages
  <1>2. SealCoherent' /\ InFlight'
    BY DEF TypeOK, SealCoherent, InFlight, Sealed
  <1>3. OnlyInstalledKeys' /\ CaKeyProvenance'
    BY DEF TypeOK, OnlyInstalledKeys, CaKeyProvenance
  <1> QED BY <1>1, <1>2, <1>3

\* Refusing a request is such an answer.
LEMMA RefuseSafe == ASSUME Safe, NEW c \in Conns, Refuse(c) PROVE Safe'
  <1>1. usedSecrets' \in 0 .. MaxSecrets
    BY DEF Safe, TypeOK, Refuse, Answer, world
  <1> QED BY <1>1, AnswerSafe, EmptyResponses DEF Refuse, Answer, world

\* So is answering with a fresh secret under the key that is held.
LEMMA WrapFreshSafe == ASSUME Safe, NEW c \in Conns, WrapFresh(c) PROVE Safe'
  <1>1. PICK s \in Secrets : FreshSecret(s) /\ Answer(c, Wrapped(masterKey, s))
    BY DEF WrapFresh
  <1>2. masterKey \in Keys /\ masterKey \in installed
    BY DEF WrapFresh, Sealed, Safe, TypeOK, OnlyInstalledKeys
  <1>3. usedSecrets' \in 0 .. MaxSecrets
    BY <1>1, BoundsAssumption DEF Safe, TypeOK, Answer, FreshSecret, Secrets
  <1> DEFINE r == Wrapped(masterKey, s)
  <1>4. /\ r \in Response /\ \A b \in r.blob : b.key \in installed
        /\ r.shares \subseteq installed /\ r.sig \subseteq loaded
    BY <1>2, WrappedFacts
  <1> HIDE DEF r
  <1>5. /\ resp' = [resp EXCEPT ![c] = r] /\ Goto(c, "reply")
        /\ UNCHANGED <<hsm, permits, loc, tagOf, usedKeys, blobs, custody, history>>
    BY <1>1 DEF r, WrapFresh, Answer
  <1> QED BY <1>3, <1>4, <1>5, AnswerSafe

\* A task that ends leaves nothing behind.
LEMMA FinishSafe ==
    ASSUME Safe, NEW c \in Conns, Finish(c), UNCHANGED <<hsm, usedKeys, usedSecrets, history>>,
           blobs \subseteq blobs', blobs' \subseteq Blob, custody' \subseteq Keys,
           \A b \in blobs' : b.key \in installed, custody' \subseteq installed
    PROVE  Safe'
  <1> USE DEF Safe, hsm, history, Goto, Finish
  <1>1. TypeOK'
    BY EmptyResponses DEF TypeOK, Stages, None
  <1>2. SealCoherent' /\ InFlight'
    BY DEF TypeOK, SealCoherent, InFlight, Sealed
  <1>3. OnlyInstalledKeys' /\ CaKeyProvenance'
    BY EmptyResponses DEF TypeOK, OnlyInstalledKeys, CaKeyProvenance
  <1> QED BY <1>1, <1>2, <1>3

\* A task that leaves the lock with a value for its next step.
LEMMA KeepSafe ==
    ASSUME Safe, NEW c \in Conns, NEW stage, NEW v \in Nat, Keep(c, stage, v),
           tagOf' \in [Conns -> SUBSET Tags],
           usedKeys' \in 0 .. MaxKeys, usedSecrets' \in 0 .. MaxSecrets,
           UNCHANGED <<hsm, blobs, custody, history>>,
           \/ stage \in {"ceremony", "install"} /\ v \in Keys
           \/ stage = "rootCa" /\ v \in Secrets /\ ~Sealed
           \/ stage = "loadCa" /\ ~Sealed /\ \E b \in blobs : b.secret = v
    PROVE  Safe'
  <1> USE DEF Safe, hsm, history, Goto, Keep
  <1>1. TypeOK'
    BY DEF TypeOK, Stages
  <1>2. SealCoherent'
    BY DEF TypeOK, SealCoherent, Sealed
  <1>3. InFlight'
    BY DEF TypeOK, InFlight, Sealed
  <1>4. OnlyInstalledKeys' /\ CaKeyProvenance'
    BY DEF TypeOK, OnlyInstalledKeys, CaKeyProvenance
  <1> QED BY <1>1, <1>2, <1>3, <1>4

\* A task that installs the key it carries.
LEMMA InstallSafe ==
    ASSUME Safe, NEW c \in Conns, NEW r \in Response, loc[c] \in Keys,
           SetMasterKey(loc[c]), Answer(c, r), UNCHANGED <<world, loaded>>,
           r.blob = {}, r.shares \subseteq {loc[c]}, r.sig = {}
    PROVE  Safe'
  <1> USE DEF Safe, world, Goto, Answer, SetMasterKey
  <1>1. TypeOK'
    BY DEF TypeOK, Stages
  <1>2. SealCoherent' /\ InFlight'
    BY DEF TypeOK, SealCoherent, InFlight, Sealed, None, Keys
  <1>3. OnlyInstalledKeys' /\ CaKeyProvenance'
    BY DEF TypeOK, OnlyInstalledKeys, CaKeyProvenance
  <1> QED BY <1>1, <1>2, <1>3

\* The steps of the listener's task.
LEMMA TaskSafe ==
    ASSUME Safe, NEW c \in Conns,
           Accept(c) \/ Read(c) \/ WriteReply(c) \/ LoseReply(c)
    PROVE  Safe'
  <1>1. CASE Accept(c)
    <2> USE <1>1 DEF Safe, Accept, Goto, hsm, world, history
    <2>1. TypeOK'
      BY DEF TypeOK, Stages
    <2>2. SealCoherent' /\ InFlight'
      BY DEF TypeOK, SealCoherent, InFlight, Sealed
    <2>3. OnlyInstalledKeys' /\ CaKeyProvenance'
      BY DEF TypeOK, OnlyInstalledKeys, CaKeyProvenance
    <2> QED BY <2>1, <2>2, <2>3
  <1>2. CASE ReadHeader(c) \/ ReadPayload(c)
    <2> USE <1>2 DEF Safe, ReadHeader, ReadPayload, Goto, hsm, world, history
    <2>1. TypeOK'
      BY DEF TypeOK, Stages
    <2>2. SealCoherent' /\ InFlight'
      BY DEF TypeOK, SealCoherent, InFlight, Sealed
    <2>3. OnlyInstalledKeys' /\ CaKeyProvenance'
      BY DEF TypeOK, OnlyInstalledKeys, CaKeyProvenance
    <2> QED BY <2>1, <2>2, <2>3
  <1>3. CASE HeaderTimeout(c) \/ PayloadTimeout(c) \/ LoseReply(c)
    <2>1. /\ Finish(c)
          /\ UNCHANGED <<hsm, world, history>>
      BY <1>3 DEF HeaderTimeout, PayloadTimeout, LoseReply
    <2> QED BY <2>1, FinishSafe DEF Safe, TypeOK, OnlyInstalledKeys, world
  <1>4. CASE BadPayload(c)
    <2>1. usedSecrets' \in 0 .. MaxSecrets
      BY <1>4 DEF BadPayload, Safe, TypeOK, world
    <2> QED BY <1>4, <2>1, AnswerSafe, EmptyResponses DEF BadPayload, world
  <1>5. CASE WriteReply(c)
    <2>1. resp[c] \in Response
      BY DEF Safe, TypeOK
    <2>2. resp[c].blob \subseteq Blob /\ resp[c].shares \subseteq Keys
      BY <2>1 DEF Response
    <2> QED BY <1>5, <2>2, FinishSafe DEF WriteReply, Safe, TypeOK, OnlyInstalledKeys
  <1> QED BY <1>1, <1>2, <1>3, <1>4, <1>5 DEF Read

\* The first steps of the handlers.
LEMMA DispatchSafe == ASSUME Safe, NEW c \in Conns, Dispatch(c) PROVE Safe'
  <1> DEFINE Silent == Answer(c, Ok) /\ UNCHANGED <<hsm, world, history>>
  <1>1. CASE Refuse(c)
    BY <1>1, RefuseSafe
  <1>2. CASE WrapFresh(c)
    BY <1>2, WrapFreshSafe
  <1>3. CASE Silent
    <2>1. usedSecrets' \in 0 .. MaxSecrets
      BY <1>3 DEF Safe, TypeOK, Answer, world
    <2> QED BY <1>3, <2>1, AnswerSafe, EmptyResponses DEF Answer, world
  <1>4. CASE GenerateCeremony(c)
    <2>1. ASSUME NEW k \in Keys, FreshKey(k), Keep(c, "ceremony", k),
                 UNCHANGED <<hsm, tagOf, usedSecrets, blobs, custody, history>>
          PROVE  Safe'
      <3>1. k \in Nat /\ usedKeys' \in 0 .. MaxKeys
        BY <2>1, BoundsAssumption DEF FreshKey, Keys
      <3> QED BY <2>1, <3>1, KeepSafe DEF Safe, TypeOK
    <2> QED BY <1>1, <1>4, <2>1 DEF GenerateCeremony
  <1>5. CASE InitMasterKey(c)
    <2>1. ASSUME NEW k \in Keys, Keep(c, "install", k),
                 usedKeys' = IF k > usedKeys THEN k ELSE usedKeys,
                 UNCHANGED <<hsm, tagOf, usedSecrets, blobs, custody, history>>
          PROVE  Safe'
      <3>1. k \in Nat /\ usedKeys' \in 0 .. MaxKeys
        BY <2>1, BoundsAssumption DEF Keys, Safe, TypeOK
      <3> QED BY <2>1, <3>1, KeepSafe DEF Safe, TypeOK
    <2>2. ASSUME NEW shares, NEW k \in Reconstruct(shares) PROVE k \in Keys
      BY DEF Reconstruct
    <2> QED BY <1>1, <1>5, <2>1, <2>2 DEF InitMasterKey
  <1>6. CASE Encrypt(c)
    <2>1. ASSUME NEW b \in blobs, ~Sealed, Answer(c, Wrapped(masterKey, b.secret)),
                 UNCHANGED <<hsm, world, history>>
          PROVE  Safe'
      <3> DEFINE r == Wrapped(masterKey, b.secret)
      <3>1. masterKey \in Keys /\ masterKey \in installed /\ b.secret \in Secrets
        BY <2>1 DEF Sealed, Safe, TypeOK, OnlyInstalledKeys, Blob
      <3>2. /\ r \in Response /\ \A x \in r.blob : x.key \in installed
            /\ r.shares \subseteq installed /\ r.sig \subseteq loaded
        BY <3>1, WrappedFacts
      <3> HIDE DEF r
      <3>3. /\ resp' = [resp EXCEPT ![c] = r] /\ Goto(c, "reply")
            /\ usedSecrets' \in 0 .. MaxSecrets
            /\ UNCHANGED <<hsm, permits, loc, tagOf, usedKeys, blobs, custody, history>>
        BY <2>1 DEF r, Answer, world, Safe, TypeOK
      <3> QED BY <3>2, <3>3, AnswerSafe
    <2> QED BY <1>1, <1>2, <1>6, <2>1 DEF Encrypt
  <1>7. CASE InitRootCa(c)
    <2>1. ASSUME NEW s \in Secrets, FreshSecret(s), Keep(c, "rootCa", s), ~Sealed,
                 UNCHANGED <<hsm, tagOf, usedKeys, blobs, custody, history>>
          PROVE  Safe'
      <3>1. s \in Nat /\ usedSecrets' \in 0 .. MaxSecrets
        BY <2>1, BoundsAssumption DEF FreshSecret, Secrets
      <3> QED BY <2>1, <3>1, KeepSafe DEF Safe, TypeOK
    <2> QED BY <1>1, <1>7, <2>1 DEF InitRootCa
  <1>8. CASE LoadRootCa(c)
    <2>1. ASSUME NEW b \in blobs, NEW t \in Tags, b.key = masterKey,
                 Keep(c, "loadCa", b.secret), tagOf' = [tagOf EXCEPT ![c] = {t}],
                 UNCHANGED <<hsm, world, history>>
          PROVE  Safe'
      <3>1. b.secret \in Nat /\ ~Sealed
        BY <2>1, BoundsAssumption DEF Safe, TypeOK, Blob, Keys, Secrets, Sealed, None
      <3>2. /\ tagOf' \in [Conns -> SUBSET Tags]
            /\ usedKeys' \in 0 .. MaxKeys /\ usedSecrets' \in 0 .. MaxSecrets
        BY <2>1 DEF Safe, TypeOK, world
      <3> QED BY <2>1, <3>1, <3>2, KeepSafe DEF world
    <2> QED BY <1>1, <1>8, <2>1 DEF LoadRootCa
  <1>9. CASE SignIntermediateCa(c) \/ SignWithCaKey(c)
    <2>1. ASSUME NEW t \in Tags, caKeys[t] # None,
                 Answer(c, Carry({}, {}, {<<t, caKeys[t]>>})),
                 UNCHANGED <<hsm, world, history>>
          PROVE  Safe'
      <3> DEFINE r == Carry({}, {}, {<<t, caKeys[t]>>})
      <3>1. caKeys[t] \in Secrets /\ <<t, caKeys[t]>> \in loaded
        BY <2>1 DEF Safe, TypeOK, CaKeyProvenance
      <3>2. r \in Response /\ r.blob = {} /\ r.shares = {} /\ r.sig \subseteq loaded
        BY <3>1, CarryFacts
      <3> HIDE DEF r
      <3>3. /\ resp' = [resp EXCEPT ![c] = r] /\ Goto(c, "reply")
            /\ usedSecrets' \in 0 .. MaxSecrets
            /\ UNCHANGED <<hsm, permits, loc, tagOf, usedKeys, blobs, custody, history>>
        BY <2>1 DEF r, Answer, world, Safe, TypeOK
      <3> QED BY <3>2, <3>3, AnswerSafe
    <2> QED BY <1>1, <1>9, <2>1 DEF SignIntermediateCa, SignWithCaKey, Sign
  <1>10. CASE \/ Query(c) \/ GenerateRandomBytes(c) \/ GenerateKek(c) \/ GenerateRootCaKey(c)
              \/ GenerateCredential(c) \/ GenerateDataKey(c) \/ Decrypt(c)
    BY <1>1, <1>2, <1>3, <1>10
       DEF Query, GenerateRandomBytes, GenerateKek, GenerateRootCaKey, GenerateCredential,
           GenerateDataKey, Decrypt
  <1> QED BY <1>4, <1>5, <1>6, <1>7, <1>8, <1>9, <1>10 DEF Dispatch

\* The second steps: the write lock of an install or an insert, and the second
\* read lock of InitRootCa.
LEMMA ResumeSafe == ASSUME Safe, NEW c \in Conns, Resume(c) PROVE Safe'
  <1>1. CASE GenerateCeremonyInstall(c)
    <2> DEFINE r == Carry({}, {loc[c]}, {})
    <2>1. loc[c] \in Keys
      BY <1>1 DEF GenerateCeremonyInstall, Safe, InFlight
    <2>2. r \in Response /\ r.blob = {} /\ r.shares = {loc[c]} /\ r.sig = {}
      BY <2>1, CarryFacts
    <2> HIDE DEF r
    <2>3. Answer(c, r) /\ SetMasterKey(loc[c]) /\ UNCHANGED <<world, loaded>>
      BY <1>1 DEF r, GenerateCeremonyInstall
    <2> QED BY <2>1, <2>2, <2>3, InstallSafe
  <1>2. CASE InitMasterKeyInstall(c)
    <2>1. loc[c] \in Keys
      BY <1>2 DEF InitMasterKeyInstall, Safe, InFlight
    <2> QED BY <1>2, <2>1, InstallSafe, EmptyResponses DEF InitMasterKeyInstall
  <1>3. CASE InitRootCaWrap(c)
    <2> DEFINE r == Wrapped(masterKey, loc[c])
    <2>1. masterKey \in Keys /\ masterKey \in installed /\ loc[c] \in Secrets
      BY <1>3 DEF InitRootCaWrap, Safe, TypeOK, InFlight, OnlyInstalledKeys
    <2>2. /\ r \in Response /\ \A x \in r.blob : x.key \in installed
          /\ r.shares \subseteq installed /\ r.sig \subseteq loaded
      BY <2>1, WrappedFacts
    <2> HIDE DEF r
    <2>3. /\ resp' = [resp EXCEPT ![c] = r] /\ Goto(c, "reply")
          /\ usedSecrets' \in 0 .. MaxSecrets
          /\ UNCHANGED <<hsm, permits, loc, tagOf, usedKeys, blobs, custody, history>>
      BY <1>3 DEF r, InitRootCaWrap, Answer, world, Safe, TypeOK
    <2> QED BY <2>2, <2>3, AnswerSafe
  <1>4. CASE LoadRootCaInsert(c)
    <2> USE <1>4, EmptyResponses DEF Safe, LoadRootCaInsert, Answer, Goto, world
    <2>1. PICK b \in blobs : b.secret = loc[c]
      BY DEF InFlight
    <2>2. loc[c] \in Secrets /\ tagOf[c] \subseteq Tags
      BY <2>1 DEF TypeOK, Blob
    <2>3. TypeOK'
      BY <2>2 DEF TypeOK, Stages
    <2>4. SealCoherent' /\ InFlight'
      BY DEF TypeOK, SealCoherent, InFlight, Sealed
    <2>5. OnlyInstalledKeys'
      BY DEF TypeOK, OnlyInstalledKeys
    <2>6. CaKeyProvenance'
      <3>1. \A t \in Tags : caKeys'[t] # None => <<t, caKeys'[t]>> \in loaded'
        BY DEF CaKeyProvenance
      <3>2. \A x \in Conns : resp'[x].sig \subseteq loaded'
        BY DEF CaKeyProvenance, TypeOK
      <3>3. \A l \in loaded' : \E x \in blobs' : x.secret = l[2]
        BY <2>1 DEF CaKeyProvenance
      <3> QED BY <3>1, <3>2, <3>3 DEF CaKeyProvenance
    <2> QED BY <2>3, <2>4, <2>5, <2>6
  <1> QED BY <1>1, <1>2, <1>3, <1>4 DEF Resume

LEMMA RestartSafe == ASSUME Safe, Restart PROVE Safe'
  <1> USE EmptyResponses DEF Safe, Restart, world
  <1>1. TypeOK'
    BY PermitsAssumption DEF TypeOK, Stages, None
  <1>2. SealCoherent' /\ InFlight'
    BY DEF SealCoherent, InFlight, Sealed, None
  <1>3. OnlyInstalledKeys' /\ CaKeyProvenance'
    BY DEF OnlyInstalledKeys, CaKeyProvenance, None
  <1> QED BY <1>1, <1>2, <1>3

\* One step of the daemon, or none, preserves the invariant.
LEMMA NextSafe == Safe /\ [Next]_vars => Safe'
  <1> SUFFICES ASSUME Safe, [Next]_vars PROVE Safe'
    OBVIOUS
  <1>1. CASE Next
    BY <1>1, TaskSafe, DispatchSafe, ResumeSafe, RestartSafe DEF Next
  <1>2. CASE UNCHANGED vars
    <2> USE <1>2 DEF Safe, vars, hsm, task, world, history
    <2>1. TypeOK'
      BY DEF TypeOK
    <2>2. SealCoherent' /\ InFlight'
      BY DEF SealCoherent, InFlight, Sealed
    <2>3. OnlyInstalledKeys' /\ CaKeyProvenance'
      BY DEF OnlyInstalledKeys, CaKeyProvenance
    <2> QED BY <2>1, <2>2, <2>3
  <1> QED BY <1>1, <1>2

\* Every reachable state is safe.
LEMMA SafeAlways == Spec => []Safe
  BY InitSafe, NextSafe, PTL DEF Spec

\* Types: no step installs, inserts or seals with something that is no key.
THEOREM TypeCorrect == Spec => []TypeOK
  BY SafeAlways, PTL DEF Safe

\* initialized, active_key_version, master_key and active_ca_keys agree.
THEOREM SealIsCoherent == Spec => []SealCoherent
  BY SafeAlways, PTL DEF Safe

\* What a handler carries from one lock section to the next is still good, and
\* the unwrap() in InitRootCa cannot panic, whatever runs between its locks.
THEOREM CarriedIsGood == Spec => []InFlight
  BY SafeAlways, PTL DEF Safe

\* Blobs and shares that leave the daemon belong to keys it has held.
THEOREM KeysInstalledFirst == Spec => []OnlyInstalledKeys
  BY SafeAlways, PTL DEF Safe

\* CA keys in RAM and signatures go back to blobs loaded under their tag.
THEOREM CaKeysHaveProvenance == Spec => []CaKeyProvenance
  BY SafeAlways, PTL DEF Safe

-----------------------------------------------------------------------------
\* What a task holds is taken away by no step of any task.
LEMMA StepKeepsSeal ==
    ASSUME Safe, Next
    PROVE  \/ /\ masterKey # None => masterKey' # None
              /\ \A t \in Tags : caKeys[t] # None => caKeys'[t] # None
           \/ FreshDaemon'
  <1> DEFINE Kept == /\ masterKey # None => masterKey' # None
                     /\ \A t \in Tags : caKeys[t] # None => caKeys'[t] # None
  <1>1. CASE UNCHANGED hsm
    BY <1>1 DEF hsm
  <1>2. CASE Restart
    BY <1>2 DEF Restart, FreshDaemon
  <1>3. ASSUME NEW c \in Conns, SetMasterKey(loc[c]), pc[c] \in {"ceremony", "install"}
        PROVE  Kept
    BY <1>3 DEF Safe, InFlight, SetMasterKey, Keys, None
  <1>4. ASSUME NEW c \in Conns, LoadRootCaInsert(c) PROVE Kept
    <2>1. loc[c] \in Secrets
      BY <1>4 DEF LoadRootCaInsert, Safe, InFlight, TypeOK, Blob
    <2> QED BY <1>4, <2>1 DEF LoadRootCaInsert, Secrets, None
  <1>5. ASSUME NEW c \in Conns, Resume(c) PROVE Kept
    BY <1>1, <1>3, <1>4, <1>5
       DEF Resume, GenerateCeremonyInstall, InitMasterKeyInstall, InitRootCaWrap, hsm
  <1>6. ASSUME NEW c \in Conns, Dispatch(c) PROVE UNCHANGED hsm
    BY <1>6 DEF Dispatch, Query, GenerateCeremony, InitMasterKey, GenerateRandomBytes,
       GenerateKek, GenerateRootCaKey, GenerateCredential, GenerateDataKey, Encrypt,
       Decrypt, InitRootCa, LoadRootCa,
       SignIntermediateCa, SignWithCaKey, Sign, Refuse, WrapFresh, hsm
  <1>7. ASSUME NEW c \in Conns, Accept(c) \/ Read(c) \/ WriteReply(c) \/ LoseReply(c)
        PROVE  UNCHANGED hsm
    BY <1>7 DEF Accept, Read, ReadHeader, HeaderTimeout, ReadPayload, BadPayload,
       PayloadTimeout, WriteReply, LoseReply, hsm
  <1> QED BY <1>1, <1>2, <1>5, <1>6, <1>7 DEF Next

\* Once unsealed, the daemon stays unsealed until its process ends.
THEOREM UnsealedStays == Spec => UnsealedUntilRestart
  <1>1. Safe /\ [Next]_vars =>
          [ \/ /\ masterKey # None => masterKey' # None
               /\ \A t \in Tags : caKeys[t] # None => caKeys'[t] # None
            \/ FreshDaemon' ]_vars
    BY StepKeepsSeal
  <1> QED BY <1>1, SafeAlways, PTL DEF Spec, UnsealedUntilRestart

-----------------------------------------------------------------------------
(* The refinement: the daemon is a Vault.                                    *)

\* A LoadRootCa between its two locks is for one tag.
TagInv == \A c \in Conns : pc[c] = "loadCa" => \E t \in Tags : tagOf[c] = {t}

LEMMA TagStep == ASSUME Safe, TagInv, [Next]_vars PROVE TagInv'
  <1>0. pc \in [Conns -> Stages] /\ tagOf \in [Conns -> SUBSET Tags]
    BY DEF Safe, TypeOK
  <1>1. ASSUME NEW c \in Conns, NEW stage, stage # "loadCa", Goto(c, stage),
               \A d \in Conns \ {c} : tagOf'[d] = tagOf[d]
        PROVE  TagInv'
    BY <1>0, <1>1 DEF TagInv, Goto
  <1>2. ASSUME NEW c \in Conns, NEW t \in Tags, Goto(c, "loadCa"),
               tagOf' = [tagOf EXCEPT ![c] = {t}]
        PROVE  TagInv'
    BY <1>0, <1>2 DEF TagInv, Goto
  <1>3. ASSUME NEW c \in Conns, NEW r, Answer(c, r) PROVE TagInv'
    BY <1>1, <1>3 DEF Answer
  <1>4. ASSUME NEW c \in Conns, Dispatch(c) PROVE TagInv'
    <2>1. CASE LoadRootCa(c)
      BY <1>2, <1>3, <2>1 DEF LoadRootCa, Refuse, Keep
    <2>2. CASE GenerateCeremony(c) \/ InitMasterKey(c) \/ InitRootCa(c)
      BY <1>1, <1>3, <2>2 DEF GenerateCeremony, InitMasterKey, InitRootCa, Refuse, Keep
    <2>3. CASE ~(LoadRootCa(c) \/ GenerateCeremony(c) \/ InitMasterKey(c) \/ InitRootCa(c))
      <3>1. \E r : Answer(c, r)
        BY <1>4, <2>3 DEF Dispatch, Query, GenerateRandomBytes,
           GenerateKek, GenerateRootCaKey, GenerateCredential, GenerateDataKey, Encrypt,
           Decrypt, SignIntermediateCa, SignWithCaKey, Sign, Refuse, WrapFresh
      <3> QED BY <1>3, <3>1
    <2> QED BY <2>1, <2>2, <2>3
  <1>5. ASSUME NEW c \in Conns, Resume(c) PROVE TagInv'
    BY <1>3, <1>5 DEF Resume, GenerateCeremonyInstall, InitMasterKeyInstall,
       InitRootCaWrap, LoadRootCaInsert
  <1>6. ASSUME NEW c \in Conns, Finish(c) PROVE TagInv'
    BY <1>0, <1>1, <1>6 DEF Finish
  <1>7. ASSUME NEW c \in Conns, Accept(c) \/ Read(c) \/ WriteReply(c) \/ LoseReply(c)
        PROVE  TagInv'
    BY <1>1, <1>6, <1>7 DEF Accept, Read, ReadHeader, HeaderTimeout, ReadPayload, BadPayload,
       PayloadTimeout, WriteReply, LoseReply
  <1>8. CASE Restart
    BY <1>8 DEF Restart, TagInv
  <1>9. CASE UNCHANGED vars
    BY <1>9 DEF vars, task, TagInv
  <1> QED BY <1>4, <1>5, <1>7, <1>8, <1>9 DEF Next

LEMMA TagAlways == Spec => [](Safe /\ TagInv)
  <1>1. Init => TagInv
    BY DEF Init, FreshDaemon, TagInv
  <1> QED BY <1>1, InitSafe, NextSafe, TagStep, PTL DEF Spec

\* The lock sections that change VhsmState, and the answers that are written.
LEMMA VaultStep == ASSUME Safe, TagInv, [Next]_vars PROVE [TheVault!Next]_(TheVault!vars)
  <1>1. ASSUME UNCHANGED <<masterKey, caKeys, installed, blobs, custody>>
        PROVE  UNCHANGED TheVault!vars
    BY <1>1 DEF TheVault!vars
  <1>2. ASSUME NEW c \in Conns, Dispatch(c)
        PROVE  UNCHANGED <<masterKey, caKeys, installed, blobs, custody>>
    BY <1>2 DEF Dispatch, Query, GenerateCeremony, InitMasterKey, GenerateRandomBytes,
       GenerateKek, GenerateRootCaKey, GenerateCredential, GenerateDataKey, Encrypt,
       Decrypt, InitRootCa, LoadRootCa, SignIntermediateCa, SignWithCaKey, Sign, Refuse,
       WrapFresh, hsm, world, history
  <1>3. ASSUME NEW c \in Conns, GenerateCeremonyInstall(c) \/ InitMasterKeyInstall(c)
        PROVE  TheVault!Next
    <2>1. loc[c] \in Keys
      BY <1>3 DEF GenerateCeremonyInstall, InitMasterKeyInstall, Safe, InFlight
    <2>2. TheVault!Unseal(loc[c])
      BY <1>3 DEF GenerateCeremonyInstall, InitMasterKeyInstall, SetMasterKey, world,
         TheVault!Unseal
    <2> QED BY <2>1, <2>2 DEF TheVault!Next
  <1>4. ASSUME NEW c \in Conns, InitRootCaWrap(c)
        PROVE  UNCHANGED <<masterKey, caKeys, installed, blobs, custody>>
    BY <1>4 DEF InitRootCaWrap, hsm, world, history
  <1>5. ASSUME NEW c \in Conns, LoadRootCaInsert(c) PROVE TheVault!Next
    <2>1. PICK t \in Tags : tagOf[c] = {t}
      BY <1>5 DEF LoadRootCaInsert, TagInv
    <2>2. PICK b \in blobs : b.secret = loc[c]
      BY <1>5 DEF LoadRootCaInsert, Safe, InFlight
    <2>3. masterKey # None
      BY <1>5 DEF LoadRootCaInsert, Safe, InFlight
    <2>4. caKeys' = [caKeys EXCEPT ![t] = b.secret]
      BY <1>5, <2>1, <2>2 DEF LoadRootCaInsert, Safe, TypeOK
    <2>5. TheVault!Load(t)
      BY <1>5, <2>2, <2>3, <2>4 DEF LoadRootCaInsert, world, None, TheVault!Load
    <2> QED BY <2>5 DEF TheVault!Next
  <1>6. ASSUME NEW c \in Conns, WriteReply(c) PROVE TheVault!Next
    <2>1. /\ \A b \in blobs' : b.key \in installed
          /\ custody' \subseteq installed /\ custody \subseteq custody' /\ blobs \subseteq blobs'
      BY <1>6 DEF WriteReply, Safe, OnlyInstalledKeys
    <2>2. TheVault!HandOut
      BY <1>6, <2>1 DEF WriteReply, hsm, history, TheVault!HandOut
    <2> QED BY <2>2 DEF TheVault!Next
  <1>7. ASSUME NEW c \in Conns, Accept(c) \/ Read(c) \/ LoseReply(c)
        PROVE  UNCHANGED <<masterKey, caKeys, installed, blobs, custody>>
    BY <1>7 DEF Accept, Read, ReadHeader, HeaderTimeout, ReadPayload, BadPayload,
       PayloadTimeout, LoseReply, hsm, world, history
  <1>8. CASE Restart
    BY <1>8 DEF Restart, world, None, TheVault!Next, TheVault!Restart
  <1>9. CASE UNCHANGED vars
    BY <1>1, <1>9 DEF vars, hsm, world, history
  <1> QED BY <1>1, <1>2, <1>3, <1>4, <1>5, <1>6, <1>7, <1>8, <1>9 DEF Next, Resume

\* Whatever its tasks do between each other's lock sections, the daemon opens,
\* loads and hands out like a vault that does one thing at a time.
THEOREM DaemonIsVault == Spec => ImplementsVault
  <1>1. Init => TheVault!Init
    BY DEF Init, FreshDaemon, None, TheVault!Init
  <1>2. Safe /\ TagInv /\ [Next]_vars => [TheVault!Next]_(TheVault!vars)
    BY VaultStep
  <1> QED BY <1>1, <1>2, TagAlways, PTL DEF Spec, ImplementsVault, TheVault!Spec

-----------------------------------------------------------------------------
Busy == {c \in Conns : pc[c] # "idle"}
TaskInv == /\ permits \in Nat /\ pc \in [Conns -> Stages]
           /\ permits + Cardinality(Busy) = MaxPermits

LEMMA BusyFinite == IsFiniteSet(Busy) /\ Cardinality(Busy) \in Nat
  <1>1. Busy \subseteq Conns
    BY DEF Busy
  <1> QED BY <1>1, ConnsAssumption, FS_Subset, FS_CardinalityType

\* A step that keeps a task busy, moving it anywhere but to or from "idle".
LEMMA MoveTask ==
    ASSUME TaskInv, NEW c \in Conns, NEW stage \in Stages \ {"idle"}, pc[c] # "idle",
           Goto(c, stage), UNCHANGED permits
    PROVE  TaskInv'
  <1>1. Busy' = Busy
    BY DEF Busy, TaskInv, Goto
  <1> QED BY <1>1 DEF TaskInv, Goto

LEMMA EndTask == ASSUME TaskInv, NEW c \in Conns, pc[c] # "idle", Finish(c) PROVE TaskInv'
  <1>1. c \in Busy /\ Busy' = Busy \ {c}
    BY DEF Busy, TaskInv, Finish, Goto
  <1>2. Cardinality(Busy') = Cardinality(Busy) - 1
    BY <1>1, BusyFinite, FS_RemoveElement
  <1> QED BY <1>2, BusyFinite DEF TaskInv, Finish, Goto, Stages

LEMMA StartTask == ASSUME TaskInv, NEW c \in Conns, Accept(c) PROVE TaskInv'
  <1>1. c \notin Busy /\ Busy' = Busy \cup {c}
    BY DEF Busy, TaskInv, Accept, Goto
  <1>2. Cardinality(Busy') = Cardinality(Busy) + 1
    BY <1>1, BusyFinite, FS_AddElement
  <1> QED BY <1>2, BusyFinite DEF TaskInv, Accept, Goto, Stages

LEMMA NextTaskInv == TaskInv /\ [Next]_vars => TaskInv'
  <1> SUFFICES ASSUME TaskInv, [Next]_vars PROVE TaskInv'
    OBVIOUS
  <1>1. ASSUME NEW c \in Conns, NEW r, pc[c] \in Stages \ {"idle", "payload"},
               Answer(c, r)
        PROVE  TaskInv'
    BY <1>1, MoveTask DEF Answer, Stages, TaskInv
  <1>2. ASSUME NEW c \in Conns, NEW v, pc[c] = "request",
               NEW stage \in {"ceremony", "install", "rootCa", "loadCa"}, Keep(c, stage, v)
        PROVE  TaskInv'
    BY <1>2, MoveTask DEF Keep, Stages, TaskInv
  <1>3. ASSUME NEW c \in Conns, Dispatch(c) PROVE TaskInv'
    <2>1. pc[c] \in Stages \ {"idle", "payload"} /\ pc[c] = "request"
      BY <1>3 DEF Dispatch, Query, GenerateCeremony, InitMasterKey, GenerateRandomBytes,
         GenerateKek, GenerateRootCaKey, GenerateCredential, GenerateDataKey, Encrypt,
         Decrypt, InitRootCa, LoadRootCa,
         SignIntermediateCa, SignWithCaKey, Sign, Serve, Stages
    <2>2. \/ \E r : Answer(c, r)
          \/ \E v : \E stage \in {"ceremony", "install", "rootCa", "loadCa"} : Keep(c, stage, v)
      BY <1>3 DEF Dispatch, Query, GenerateCeremony, InitMasterKey, GenerateRandomBytes,
         GenerateKek, GenerateRootCaKey, GenerateCredential, GenerateDataKey, Encrypt,
         Decrypt, InitRootCa, LoadRootCa,
         SignIntermediateCa, SignWithCaKey, Sign, Refuse, WrapFresh
    <2> QED BY <1>1, <1>2, <2>1, <2>2
  <1>4. ASSUME NEW c \in Conns, Resume(c) PROVE TaskInv'
    BY <1>1, <1>4 DEF Resume, GenerateCeremonyInstall, InitMasterKeyInstall,
       InitRootCaWrap, LoadRootCaInsert, Stages
  <1>5. ASSUME NEW c \in Conns, Read(c) PROVE TaskInv'
    <2>1. CASE HeaderTimeout(c) \/ PayloadTimeout(c)
      BY <2>1, EndTask DEF HeaderTimeout, PayloadTimeout
    <2>2. CASE ReadHeader(c)
      BY <2>2, MoveTask DEF ReadHeader, TaskInv, Stages
    <2>3. CASE ReadPayload(c)
      BY <2>3, MoveTask DEF ReadPayload, TaskInv, Stages
    <2>4. CASE BadPayload(c)
      BY <2>4, MoveTask DEF BadPayload, TaskInv, Stages
    <2> QED BY <1>5, <2>1, <2>2, <2>3, <2>4 DEF Read
  <1>6. ASSUME NEW c \in Conns, WriteReply(c) \/ LoseReply(c) PROVE TaskInv'
    BY <1>6, EndTask DEF WriteReply, LoseReply
  <1>7. CASE Restart
    <2>1. Busy' = {}
      BY <1>7 DEF Restart, Busy
    <2> QED BY <1>7, <2>1, FS_EmptySet, PermitsAssumption
            DEF Restart, TaskInv, Stages
  <1>8. CASE UNCHANGED vars
    BY <1>8 DEF vars, task, TaskInv, Busy
  <1> QED BY <1>3, <1>4, <1>5, <1>6, <1>7, <1>8, StartTask DEF Next

LEMMA InitTaskInv == Init => TaskInv
  <1> SUFFICES ASSUME Init PROVE TaskInv
    OBVIOUS
  <1>1. Busy = {}
    BY DEF Init, FreshDaemon, Busy
  <1> QED BY <1>1, FS_EmptySet, PermitsAssumption
          DEF Init, FreshDaemon, TaskInv, Stages

\* Permits and tasks balance on every path of the listener's task.
THEOREM PermitsBalance == Spec => []PermitsConserved
  <1>1. TaskInv => PermitsConserved
    BY DEF TaskInv, PermitsConserved, Busy
  <1> QED BY <1>1, InitTaskInv, NextTaskInv, PTL DEF Spec
=============================================================================
