-------------------------- MODULE UpstreamCaProofs --------------------------
(***************************************************************************)
(* Proofs about UpstreamCa, for any number of mints, attempts and lifetimes.*)
(*                                                                         *)
(* TaskGood follows the task of an attempt: what it has been through is in  *)
(* the vHSM and on record.  That a denied attempt is never signed needs     *)
(* that no attempt starts twice: MintGood says that the attempt a mint is   *)
(* about to make, and those after it, have no task yet.                     *)
(***************************************************************************)
EXTENDS UpstreamCa, TLAPS

TaskGood(a) ==
    /\ task[a] \in {"none", "frame"} => a \notin sent \cup signed \cup recorded \cup denied
    /\ task[a] = "audit" => a \in signed
    /\ task[a] = "reply" => a \in signed /\ a \in recorded
    /\ a \in recorded => a \in signed
    /\ a \in denied => a \notin sent /\ a \notin signed

LastCert(m) == [of |-> <<m, attempt[m]>>, days |-> ValidityDays(ttl[m])]

MintGood(m) ==
    /\ mint[m] = "pause" => attempt[m] < Attempts
    /\ \A n \in 1 .. Attempts :
         (n > attempt[m] \/ (n = attempt[m] /\ mint[m] \in {"idle", "connect"}))
           => task[<<m, n>>] = "none"
    /\ mint[m] = "ok" => /\ answer[m] = Response(<<LastCert(m)>>)
                         /\ <<m, attempt[m]>> \in signed
                         /\ <<m, attempt[m]>> \in recorded

Inv ==
    /\ TypeOK
    /\ \A a \in Att : TaskGood(a)
    /\ \A m \in Mints : MintGood(m)

\* Division, rounded up.
LEMMA DaysFacts ==
    ASSUME NEW s \in Int
    PROVE  /\ ValidityDays(s) \in Nat
           /\ s > 0 => /\ s <= ValidityDays(s) * DaySecs
                       /\ ValidityDays(s) * DaySecs < s + DaySecs
  <1> DEFINE t == s + DaySecs - 1
             q == t \div DaySecs
  <1>0. DaySecs \in Nat /\ DaySecs > 0 /\ t \in Int
    BY TtlsAssumption
  <1>1. q \in Int /\ t % DaySecs \in 0 .. DaySecs - 1
    BY <1>0
  <1>2. t = DaySecs * q + (t % DaySecs)
    BY <1>0
  <1> HIDE DEF q
  <1>3. s <= q * DaySecs /\ q * DaySecs < s + DaySecs
    BY <1>0, <1>1, <1>2
  <1>4. s > 0 => q \in Nat
    BY <1>0, <1>1, <1>3
  <1> QED BY <1>3, <1>4 DEF ValidityDays, q

LEMMA AttFacts ==
    /\ \A a \in Att : a[1] \in Mints /\ a[2] \in 1 .. Attempts /\ a = <<a[1], a[2]>>
    /\ \A m \in Mints, n \in 1 .. Attempts : <<m, n>> \in Att
  BY DEF Att

LEMMA ResponseFacts ==
    ASSUME NEW c \in Cert
    PROVE  /\ Response(<<c>>) \in [chain : Seq(Cert), roots : Seq(Cert)]
           /\ Response(<<c>>).chain = <<c>> /\ Response(<<c>>).roots = <<c>>
  BY DEF Response

LEMMA InitInv == Init => Inv
  <1> SUFFICES ASSUME Init PROVE Inv
    OBVIOUS
  <1>1. TypeOK
    <2>1. NoAnswer \in [chain : Seq(Cert), roots : Seq(Cert)]
      BY DEF NoAnswer
    <2>2. 1 \in 1 .. Attempts
      BY AttemptsAssumption
    <2>3. /\ attempt \in [Mints -> 1 .. Attempts]
          /\ answer \in [Mints -> [chain : Seq(Cert), roots : Seq(Cert)]]
      BY <2>1, <2>2 DEF Init
    <2> QED BY <2>3 DEF Init, TypeOK
  <1>2. ASSUME NEW a \in Att PROVE TaskGood(a)
    BY DEF Init, TaskGood
  <1>3. ASSUME NEW m \in Mints PROVE MintGood(m)
    BY AttFacts DEF Init, MintGood
  <1> QED BY <1>1, <1>2, <1>3 DEF Inv

-----------------------------------------------------------------------------
\* A step of the plugin: one mint moves, and no task does.
LEMMA PluginInv ==
    ASSUME Inv, NEW m \in Mints, Mint(m) \/ MintRefused(m) \/ AttemptError(m) \/ Retry(m)
    PROVE  Inv'
  <1> USE DEF GotoMint, AttemptFailed
  <1>0. TypeOK /\ MintGood(m) /\ UNCHANGED <<ttl, answer, task, listener, allowed, vhsm, log>>
    BY DEF Inv, Mint, MintRefused, AttemptError, Retry
  <1>1. /\ mint' \in [Mints -> {"idle", "connect", "call", "pause", "ok", "failed"}]
        /\ attempt' \in [Mints -> 1 .. Attempts]
    <2>1. CASE Mint(m) \/ MintRefused(m) \/ AttemptError(m)
      BY <1>0, <2>1 DEF Mint, MintRefused, AttemptError, TypeOK
    <2>2. CASE Retry(m)
      BY <1>0, <2>2, AttemptsAssumption DEF Retry, TypeOK, MintGood
    <2> QED BY <2>1, <2>2
  <1>2. TypeOK'
    BY <1>0, <1>1 DEF TypeOK, vhsm, log
  <1>3. ASSUME NEW a \in Att PROVE TaskGood(a)'
    BY <1>0 DEF Inv, TaskGood, vhsm, log
  <1>4. MintGood(m)'
    <2>1. CASE Mint(m) \/ MintRefused(m)
      BY <1>0, <2>1 DEF Mint, MintRefused, TypeOK, MintGood
    <2>2. CASE AttemptError(m)
      BY <1>0, <2>2 DEF AttemptError, TypeOK, MintGood
    <2>3. CASE Retry(m)
      <3>1. attempt'[m] = attempt[m] + 1 /\ mint'[m] = "connect" /\ attempt[m] \in Nat
        BY <1>0, <2>3, AttemptsAssumption DEF Retry, TypeOK
      <3>2. \A n \in 1 .. Attempts : n >= attempt[m] + 1 => task[<<m, n>>] = "none"
        BY <1>0, <3>1 DEF MintGood
      <3> QED BY <1>0, <3>1, <3>2 DEF MintGood
    <2> QED BY <2>1, <2>2, <2>3
  <1>5. ASSUME NEW q \in Mints \ {m} PROVE MintGood(q)'
    <2>1. MintGood(q) /\ mint'[q] = mint[q] /\ attempt'[q] = attempt[q]
      BY <1>0 DEF Inv, TypeOK, Mint, MintRefused, AttemptError, Retry
    <2> QED BY <1>0, <2>1 DEF MintGood, LastCert, vhsm, log
  <1> QED BY <1>2, <1>3, <1>4, <1>5 DEF Inv

\* An attempt gets its task.
LEMMA ConnectInv == ASSUME Inv, NEW m \in Mints, Connect(m) PROVE Inv'
  <1> DEFINE a == <<m, attempt[m]>>
  <1>0. TypeOK /\ MintGood(m) /\ a \in Att /\ mint[m] = "connect"
        /\ UNCHANGED <<ttl, attempt, answer, listener, allowed, vhsm, log>>
        /\ mint' = [mint EXCEPT ![m] = "call"] /\ task' = [task EXCEPT ![a] = "frame"]
    BY AttFacts DEF Inv, Connect, GotoMint, GotoTask, TypeOK
  <1>1. task[a] = "none"
    BY <1>0, AttemptsAssumption DEF MintGood, TypeOK
  <1>2. TypeOK'
    BY <1>0 DEF TypeOK, vhsm, log
  <1>3. ASSUME NEW b \in Att PROVE TaskGood(b)'
    <2>1. TaskGood(b) /\ TaskGood(a)
      BY <1>0 DEF Inv
    <2>2. task'[b] = task[b] \/ (b = a /\ task'[b] = "frame")
      BY <1>0 DEF TypeOK
    <2> QED BY <1>0, <1>1, <2>1, <2>2 DEF TaskGood, vhsm, log
  <1>4. ASSUME NEW q \in Mints PROVE MintGood(q)'
    <2>1. MintGood(q)
      BY DEF Inv
    <2>2. \A n \in 1 .. Attempts : task'[<<q, n>>] = task[<<q, n>>] \/ (q = m /\ n = attempt[m])
      BY <1>0, AttFacts DEF TypeOK
    <2>3. mint'[q] = IF q = m THEN "call" ELSE mint[q]
      BY <1>0 DEF TypeOK
    <2>4. attempt[m] \in Int
      BY <1>0, AttemptsAssumption DEF TypeOK
    <2> QED BY <1>0, <2>1, <2>2, <2>3, <2>4 DEF MintGood, LastCert, vhsm, log
  <1> QED BY <1>2, <1>3, <1>4 DEF Inv

\* A task goes on, and its mint does not notice.
LEMMA QuietTask ==
    ASSUME Inv, NEW a \in Att, NEW stage \in {"wait", "audit", "reply", "error", "gone"},
           GotoTask(a, stage), task[a] # "none",
           UNCHANGED <<plugin, listener, allowed, signed, loaded>>,
           sent' \subseteq Att, recorded' \subseteq Att, denied' \subseteq Att,
           recorded \subseteq recorded', TaskGood(a)',
           \A b \in Att \ {a} : /\ b \in sent' <=> b \in sent
                                /\ b \in recorded' <=> b \in recorded
                                /\ b \in denied' <=> b \in denied
    PROVE  Inv'
  <1>0. TypeOK /\ task' = [task EXCEPT ![a] = stage]
    BY DEF Inv, GotoTask
  <1>1. TypeOK'
    BY <1>0 DEF TypeOK, plugin
  <1>2. ASSUME NEW b \in Att \ {a} PROVE TaskGood(b)'
    <2>1. TaskGood(b) /\ task'[b] = task[b]
      BY <1>0 DEF Inv, TypeOK
    <2> QED BY <2>1 DEF TaskGood
  <1>3. ASSUME NEW m \in Mints PROVE MintGood(m)'
    <2>1. MintGood(m)
      BY DEF Inv
    <2>2. \A n \in 1 .. Attempts : task[<<m, n>>] = "none" => task'[<<m, n>>] = "none"
      BY <1>0, AttFacts DEF TypeOK
    <2> QED BY <2>1, <2>2 DEF MintGood, LastCert, plugin
  <1> QED BY <1>1, <1>2, <1>3 DEF Inv

LEMMA QuietSteps ==
    ASSUME Inv, NEW a \in Att,
           Authorize(a) \/ TaskError(a) \/ HsmAnswer(a) \/ HsmError(a)
             \/ RecordSuccess(a) \/ RecordError(a)
    PROVE  Inv'
  <1>0. TypeOK /\ TaskGood(a)
    BY DEF Inv
  <1>1. CASE Authorize(a)
    <2>1. PICK stage \in {"wait", "error"} : GotoTask(a, stage) /\ TaskGood(a)'
      <3>1. CASE allowed
        BY <1>0, <1>1, <3>1 DEF Authorize, GotoTask, TypeOK, TaskGood
      <3>2. CASE ~allowed
        BY <1>0, <1>1, <3>2 DEF Authorize, GotoTask, TypeOK, TaskGood
      <3> QED BY <3>1, <3>2
    <2> QED BY <1>0, <1>1, <2>1, QuietTask DEF Authorize, TypeOK
  <1>2. CASE TaskError(a)
    <2>1. PICK stage \in {"gone", "error"} : GotoTask(a, stage)
      BY <1>2 DEF TaskError
    <2>2. TaskGood(a)'
      BY <1>0, <1>2, <2>1 DEF TaskError, GotoTask, TypeOK, TaskGood, vhsm, log
    <2> QED BY <1>0, <1>2, <2>1, <2>2, QuietTask DEF TaskError, TypeOK, vhsm, log
  <1>3. CASE HsmAnswer(a)
    <2>1. TaskGood(a)'
      BY <1>0, <1>3 DEF HsmAnswer, GotoTask, TypeOK, TaskGood, vhsm, log
    <2> QED BY <1>0, <1>3, <2>1, QuietTask DEF HsmAnswer, TypeOK, vhsm, log
  <1>4. CASE HsmError(a)
    <2>1. TaskGood(a)'
      BY <1>0, <1>4 DEF HsmError, GotoTask, TypeOK, TaskGood, vhsm, log
    <2> QED BY <1>0, <1>4, <2>1, QuietTask DEF HsmError, TypeOK, vhsm, log
  <1>5. CASE RecordSuccess(a)
    <2>1. TaskGood(a)'
      BY <1>0, <1>5 DEF RecordSuccess, GotoTask, TypeOK, TaskGood, vhsm
    <2> QED BY <1>0, <1>5, <2>1, QuietTask DEF RecordSuccess, TypeOK, vhsm
  <1>6. CASE RecordError(a)
    <2>1. TaskGood(a)'
      BY <1>0, <1>6 DEF RecordError, GotoTask, TypeOK, TaskGood, vhsm
    <2> QED BY <1>0, <1>6, <2>1, QuietTask DEF RecordError, TypeOK, vhsm
  <1> QED BY <1>1, <1>2, <1>3, <1>4, <1>5, <1>6

\* The task answers.  A mint that waits for this very attempt takes it.
LEMMA ReplyInv ==
    ASSUME Inv, NEW a \in Att, Reply(a) \/ ReplyError(a)
    PROVE  Inv'
  <1> DEFINE m == a[1]
  <1>0. /\ TypeOK /\ TaskGood(a) /\ m \in Mints /\ MintGood(m) /\ a = <<m, a[2]>>
        /\ task' = [task EXCEPT ![a] = "gone"] /\ task[a] # "none"
        /\ UNCHANGED <<ttl, attempt, listener, allowed, vhsm, log>>
    BY AttFacts DEF Inv, Reply, ReplyError, GotoTask
  <1>1. CASE ~Awaited(a)
    <2>1. UNCHANGED plugin
      BY <1>0, <1>1 DEF Reply, ReplyError, plugin
    <2>2. TaskGood(a)'
      BY <1>0 DEF TaskGood, TypeOK, vhsm, log
    <2> QED BY <1>0, <2>1, <2>2, QuietTask DEF GotoTask, TypeOK, vhsm, log
  <1>2. CASE Awaited(a)
    <2>0. mint[m] = "call" /\ attempt[m] = a[2] /\ a = <<m, attempt[m]>>
      BY <1>0, <1>2 DEF Awaited
    <2>1. /\ mint' \in [Mints -> {"idle", "connect", "call", "pause", "ok", "failed"}]
          /\ \A q \in Mints \ {m} : mint'[q] = mint[q] /\ answer'[q] = answer[q]
      BY <1>0, <1>2 DEF Reply, ReplyError, GotoMint, AttemptFailed, TypeOK
    <2>2. LastCert(m) \in Cert
      <3>1. ttl[m] \in Int
        BY <1>0, TtlsAssumption DEF TypeOK
      <3> QED BY <2>0, <3>1, DaysFacts DEF LastCert, Cert
    <2>3. /\ answer' \in [Mints -> [chain : Seq(Cert), roots : Seq(Cert)]]
          /\ mint'[m] = "ok" => /\ answer'[m] = Response(<<LastCert(m)>>)
                                /\ a \in signed /\ a \in recorded
          /\ mint'[m] \in {"ok", "pause", "failed"}
          /\ mint'[m] = "pause" => attempt[m] < Attempts
      <3>1. CASE Reply(a)
        <4>1. answer' = [answer EXCEPT ![m] = Response(<<LastCert(m)>>)] /\ mint'[m] = "ok"
          BY <1>0, <1>2, <2>0, <3>1 DEF Reply, GotoMint, LastCert, TypeOK
        <4>2. a \in signed /\ a \in recorded
          BY <1>0, <3>1 DEF Reply, TaskGood
        <4>3. Response(<<LastCert(m)>>) \in [chain : Seq(Cert), roots : Seq(Cert)]
          BY <2>2, ResponseFacts
        <4> QED BY <1>0, <4>1, <4>2, <4>3 DEF TypeOK
      <3>2. CASE ReplyError(a)
        BY <1>0, <1>2, <3>2 DEF ReplyError, AttemptFailed, GotoMint, TypeOK
      <3> QED BY <3>1, <3>2
    <2>4. TypeOK'
      BY <1>0, <2>1, <2>3 DEF TypeOK, vhsm, log
    <2>5. ASSUME NEW b \in Att PROVE TaskGood(b)'
      <3>1. TaskGood(b) /\ (task'[b] = task[b] \/ task'[b] = "gone")
        BY <1>0 DEF Inv, TypeOK
      <3> QED BY <1>0, <3>1 DEF TaskGood, vhsm, log
    <2>6. ASSUME NEW q \in Mints PROVE MintGood(q)'
      <3>1. MintGood(q)
        BY DEF Inv
      <3>2. \A n \in 1 .. Attempts : task[<<q, n>>] = "none" => task'[<<q, n>>] = "none"
        BY <1>0, AttFacts DEF TypeOK
      <3>3. CASE q # m
        BY <1>0, <2>1, <3>1, <3>2, <3>3 DEF MintGood, LastCert, vhsm, log
      <3>4. CASE q = m
        BY <1>0, <2>0, <2>3, <3>1, <3>2, <3>4 DEF MintGood, LastCert, vhsm, log
      <3> QED BY <3>3, <3>4
    <2> QED BY <2>4, <2>5, <2>6 DEF Inv
  <1> QED BY <1>1, <1>2

-----------------------------------------------------------------------------
\* The processes as a whole, and the vHSM: no mint moves, and no task but to
\* its end.
LEMMA WorldInv ==
    ASSUME Inv,
           \/ \E a \in Att : VhsmSign(a) \/ VhsmRefuse(a)
           \/ ServiceStart \/ AcceptError \/ VhsmLoad \/ VhsmRestart
    PROVE  Inv'
  <1>0. /\ TypeOK /\ UNCHANGED <<plugin, log>> /\ signed \subseteq signed'
        /\ sent' \subseteq sent
        /\ \A b \in Att : task'[b] = task[b] \/ (task[b] # "none" /\ task'[b] = "gone")
    BY DEF Inv, VhsmSign, VhsmRefuse, ServiceStart, AcceptError, VhsmLoad, VhsmRestart, vhsm
  <1>1. signed' \subseteq signed \cup sent
    BY DEF VhsmSign, VhsmRefuse, ServiceStart, AcceptError, VhsmLoad, VhsmRestart, vhsm
  <1>2. TypeOK'
    <2>1. /\ task' \in [Att -> {"none", "frame", "wait", "audit", "reply", "error", "gone"}]
          /\ listener' \in {"absent", "bound", "dead"} /\ allowed' \in BOOLEAN
      BY <1>0 DEF TypeOK, VhsmSign, VhsmRefuse, ServiceStart, AcceptError, VhsmLoad, VhsmRestart
    <2>2. loaded' \in BOOLEAN
      BY <1>0 DEF TypeOK, VhsmSign, VhsmRefuse, ServiceStart, AcceptError, VhsmLoad,
                  VhsmRestart, vhsm
    <2> QED BY <1>0, <1>1, <2>1, <2>2 DEF TypeOK, plugin, log
  <1>3. ASSUME NEW b \in Att PROVE TaskGood(b)'
    <2>1. TaskGood(b)
      BY DEF Inv
    <2> QED BY <1>0, <1>1, <2>1 DEF TaskGood, log
  <1>4. ASSUME NEW q \in Mints PROVE MintGood(q)'
    <2>1. MintGood(q)
      BY DEF Inv
    <2>2. \A n \in 1 .. Attempts : task[<<q, n>>] = "none" => task'[<<q, n>>] = "none"
      BY <1>0, AttFacts
    <2> QED BY <1>0, <2>1, <2>2 DEF MintGood, LastCert, plugin, log
  <1> QED BY <1>2, <1>3, <1>4 DEF Inv

LEMMA StepInv == Inv /\ [Next]_vars => Inv'
  <1> SUFFICES ASSUME Inv, [Next]_vars PROVE Inv'
    OBVIOUS
  <1>1. CASE UNCHANGED vars
    BY <1>1 DEF Inv, TypeOK, TaskGood, MintGood, LastCert, vars, plugin, vhsm, log
  <1>2. ASSUME NEW m \in Mints, Mint(m) \/ MintRefused(m) \/ PluginStep(m) PROVE Inv'
    BY <1>2, PluginInv, ConnectInv DEF PluginStep
  <1>3. ASSUME NEW a \in Att, TaskStep(a) PROVE Inv'
    BY <1>3, QuietSteps, ReplyInv DEF TaskStep
  <1> QED BY <1>1, <1>2, <1>3, WorldInv DEF Next

LEMMA InvHolds == Spec => []Inv
  BY InitInv, StepInv, PTL DEF Spec

\* The model of the plugin, the tasks and the vHSM keeps its types.
THEOREM UpstreamTypeCorrect == Spec => []TypeOK
  <1>1. Inv => TypeOK
    BY DEF Inv
  <1> QED BY <1>1, InvHolds, PTL

\* No audit record of an issued intermediate without its signature, and no
\* signature for an attempt on record as denied, after any number of retries
\* and restarts.
THEOREM AuditTrailTrue == Spec => []RecordsTrue
  <1>1. Inv => RecordsTrue
    BY DEF Inv, TypeOK, TaskGood, RecordsTrue
  <1> QED BY <1>1, InvHolds, PTL

\* What mint_x509ca_and_subscribe answers with comes from its last attempt,
\* is on record, and is valid for the wished time rounded up to days, for
\* every wish, length of a day and number of attempts.
THEOREM MintsOnRecord == Spec => []MintedOnRecord
  <1>1. Inv => MintedOnRecord
    <2> SUFFICES ASSUME Inv, NEW m \in Mints, mint[m] = "ok"
                 PROVE  /\ answer[m].chain # << >> /\ answer[m].roots # << >>
                        /\ \A cert \in Certs(m) :
                             /\ cert.of = <<m, attempt[m]>>
                             /\ cert.of \in signed \cap recorded
                             /\ ttl[m] > 0 => /\ ttl[m] <= cert.days * DaySecs
                                              /\ cert.days * DaySecs < ttl[m] + DaySecs
      BY DEF MintedOnRecord
    <2>1. TypeOK /\ MintGood(m)
      BY DEF Inv
    <2>2. ttl[m] \in Int /\ <<m, attempt[m]>> \in Att
      BY <2>1, TtlsAssumption, AttFacts DEF TypeOK
    <2> DEFINE days == ValidityDays(ttl[m])
    <2>3. /\ days \in Nat
          /\ ttl[m] > 0 => ttl[m] <= days * DaySecs /\ days * DaySecs < ttl[m] + DaySecs
      BY <2>2, DaysFacts
    <2>4. LastCert(m) \in Cert
      BY <2>2, <2>3 DEF LastCert, Cert
    <2>5. answer[m].chain = <<LastCert(m)>> /\ answer[m].roots = <<LastCert(m)>>
      BY <2>1, <2>4, ResponseFacts DEF MintGood
    <2>6. LastCert(m).of = <<m, attempt[m]>> /\ LastCert(m).days = days
      BY DEF LastCert
    <2>7. <<m, attempt[m]>> \in signed \cap recorded
      BY <2>1 DEF MintGood
    <2> HIDE DEF days
    <2>8. answer[m].chain # << >> /\ answer[m].roots # << >>
      BY <2>5
    <2>9. \A cert \in Certs(m) : cert = LastCert(m)
      BY <2>5 DEF Certs
    <2> QED BY <2>3, <2>6, <2>7, <2>8, <2>9
  <1> QED BY <1>1, InvHolds, PTL
=============================================================================
