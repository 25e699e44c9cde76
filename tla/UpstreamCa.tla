----------------------------- MODULE UpstreamCa -----------------------------
(***************************************************************************)
(* An intermediate CA for SPIRE.  The plugin's mint_x509ca_and_subscribe    *)
(* asks kms-service over a Unix socket (sign_csr_via_kms: a new connection  *)
(* per attempt, a timeout on each, a pause between them); kms-service       *)
(* serves each connection by a task of its own (the accept loop in main.rs, *)
(* SignIntermediateCaUseCase), which asks the vHSM and writes the audit     *)
(* record before it answers.                                                *)
(*                                                                         *)
(* A task does not learn that the plugin has given up on it, nor the vHSM   *)
(* that the task has: an attempt is a pair <<mint, number>> and leads a     *)
(* life of its own at each of the three places.                             *)
(***************************************************************************)
EXTENDS Integers, Sequences

CONSTANTS
    Mints,     \* calls of the RPC
    Attempts,  \* ATTEMPTS
    Ttls,      \* values of preferred_ttl, in seconds
    DaySecs    \* seconds of a day

ASSUME AttemptsAssumption == Attempts \in Nat \ {0}
ASSUME TtlsAssumption == Ttls \subseteq Int /\ DaySecs \in Nat \ {0}

VARIABLES
    mint,       \* per mint: stage in the plugin
    ttl,        \* per mint: preferred_ttl
    attempt,    \* per mint: number of the attempt it is at
    answer,     \* per mint: the MintX509CAResponse it was answered with
    task,       \* per attempt: stage of its task in kms-service
    listener,   \* the socket of kms-service: absent, bound, or bound and dead
    allowed,    \* does the ACL let spire sign intermediates?
    sent,       \* attempts whose SignIntermediateCa the vHSM has not served
    signed,     \* attempts the vHSM has signed a certificate for
    loaded,     \* is the Root CA loaded in the vHSM?
    recorded,   \* attempts with an audit record of success
    denied      \* attempts with an audit record of access denied

plugin == <<mint, ttl, attempt, answer>>
vhsm == <<sent, signed, loaded>>
log == <<recorded, denied>>
vars == <<plugin, task, listener, allowed, vhsm, log>>

Att == Mints \X (1 .. Attempts)
\* The task's connection is the one the plugin is reading from.
Awaited(a) == mint[a[1]] = "call" /\ attempt[a[1]] = a[2]
NoAnswer == [chain |-> << >>, roots |-> << >>]

\* Mutant of ValidityDays: rounded down.
ValidityDaysFloor(s) == IF s > 0 THEN s \div DaySecs ELSE 30

\* Seconds to days, rounded up; 30 days if there is no wish.
ValidityDays(s) == IF s > 0 THEN (s + DaySecs - 1) \div DaySecs ELSE 30

\* build_mint_x509ca_response: the last of the chain is given as the root.
Response(certs) ==
    [chain |-> certs,
     roots |-> IF certs = << >> THEN << >> ELSE <<certs[Len(certs)]>>]

Init ==
    /\ mint = [m \in Mints |-> "idle"] /\ ttl \in [Mints -> Ttls]
    /\ attempt = [m \in Mints |-> 1]
    /\ answer = [m \in Mints |-> NoAnswer]
    /\ task = [a \in Att |-> "none"]
    /\ listener = "absent" /\ allowed \in BOOLEAN
    /\ sent = {} /\ signed = {} /\ loaded = FALSE
    /\ recorded = {} /\ denied = {}

-----------------------------------------------------------------------------
(* The plugin.                                                              *)

GotoMint(m, stage) == mint' = [mint EXCEPT ![m] = stage]
GotoTask(a, stage) == task' = [task EXCEPT ![a] = stage]

\* The CSR is there and so is the socket's file, which outlives its listener.
Mint(m) ==
    /\ mint[m] = "idle" /\ listener # "absent"
    /\ GotoMint(m, "connect")
    /\ UNCHANGED <<ttl, attempt, answer, task, listener, allowed, vhsm, log>>

\* invalid_argument for an empty CSR, or "KMS socket not available".
MintRefused(m) ==
    /\ mint[m] = "idle"
    /\ GotoMint(m, "failed")
    /\ UNCHANGED <<ttl, attempt, answer, task, listener, allowed, vhsm, log>>

\* An attempt connects and writes its frame.
Connect(m) ==
    /\ mint[m] = "connect" /\ listener = "bound"
    /\ GotoMint(m, "call")
    /\ GotoTask(<<m, attempt[m]>>, "frame")
    /\ UNCHANGED <<ttl, attempt, answer, listener, allowed, vhsm, log>>

AttemptFailed(m) == GotoMint(m, IF attempt[m] < Attempts THEN "pause" ELSE "failed")

\* Mutant of AttemptError: KMS_TIMEOUT is gone; the end of the task is noticed.
AttemptErrorNoTimeout(m) ==
    /\ mint[m] \in {"connect", "call"}
    /\ mint[m] = "connect" \/ task[<<m, attempt[m]>>] = "gone"
    /\ AttemptFailed(m)
    /\ UNCHANGED <<ttl, attempt, answer, task, listener, allowed, vhsm, log>>

\* KMS_TIMEOUT passes, the connection is refused or breaks, or the frame is
\* longer than MAX_KMS_RESPONSE_SIZE or no JSON.
AttemptError(m) ==
    /\ mint[m] \in {"connect", "call"}
    /\ AttemptFailed(m)
    /\ UNCHANGED <<ttl, attempt, answer, task, listener, allowed, vhsm, log>>

\* The backoff is over: the next attempt.
Retry(m) ==
    /\ mint[m] = "pause"
    /\ GotoMint(m, "connect")
    /\ attempt' = [attempt EXCEPT ![m] = @ + 1]
    /\ UNCHANGED <<ttl, answer, task, listener, allowed, vhsm, log>>

-----------------------------------------------------------------------------
(* The task of an attempt in kms-service.                                   *)

\* Mutant of Authorize: the denial is recorded, and the task goes on.
AuthorizeGoesOn(a) ==
    /\ task[a] = "frame"
    /\ denied' = IF allowed THEN denied ELSE denied \cup {a}
    /\ sent' = sent \cup {a} /\ GotoTask(a, "wait")
    /\ UNCHANGED <<plugin, listener, allowed, signed, loaded, recorded>>

\* The frame is read; the ACL lets spire sign and the request goes to the
\* vHSM, or the denial is recorded and answered with an error.
Authorize(a) ==
    /\ task[a] = "frame"
    /\ IF allowed
         THEN sent' = sent \cup {a} /\ GotoTask(a, "wait") /\ UNCHANGED denied
         ELSE denied' = denied \cup {a} /\ GotoTask(a, "error") /\ UNCHANGED sent
    /\ UNCHANGED <<plugin, listener, allowed, signed, loaded, recorded>>

\* The frame does not come or is no request; or the vHSM cannot be reached,
\* or the denial cannot be recorded.
TaskError(a) ==
    /\ task[a] = "frame"
    /\ \E stage \in {"gone", "error"} : GotoTask(a, stage)
    /\ UNCHANGED <<plugin, listener, allowed, vhsm, log>>

\* send_hsm_request returns the certificate.
HsmAnswer(a) ==
    /\ task[a] = "wait" /\ a \in signed
    /\ GotoTask(a, "audit")
    /\ UNCHANGED <<plugin, listener, allowed, vhsm, log>>

\* send_hsm_request returns an error: the vHSM's, or its own timeout.  The
\* arm of execute() that records a failure is not reached.
HsmError(a) ==
    /\ task[a] = "wait"
    /\ GotoTask(a, "error")
    /\ UNCHANGED <<plugin, listener, allowed, vhsm, log>>

\* record_success
RecordSuccess(a) ==
    /\ task[a] = "audit"
    /\ recorded' = recorded \cup {a}
    /\ GotoTask(a, "reply")
    /\ UNCHANGED <<plugin, listener, allowed, vhsm, denied>>

\* record_success fails, or its COMMIT's answer is lost: the certificate is
\* dropped.
RecordError(a) ==
    /\ task[a] = "audit"
    /\ recorded' \in {recorded, recorded \cup {a}}
    /\ GotoTask(a, "error")
    /\ UNCHANGED <<plugin, listener, allowed, vhsm, denied>>

\* The frame with the certificate and no root_certificate_pem, and the plugin's
\* answer to SPIRE; nobody may be there any more.  The certificate is PEM that
\* the vHSM has written: the branches for one that is empty or does not parse
\* are not taken.
Reply(a) ==
    /\ task[a] = "reply"
    /\ GotoTask(a, "gone")
    /\ IF Awaited(a)
         THEN /\ GotoMint(a[1], "ok")
              /\ answer' = [answer EXCEPT ![a[1]] =
                   Response(<<[of |-> a, days |-> ValidityDays(ttl[a[1]])]>>)]
         ELSE UNCHANGED <<mint, answer>>
    /\ UNCHANGED <<ttl, attempt, listener, allowed, vhsm, log>>

\* The frame with the error; the plugin tries again, whatever the error.
ReplyError(a) ==
    /\ task[a] = "error"
    /\ GotoTask(a, "gone")
    /\ IF Awaited(a) THEN AttemptFailed(a[1]) ELSE UNCHANGED mint
    /\ UNCHANGED <<ttl, attempt, answer, listener, allowed, vhsm, log>>

\* The service starts, or starts again: tasks are gone, the ACL is read anew.
\* It goes on without a listener if bind() fails; a stale file may be left.
ServiceStart ==
    /\ listener' \in {"bound", "absent", "dead"} /\ allowed' \in BOOLEAN
    /\ listener' = "dead" => listener # "absent"
    /\ task' = [a \in Att |-> IF task[a] = "none" THEN "none" ELSE "gone"]
    /\ UNCHANGED <<plugin, vhsm, log>>

\* accept() fails: the loop is left for good, its tasks go on.
AcceptError ==
    /\ listener = "bound" /\ listener' = "dead"
    /\ UNCHANGED <<plugin, task, allowed, vhsm, log>>

-----------------------------------------------------------------------------
(* The vHSM.                                                                *)

\* SignIntermediateCa, whether or not anyone still waits for it.
VhsmSign(a) ==
    /\ a \in sent /\ loaded
    /\ sent' = sent \ {a} /\ signed' = signed \cup {a}
    /\ UNCHANGED <<plugin, task, listener, allowed, loaded, log>>

\* It answers with an error, or the connection is gone before it is served.
VhsmRefuse(a) ==
    /\ a \in sent
    /\ sent' = sent \ {a}
    /\ UNCHANGED <<plugin, task, listener, allowed, signed, loaded, log>>

\* ca load; or a restart.
VhsmLoad ==
    /\ loaded' = TRUE
    /\ UNCHANGED <<plugin, task, listener, allowed, sent, signed, log>>
VhsmRestart ==
    /\ loaded' = FALSE /\ sent' = {}
    /\ UNCHANGED <<plugin, task, listener, allowed, signed, log>>

-----------------------------------------------------------------------------
PluginStep(m) == Connect(m) \/ AttemptError(m) \/ Retry(m)
TaskStep(a) ==
    \/ Authorize(a) \/ TaskError(a) \/ HsmAnswer(a) \/ HsmError(a)
    \/ RecordSuccess(a) \/ RecordError(a) \/ Reply(a) \/ ReplyError(a)

Next ==
    \/ \E m \in Mints : Mint(m) \/ MintRefused(m) \/ PluginStep(m)
    \/ \E a \in Att : TaskStep(a) \/ VhsmSign(a) \/ VhsmRefuse(a)
    \/ ServiceStart \/ AcceptError \/ VhsmLoad \/ VhsmRestart

Spec == Init /\ [][Next]_vars

\* The plugin's own timers and retries, and nothing of the other processes:
\* a task may wait for the database for ever.
Fairness == \A m \in Mints : WF_vars(AttemptError(m)) /\ WF_vars(Retry(m))
FairSpec == Spec /\ Fairness

-----------------------------------------------------------------------------
Cert == [of : Att, days : Nat]

\* The values the variables take.
TypeOK ==
    /\ mint \in [Mints -> {"idle", "connect", "call", "pause", "ok", "failed"}]
    /\ ttl \in [Mints -> Ttls] /\ attempt \in [Mints -> 1 .. Attempts]
    /\ answer \in [Mints -> [chain : Seq(Cert), roots : Seq(Cert)]]
    /\ task \in [Att -> {"none", "frame", "wait", "audit", "reply", "error", "gone"}]
    /\ listener \in {"absent", "bound", "dead"} /\ allowed \in BOOLEAN
    /\ sent \subseteq Att /\ signed \subseteq Att /\ loaded \in BOOLEAN
    /\ recorded \subseteq Att /\ denied \subseteq Att

\* What SPIRE is answered with: the chain and what it is to trust as root.
Certs(m) == {answer[m].chain[i] : i \in 1 .. Len(answer[m].chain)}
              \cup {answer[m].roots[i] : i \in 1 .. Len(answer[m].roots)}

\* A mint that succeeds is not empty-handed, and every certificate in the
\* chain and among the roots is of the attempt that was the last, signed by
\* the vHSM and on record as issued: none that an attempt given up on brings
\* late.  Its validity is the wish, or less than a day more.
MintedOnRecord ==
    \A m \in Mints : mint[m] = "ok" =>
      /\ answer[m].chain # << >> /\ answer[m].roots # << >>
      /\ \A cert \in Certs(m) :
           /\ cert.of = <<m, attempt[m]>>
           /\ cert.of \in signed \cap recorded
           /\ ttl[m] > 0 => /\ ttl[m] <= cert.days * DaySecs
                            /\ cert.days * DaySecs < ttl[m] + DaySecs

\* The audit trail does not lie: a success on record was signed, and what was
\* denied was not, whoever stopped waiting and whatever was restarted.
RecordsTrue == recorded \subseteq signed /\ denied \cap (sent \cup signed) = {}

\* The RPC comes back, with kms-service dead, its listener gone, its tasks
\* waiting for the database, or the Root CA never loaded.
EveryMintEnds == \A m \in Mints : mint[m] # "idle" ~> mint[m] \in {"ok", "failed"}
=============================================================================
