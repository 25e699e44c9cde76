----------------------------- MODULE HsmClient -----------------------------
(***************************************************************************)
(* kms-service as a client of the vHSM: one exchange of frames over a new   *)
(* connection per call, a timeout on each of its parts (send_hsm_request of *)
(* kms-core, send_request of VhsmClient); the use cases that seal or open   *)
(* something for a caller and record it (EncryptData, DecryptData,          *)
(* GenerateDataKey) and the bare encrypt_via_hsm and decrypt_via_hsm; and   *)
(* the start of the service, which waits for the vHSM to be unsealed.  Vhsm *)
(* has the daemon's side in full; here it is a task per connection that     *)
(* serves its frame once, with or without a client.                         *)
(*                                                                         *)
(* encrypt() and the version it is labelled with are two calls: seal, then  *)
(* Status.  The master key's version is 1 from unseal on, and 0 before.     *)
(***************************************************************************)
EXTENDS Naturals

CONSTANTS
    Users,     \* runs of a use case
    Wants,     \* key_version that encrypt_via_hsm is given; 0 is None
    MaxStarts  \* bound: starts of the vHSM

ASSUME WantsAssumption == Wants \subseteq Nat /\ 0 \in Wants
ASSUME StartsAssumption == MaxStarts \in Nat \ {0}

VARIABLES
    boot,       \* wait_for_vhsm_unsealed: "probe", "sleep", then "started"
    version,    \* active_key_version of the vHSM
    starts,     \* starts of the vHSM so far
    reachable,  \* does an exchange with the vHSM get through (is it up, has it permits)?
    uc, kind,   \* per run: stage of the use case, and which it is
    want,       \* per run: the version asked for
    call,       \* per call: what it has returned
    part,       \* per call: the part of the exchange the client is in
    conn,       \* per call: the vHSM's end of its connection
    reply,      \* per call: the response
    runs,       \* per call: how often the vHSM has carried it out
    label,      \* per run: the version Status has told
    record      \* per run: its audit record

boots == <<boot, reachable>>
server == <<version, starts>>
useCase == <<uc, kind, want, label, record>>
exchange == <<call, part, conn, reply, runs>>
vars == <<boots, server, useCase, exchange>>

Kinds == {"encrypt", "decrypt", "datakey", "bare"}
Calls == Users \X {"crypt", "status"}
Parts == {"none", "connect", "write", "length", "body"}
NoReply == [ok |-> FALSE, version |-> 0, start |-> 0]

Init ==
    /\ boot = "probe" /\ reachable \in BOOLEAN
    /\ version = 0 /\ starts = 1
    /\ uc = [u \in Users |-> "idle"] /\ kind = [u \in Users |-> "encrypt"]
    /\ want = [u \in Users |-> 0] /\ label = [u \in Users |-> 0]
    /\ record = [u \in Users |-> "none"]
    /\ call = [k \in Calls |-> "new"] /\ part = [k \in Calls |-> "none"]
    /\ conn = [k \in Calls |-> "none"] /\ reply = [k \in Calls |-> NoReply]
    /\ runs = [k \in Calls |-> 0]

-----------------------------------------------------------------------------
(* The exchange, from the client's end.                                     *)

Goto(k, p) == part' = [part EXCEPT ![k] = p]
Return(k, how) == call' = [call EXCEPT ![k] = how] /\ Goto(k, "none")

\* The connection is made; with no permit free the vHSM drops its end.
Connect(k) ==
    /\ part[k] = "connect" /\ reachable
    /\ \E end \in {"open", "closed"} : conn' = [conn EXCEPT ![k] = end]
    /\ Goto(k, "write")
    /\ UNCHANGED <<boots, server, useCase, call, reply, runs>>

\* The whole frame is on its way.
Write(k) ==
    /\ part[k] = "write"
    /\ Goto(k, "length")
    /\ conn' = IF conn[k] = "open" THEN [conn EXCEPT ![k] = "frame"] ELSE conn
    /\ UNCHANGED <<boots, server, useCase, call, reply, runs>>

ReadLength(k) ==
    /\ part[k] = "length" /\ conn[k] = "sent"
    /\ Goto(k, "body")
    /\ UNCHANGED <<boots, server, useCase, call, conn, reply, runs>>

\* validate_key_version of the bare calls: the version asked for, and not 0.
Accepts(k) ==
    kind[k[1]] = "bare" =>
      reply[k].version # 0 /\ want[k[1]] \in {0, reply[k].version}

\* The response: a result, or Error{..} or a version that is refused.
ReadBody(k) ==
    /\ part[k] = "body"
    /\ Return(k, IF reply[k].ok /\ Accepts(k) THEN "ok" ELSE "error")
    /\ UNCHANGED <<boots, server, useCase, conn, reply, runs>>

\* Mutant of CallError: nothing ends the wait for an answer but the other end.
CallErrorNoTimeout(k) ==
    /\ part[k] # "none"
    /\ part[k] \in {"length", "body"} => conn[k] = "closed"
    /\ Return(k, "error")
    /\ UNCHANGED <<boots, server, useCase, conn, reply, runs>>

\* The part's timeout, an I/O error or the end of the stream, or a frame
\* above MAX_HSM_FRAME_SIZE.  What has been written stays written.
CallError(k) ==
    /\ part[k] # "none"
    /\ Return(k, "error")
    /\ conn' = IF conn[k] = "open" THEN [conn EXCEPT ![k] = "closed"] ELSE conn
    /\ UNCHANGED <<boots, server, useCase, reply, runs>>

-----------------------------------------------------------------------------
(* The exchange, from the vHSM's end.                                       *)

\* Mutant of Serve: the frame is left in place, and read again.
ServeAgain(k) ==
    /\ conn[k] = "frame" /\ version > 0
    /\ runs' = [runs EXCEPT ![k] = IF @ < 2 THEN @ + 1 ELSE @]
    /\ reply' = [reply EXCEPT ![k] = [ok |-> TRUE, version |-> version, start |-> starts]]
    /\ conn' \in {[conn EXCEPT ![k] = "sent"], conn}
    /\ UNCHANGED <<boots, server, useCase, call, part>>

\* handle_request, and the response on its way; the client may be gone.
\* Status is always answered; the rest is with an error if the vHSM is sealed,
\* and may be (a ciphertext that does not open) if it is not.
Serve(k) ==
    /\ conn[k] = "frame"
    /\ \E done \in BOOLEAN :
         /\ IF k[2] = "status" THEN done ELSE done => version > 0
         /\ runs' = [runs EXCEPT ![k] = IF done THEN @ + 1 ELSE @]
         /\ reply' = [reply EXCEPT ![k] =
              [ok |-> done, version |-> version, start |-> starts]]
    /\ conn' \in {[conn EXCEPT ![k] = "sent"],     \* on its way
                  [conn EXCEPT ![k] = "closed"]}   \* too long, or not taken
    /\ UNCHANGED <<boots, server, useCase, call, part>>

\* The frame is above MAX_PAYLOAD_SIZE, or does not come within IO_TIMEOUT.
Drop(k) ==
    /\ conn[k] \in {"open", "frame"}
    /\ conn' = [conn EXCEPT ![k] = "closed"]
    /\ UNCHANGED <<boots, server, useCase, call, part, reply, runs>>

Unseal ==
    /\ version' = 1
    /\ UNCHANGED <<boots, starts, useCase, exchange>>

VhsmRestart ==
    /\ starts < MaxStarts /\ starts' = starts + 1 /\ version' = 0
    /\ conn' = [k \in Calls |-> IF conn[k] \in {"open", "frame"} THEN "closed" ELSE conn[k]]
    /\ UNCHANGED <<boots, useCase, call, part, reply, runs>>

\* The vHSM runs out of permits, or has some again.
Toggle ==
    /\ reachable' = ~reachable
    /\ UNCHANGED <<boot, server, useCase, exchange>>

-----------------------------------------------------------------------------
(* The start of the service.                                                *)

\* Encrypt("healthcheck") is answered.
Probe ==
    /\ boot = "probe" /\ reachable
    /\ boot' = IF version > 0 THEN "started" ELSE "sleep"
    /\ UNCHANGED <<reachable, server, useCase, exchange>>
\* Anything else.  A timeout or an I/O error of a vHSM that is up is a moment
\* at which it is not reachable: Toggle before and after.
ProbeError ==
    /\ boot = "probe" /\ ~reachable
    /\ boot' = "sleep"
    /\ UNCHANGED <<reachable, server, useCase, exchange>>
\* Mutant of Wake: the loop is left after the first failure.
WakeNever ==
    /\ boot = "sleep" /\ boot' = "sleep"
    /\ UNCHANGED <<reachable, server, useCase, exchange>>
\* Five seconds later.
Wake ==
    /\ boot = "sleep" /\ boot' = "probe"
    /\ UNCHANGED <<reachable, server, useCase, exchange>>

-----------------------------------------------------------------------------
(* The use cases.                                                           *)

GotoUc(u, stage) == uc' = [uc EXCEPT ![u] = stage]
Make(k) == call' = [call EXCEPT ![k] = "pending"] /\ Goto(k, "connect")

\* A caller asks, and GenerateDataKey finds the ACL allows it: the first call.
Begin(u) ==
    /\ uc[u] = "idle" /\ boot = "started"
    /\ \E d \in Kinds, w \in Wants :
         /\ d = "bare" \/ w = 0
         /\ kind' = [kind EXCEPT ![u] = d] /\ want' = [want EXCEPT ![u] = w]
    /\ GotoUc(u, "crypt") /\ Make(<<u, "crypt">>)
    /\ UNCHANGED <<boots, server, label, record, conn, reply, runs>>

\* GenerateDataKey is denied, or asked for another algorithm: that is recorded,
\* or cannot be, and no call is made.
Denied(u) ==
    /\ uc[u] = "idle" /\ boot = "started"
    /\ \E r \in {"none", "failure"} : record' = [record EXCEPT ![u] = r]
    /\ GotoUc(u, "error")
    /\ UNCHANGED <<boots, server, kind, want, label, exchange>>

\* Sealed: current_master_key_version() is the second call.
AskVersion(u) ==
    /\ uc[u] = "crypt" /\ call[<<u, "crypt">>] = "ok" /\ kind[u] \in {"encrypt", "datakey"}
    /\ GotoUc(u, "status") /\ Make(<<u, "status">>)
    /\ UNCHANGED <<boots, server, kind, want, label, record, conn, reply, runs>>

\* Opened; or the version is there.
Done(u) ==
    /\ \/ uc[u] = "crypt" /\ call[<<u, "crypt">>] = "ok" /\ kind[u] = "decrypt"
          /\ UNCHANGED label
       \/ uc[u] = "status" /\ call[<<u, "status">>] = "ok"
          /\ label' = [label EXCEPT ![u] = reply[<<u, "status">>].version]
    /\ GotoUc(u, "audit")
    /\ UNCHANGED <<boots, server, kind, want, record, exchange>>

\* encrypt_via_hsm and decrypt_via_hsm just return.
BareDone(u) ==
    /\ uc[u] = "crypt" /\ call[<<u, "crypt">>] = "ok" /\ kind[u] = "bare"
    /\ GotoUc(u, "ok")
    /\ UNCHANGED <<boots, server, kind, want, label, record, exchange>>

\* Either call has failed: EncryptData and DecryptData record it (or cannot),
\* GenerateDataKey returns at once.
Failed(u) ==
    /\ \E p \in {"crypt", "status"} : uc[u] = p /\ call[<<u, p>>] = "error"
    /\ \E r \in IF kind[u] \in {"datakey", "bare"} THEN {"none"} ELSE {"none", "failure"} :
         record' = [record EXCEPT ![u] = r]
    /\ GotoUc(u, "error")
    /\ UNCHANGED <<boots, server, kind, want, label, exchange>>

\* Mutant of RecordSuccess: an audit record that cannot be written is skipped.
RecordSuccessOptional(u) ==
    /\ uc[u] = "audit"
    /\ \E r \in {"none", "success"} : record' = [record EXCEPT ![u] = r]
    /\ GotoUc(u, "ok")
    /\ UNCHANGED <<boots, server, kind, want, label, exchange>>

\* record_success, and the answer.
RecordSuccess(u) ==
    /\ uc[u] = "audit"
    /\ record' = [record EXCEPT ![u] = "success"]
    /\ GotoUc(u, "ok")
    /\ UNCHANGED <<boots, server, kind, want, label, exchange>>

\* record_success fails, or its COMMIT's answer is lost: so does the request.
RecordError(u) ==
    /\ uc[u] = "audit"
    /\ \E r \in {"none", "success"} : record' = [record EXCEPT ![u] = r]
    /\ GotoUc(u, "error")
    /\ UNCHANGED <<boots, server, kind, want, label, exchange>>

-----------------------------------------------------------------------------
Client(k) == Connect(k) \/ Write(k) \/ ReadLength(k) \/ ReadBody(k) \/ CallError(k)

Next ==
    \/ \E k \in Calls : Client(k) \/ Serve(k) \/ Drop(k)
    \/ \E u \in Users :
         \/ Begin(u) \/ Denied(u) \/ AskVersion(u) \/ Done(u) \/ BareDone(u) \/ Failed(u)
         \/ RecordSuccess(u) \/ RecordError(u)
    \/ Probe \/ ProbeError \/ Wake \/ Unseal \/ VhsmRestart \/ Toggle

Spec == Init /\ [][Next]_vars

\* The client's timers, and the loop at the start of the service.  The vHSM
\* is not relied on.
Fairness ==
    /\ \A k \in Calls : WF_vars(CallError(k))
    /\ WF_vars(Probe) /\ WF_vars(ProbeError) /\ WF_vars(Wake)
FairSpec == Spec /\ Fairness

-----------------------------------------------------------------------------
\* The values the variables take.
TypeOK ==
    /\ boot \in {"probe", "sleep", "started"} /\ reachable \in BOOLEAN
    /\ version \in {0, 1} /\ starts \in Nat
    /\ uc \in [Users -> {"idle", "crypt", "status", "audit", "ok", "error"}]
    /\ kind \in [Users -> Kinds] /\ want \in [Users -> Nat]
    /\ label \in [Users -> {0, 1}]
    /\ record \in [Users -> {"none", "success", "failure"}]
    /\ call \in [Calls -> {"new", "pending", "ok", "error"}]
    /\ part \in [Calls -> Parts]
    /\ conn \in [Calls -> {"none", "open", "frame", "sent", "closed"}]
    /\ reply \in [Calls -> [ok : BOOLEAN, version : {0, 1}, start : Nat]]
    /\ runs \in [Calls -> Nat]

\* Timeouts, restarts and answers that come when nobody waits for them do not
\* show: a result means the vHSM did it once, an error that it did so at most
\* once, during the call or after it.
Abstract == INSTANCE HsmCall
ImplementsCall == Abstract!Spec

\* A use case answers only with what the vHSM has done and the audit log has;
\* a run with a failure on record gave no answer.  The label of a ciphertext
\* is the version it was sealed under, or 0 if the vHSM was started anew
\* between sealing and asking; a bare call gets the version it asks for.
AnsweredOnRecord ==
    \A u \in Users : LET crypt == <<u, "crypt">> IN
      /\ uc[u] = "ok" => runs[crypt] = 1
      /\ uc[u] = "ok" /\ kind[u] # "bare" => record[u] = "success"
      /\ uc[u] = "ok" /\ kind[u] \in {"encrypt", "datakey"} =>
           \/ label[u] = reply[crypt].version
           \/ label[u] = 0 /\ reply[<<u, "status">>].start > reply[crypt].start
      /\ uc[u] = "ok" /\ kind[u] = "bare" => want[u] \in {0, reply[crypt].version}
      /\ record[u] = "failure" => uc[u] = "error"

\* No call outlasts its timeouts, whatever the vHSM does or does not do.
EveryCallEnds == \A k \in Calls : call[k] = "pending" ~> call[k] # "pending"

\* Once the vHSM stays unsealed and reachable, the service gets started, however
\* often it was sealed, restarted or out of permits before.
StartsWhenUnsealed == <>[](version > 0 /\ reachable) => <>(boot = "started")
=============================================================================
