-------------------------- MODULE HsmClientProofs --------------------------
(***************************************************************************)
(* Proofs about HsmClient, for any number of use cases and any versions     *)
(* asked for: it implements HsmCall, and its use cases answer only with     *)
(* what was done and recorded.                                              *)
(*                                                                         *)
(* CallGood is what the two ends of a connection know of each other: a      *)
(* request is carried out only from a frame that was written and not yet    *)
(* read, so that a call the vHSM has served is never served again, and a    *)
(* result that is read was sent by it.  UserGood ties the second call of a  *)
(* use case to the first; that a label is 0 only after a new start of the   *)
(* vHSM needs the starts the two answers came from.                         *)
(***************************************************************************)
EXTENDS HsmClient, TLAPS

Crypt(u) == <<u, "crypt">>
Status(u) == <<u, "status">>

CallGood(k) ==
    /\ call[k] = "pending" <=> part[k] # "none"
    /\ call[k] = "new" => conn[k] = "none"
    /\ part[k] = "connect" => conn[k] = "none"
    /\ part[k] = "body" => conn[k] = "sent"
    /\ conn[k] \in {"none", "open", "frame"} => runs[k] = 0
    /\ reply[k].ok => runs[k] = 1
    /\ call[k] = "ok" => conn[k] = "sent" /\ reply[k].ok /\ Accepts(k)
    /\ k[2] = "crypt" /\ reply[k].ok =>
         /\ reply[k].version = 1 /\ reply[k].start <= starts
         /\ version = 0 => reply[k].start < starts

UserGood(u) ==
    /\ uc[u] = "idle" => call[Crypt(u)] = "new"
    /\ uc[u] \in {"idle", "crypt"} => call[Status(u)] = "new"
    /\ call[Status(u)] # "new" => call[Crypt(u)] = "ok"
    /\ reply[Status(u)].ok =>
         reply[Status(u)].version = 1 \/ reply[Status(u)].start > reply[Crypt(u)].start
    /\ uc[u] \in {"status", "audit", "ok"} => call[Crypt(u)] = "ok"
    /\ uc[u] = "status" => kind[u] \in {"encrypt", "datakey"}
    /\ uc[u] = "audit" => kind[u] # "bare"
    /\ uc[u] \in {"audit", "ok"} /\ kind[u] \in {"encrypt", "datakey"} =>
         call[Status(u)] = "ok" /\ label[u] = reply[Status(u)].version
    /\ uc[u] = "ok" /\ kind[u] # "bare" => record[u] = "success"
    /\ record[u] = "failure" => uc[u] = "error"

Inv ==
    /\ TypeOK
    /\ \A k \in Calls : CallGood(k)
    /\ \A u \in Users : UserGood(u)

LEMMA CallFacts ==
    /\ \A u \in Users : /\ Crypt(u) \in Calls /\ Status(u) \in Calls
                        /\ Crypt(u) # Status(u)
                        /\ Crypt(u)[1] = u /\ Crypt(u)[2] = "crypt"
                        /\ Status(u)[1] = u /\ Status(u)[2] = "status"
    /\ \A k \in Calls : /\ k[1] \in Users
                        /\ k = Crypt(k[1]) \/ k = Status(k[1])
    /\ \A u, v \in Users : /\ Crypt(u) = Crypt(v) => u = v
                           /\ Status(u) = Status(v) => u = v
                           /\ Crypt(u) # Status(v)
  BY DEF Crypt, Status, Calls

LEMMA ReplyFacts ==
    /\ NoReply \in [ok : BOOLEAN, version : {0, 1}, start : Nat]
    /\ ~NoReply.ok
  BY DEF NoReply

LEMMA InitInv == Init => Inv
  <1> SUFFICES ASSUME Init PROVE Inv
    OBVIOUS
  <1>1. TypeOK
    BY ReplyFacts DEF Init, TypeOK, Kinds, Parts
  <1>2. \A k \in Calls : CallGood(k)
    BY ReplyFacts DEF Init, CallGood
  <1>3. \A u \in Users : UserGood(u)
    BY CallFacts, ReplyFacts DEF Init, UserGood
  <1> QED BY <1>1, <1>2, <1>3 DEF Inv

-----------------------------------------------------------------------------
\* A step of one call's exchange that leaves the use cases and the vHSM alone:
\* what it has to keep right about this call and its use case.
LEMMA ExchangeStep ==
    ASSUME Inv, NEW k \in Calls, UNCHANGED <<boots, server, useCase>>, TypeOK',
           \A q \in Calls \ {k} : /\ call'[q] = call[q] /\ part'[q] = part[q]
                                  /\ conn'[q] = conn[q] /\ reply'[q] = reply[q]
                                  /\ runs'[q] = runs[q],
           CallGood(k)',
           call[k] \in {"new", "ok"} => call'[k] = call[k],
           call'[k] = "new" => call[k] = "new",
           call[k] = "ok" => reply'[k] = reply[k],
           k[2] = "status" /\ reply'[k].ok =>
             \/ reply'[k] = reply[k]
             \/ reply'[k].version = 1
             \/ reply'[k].start > reply[Crypt(k[1])].start,
           k[2] = "crypt" => reply'[k] = reply[k] \/ call[k] # "ok"
    PROVE  Inv'
  <1> USE DEF Inv, boots, server, useCase
  <1>1. ASSUME NEW q \in Calls PROVE CallGood(q)'
    BY CallFacts DEF CallGood, Accepts
  <1>2. ASSUME NEW u \in Users PROVE UserGood(u)'
    <2>1. CallGood(Crypt(u)) /\ CallGood(Status(u)) /\ UserGood(u)
      BY CallFacts
    <2>2. CASE k = Crypt(u)
      <3>1. /\ call'[Status(u)] = call[Status(u)] /\ reply'[Status(u)] = reply[Status(u)]
        BY <2>2, CallFacts
      <3>2. reply[Status(u)].ok => reply'[k] = reply[k]
        BY <2>1, <2>2 DEF UserGood, CallGood
      <3> QED BY <2>1, <2>2, <3>1, <3>2, CallFacts DEF UserGood
    <2>3. CASE k = Status(u)
      <3>1. /\ call'[Crypt(u)] = call[Crypt(u)] /\ reply'[Crypt(u)] = reply[Crypt(u)]
        BY <2>3, CallFacts
      <3> QED BY <2>1, <2>3, <3>1, CallFacts DEF UserGood
    <2>4. CASE k # Crypt(u) /\ k # Status(u)
      BY <2>1, <2>4, CallFacts DEF UserGood
    <2> QED BY <2>2, <2>3, <2>4
  <1> QED BY <1>1, <1>2

\* The client's parts of an exchange.
LEMMA ClientInv == ASSUME Inv, NEW k \in Calls, Client(k) PROVE Inv'
  <1> USE DEF Goto, Return
  <1>0. TypeOK /\ CallGood(k)
    BY DEF Inv
  <1>1. UNCHANGED <<boots, server, useCase, reply, runs>>
    BY DEF Client, Connect, Write, ReadLength, ReadBody, CallError
  <1>2. TypeOK'
    <2>1. /\ call' \in [Calls -> {"new", "pending", "ok", "error"}]
          /\ part' \in [Calls -> Parts]
      BY <1>0 DEF TypeOK, Parts, Client, Connect, Write, ReadLength, ReadBody, CallError
    <2>2. conn' \in [Calls -> {"none", "open", "frame", "sent", "closed"}]
      BY <1>0 DEF TypeOK, Client, Connect, Write, ReadLength, ReadBody, CallError
    <2> QED BY <1>0, <1>1, <2>1, <2>2 DEF TypeOK, boots, server, useCase
  <1>3. CallGood(k)'
    <2> USE <1>0, <1>1 DEF TypeOK, CallGood, Accepts, boots, server, useCase
    <2>1. CASE Connect(k)
      BY <2>1 DEF Connect
    <2>2. CASE Write(k)
      BY <2>2 DEF Write
    <2>3. CASE ReadLength(k)
      BY <2>3 DEF ReadLength
    <2>4. CASE ReadBody(k)
      BY <2>4 DEF ReadBody
    <2>5. CASE CallError(k)
      BY <2>5 DEF CallError
    <2> QED BY <2>1, <2>2, <2>3, <2>4, <2>5 DEF Client
  <1>4. \A q \in Calls \ {k} : call'[q] = call[q] /\ part'[q] = part[q] /\ conn'[q] = conn[q]
    BY <1>0 DEF TypeOK, Client, Connect, Write, ReadLength, ReadBody, CallError
  <1>5. /\ call[k] \in {"new", "ok"} => call'[k] = call[k]
        /\ call'[k] = "new" => call[k] = "new"
    BY <1>0 DEF TypeOK, CallGood, Client, Connect, Write, ReadLength, ReadBody, CallError
  <1> QED BY <1>1, <1>2, <1>3, <1>4, <1>5, ExchangeStep

\* The vHSM serves a frame or drops it.
LEMMA ServeInv == ASSUME Inv, NEW k \in Calls, Serve(k) \/ Drop(k) PROVE Inv'
  <1>0. TypeOK /\ CallGood(k)
    BY DEF Inv
  <1>1. UNCHANGED <<boots, server, useCase, call, part>>
    BY DEF Serve, Drop
  <1>2. CASE Drop(k)
    <2>1. TypeOK' /\ CallGood(k)'
      BY <1>0, <1>1, <1>2 DEF TypeOK, CallGood, Accepts, Drop, boots, server, useCase
    <2> QED BY <1>0, <1>1, <1>2, <2>1, ExchangeStep DEF Drop, TypeOK
  <1>3. CASE Serve(k)
    <2>0. PICK done \in BOOLEAN :
            /\ IF k[2] = "status" THEN done ELSE done => version > 0
            /\ runs' = [runs EXCEPT ![k] = IF done THEN @ + 1 ELSE @]
            /\ reply' = [reply EXCEPT ![k] =
                 [ok |-> done, version |-> version, start |-> starts]]
      BY <1>3 DEF Serve
    <2> DEFINE r == [ok |-> done, version |-> version, start |-> starts]
    <2>1. /\ conn[k] = "frame" /\ runs[k] = 0 /\ call[k] # "ok" /\ call[k] # "new"
          /\ ~reply[k].ok
      BY <1>0, <1>3 DEF Serve, CallGood, TypeOK
    <2>2. r \in [ok : BOOLEAN, version : {0, 1}, start : Nat] /\ r.ok = done
          /\ r.version = version /\ r.start = starts
      BY <1>0 DEF TypeOK
    <2>3. /\ reply' = [reply EXCEPT ![k] = r]
          /\ runs' = [runs EXCEPT ![k] = IF done THEN @ + 1 ELSE @]
          /\ conn' \in {[conn EXCEPT ![k] = "sent"], [conn EXCEPT ![k] = "closed"]}
      BY <1>3, <2>0 DEF Serve
    <2> HIDE DEF r
    <2>4. runs'[k] = IF done THEN 1 ELSE 0
      BY <1>0, <2>1, <2>3 DEF TypeOK
    <2>5. TypeOK'
      BY <1>0, <1>1, <2>2, <2>3 DEF TypeOK, boots, server, useCase
    <2>6. CallGood(k)'
      <3>1. k[2] = "crypt" /\ done => version = 1
        BY <1>0, <2>0 DEF TypeOK
      <3>2. part[k] # "body"
        BY <1>0, <2>1 DEF CallGood
      <3> QED BY <1>0, <1>1, <2>1, <2>2, <2>3, <2>4, <3>1, <3>2
              DEF TypeOK, CallGood, server
    <2>7. k[2] = "status" => version = 1 \/ starts > reply[Crypt(k[1])].start
      <3> SUFFICES ASSUME k[2] = "status" PROVE version = 1 \/ starts > reply[Crypt(k[1])].start
        OBVIOUS
      <3>1. k[1] \in Users /\ k = Status(k[1]) /\ Crypt(k[1]) \in Calls /\ Crypt(k[1])[2] = "crypt"
        BY CallFacts
      <3>2. call[Crypt(k[1])] = "ok"
        BY <2>1, <3>1 DEF Inv, UserGood
      <3>3. reply[Crypt(k[1])].ok /\ (version = 0 => reply[Crypt(k[1])].start < starts)
        BY <3>1, <3>2 DEF Inv, CallGood
      <3> QED BY <1>0, <3>3 DEF TypeOK
    <2>8. \A q \in Calls \ {k} : /\ conn'[q] = conn[q] /\ reply'[q] = reply[q]
                                  /\ runs'[q] = runs[q]
      BY <1>0, <2>3 DEF TypeOK
    <2>9. reply'[k].version = version /\ reply'[k].start = starts
      BY <1>0, <2>2, <2>3 DEF TypeOK
    <2> QED BY <1>1, <2>1, <2>5, <2>6, <2>7, <2>8, <2>9, ExchangeStep
  <1> QED BY <1>2, <1>3

\* The vHSM is unsealed or started anew.
LEMMA VhsmInv == ASSUME Inv, Unseal \/ VhsmRestart PROVE Inv'
  <1>0. TypeOK
    BY DEF Inv
  <1>1. UNCHANGED <<useCase, call, part, reply, runs>>
    BY DEF Unseal, VhsmRestart, exchange
  <1>2. TypeOK'
    BY <1>0 DEF TypeOK, Unseal, VhsmRestart, boots, useCase, exchange
  <1>3. ASSUME NEW k \in Calls PROVE CallGood(k)'
    <2>1. CallGood(k)
      BY DEF Inv
    <2>2. CASE Unseal
      BY <1>0, <2>1, <2>2 DEF TypeOK, Unseal, useCase, exchange, CallGood, Accepts
    <2>3. CASE VhsmRestart
      BY <1>0, <2>1, <2>3 DEF TypeOK, VhsmRestart, useCase, CallGood, Accepts
    <2> QED BY <2>2, <2>3
  <1>4. ASSUME NEW u \in Users PROVE UserGood(u)'
    BY <1>1 DEF Inv, useCase, UserGood
  <1> QED BY <1>2, <1>3, <1>4 DEF Inv

-----------------------------------------------------------------------------
(* The steps of a use case.                                                 *)

\* A call is made: it was new.
LEMMA MakeCall ==
    ASSUME Inv, NEW k \in Calls, Make(k), call[k] = "new",
           UNCHANGED <<version, starts, conn, reply, runs>>,
           \A u \in Users \ {k[1]} : kind'[u] = kind[u] /\ want'[u] = want[u],
           call[Crypt(k[1])] = "ok" => UNCHANGED <<kind, want>>
    PROVE  /\ call' \in [Calls -> {"new", "pending", "ok", "error"}]
           /\ part' \in [Calls -> Parts]
           /\ call' = [call EXCEPT ![k] = "pending"]
           /\ \A q \in Calls : CallGood(q)'
  <1> USE DEF Make, Goto
  <1>0. TypeOK /\ \A q \in Calls : CallGood(q)
    BY DEF Inv
  <1>1. /\ call' \in [Calls -> {"new", "pending", "ok", "error"}] /\ part' \in [Calls -> Parts]
        /\ call' = [call EXCEPT ![k] = "pending"]
    BY <1>0 DEF TypeOK, Parts
  <1>2. CallGood(k)'
    BY <1>0 DEF TypeOK, CallGood
  <1>3. ASSUME NEW q \in Calls \ {k} PROVE CallGood(q)'
    <2>1. CASE call[q] # "ok"
      BY <1>0, <2>1 DEF TypeOK, CallGood
    <2>2. CASE call[q] = "ok"
      <3>1. kind'[q[1]] = kind[q[1]] /\ want'[q[1]] = want[q[1]]
        <4>1. CASE q[1] # k[1]
          BY <4>1, CallFacts
        <4>2. CASE q[1] = k[1]
          <5>1. call[Crypt(k[1])] = "ok"
            BY <2>2, <4>2, CallFacts DEF Inv, UserGood
          <5> QED BY <5>1
        <4> QED BY <4>1, <4>2
      <3> QED BY <1>0, <2>2, <3>1 DEF TypeOK, CallGood, Accepts
    <2> QED BY <2>1, <2>2
  <1> QED BY <1>1, <1>2, <1>3

LEMMA BeginInv == ASSUME Inv, NEW u \in Users, Begin(u) PROVE Inv'
  <1> DEFINE k == Crypt(u)
  <1>0. TypeOK /\ UserGood(u) /\ k \in Calls /\ k[1] = u
    BY CallFacts DEF Inv
  <1>1. uc[u] = "idle" /\ call[k] = "new" /\ Make(k)
    BY <1>0 DEF Begin, UserGood, Crypt
  <1>2. PICK d \in Kinds, w \in Wants : kind' = [kind EXCEPT ![u] = d] /\ want' = [want EXCEPT ![u] = w]
    BY DEF Begin
  <1>3. UNCHANGED <<boots, server, label, record, conn, reply, runs>>
        /\ uc' = [uc EXCEPT ![u] = "crypt"]
    BY DEF Begin, GotoUc
  <1> HIDE DEF k
  <1>4. /\ call' \in [Calls -> {"new", "pending", "ok", "error"}]
        /\ part' \in [Calls -> Parts]
        /\ call' = [call EXCEPT ![k] = "pending"]
        /\ \A q \in Calls : CallGood(q)'
    <2>1. \A v \in Users \ {k[1]} : kind'[v] = kind[v] /\ want'[v] = want[v]
      BY <1>0, <1>2 DEF TypeOK
    <2>2. call[Crypt(k[1])] # "ok"
      BY <1>0, <1>1 DEF k
    <2> QED BY <1>0, <1>1, <1>3, <2>1, <2>2, MakeCall DEF server
  <1>5. TypeOK'
    BY <1>0, <1>2, <1>3, <1>4, WantsAssumption DEF TypeOK, boots, server
  <1>6. ASSUME NEW v \in Users PROVE UserGood(v)'
    <2>1. UserGood(v) /\ call'[Status(v)] = call[Status(v)]
      BY <1>0, <1>4, CallFacts DEF Inv, k, TypeOK
    <2>2. CASE v = u
      <3>1. call[Status(u)] = "new"
        BY <1>0, <1>1 DEF UserGood
      <3>2. uc'[u] = "crypt" /\ record'[u] # "failure"
        BY <1>0, <1>1, <1>3 DEF TypeOK, UserGood
      <3> QED BY <1>3, <2>1, <2>2, <3>1, <3>2 DEF UserGood
    <2>3. CASE v # u
      <3>1. call'[Crypt(v)] = call[Crypt(v)]
        BY <1>0, <1>4, <2>3, CallFacts DEF k, TypeOK
      <3>2. uc'[v] = uc[v] /\ kind'[v] = kind[v]
        BY <1>0, <1>2, <1>3, <2>3 DEF TypeOK
      <3> QED BY <1>3, <2>1, <3>1, <3>2 DEF UserGood
    <2> QED BY <2>2, <2>3
  <1> QED BY <1>4, <1>5, <1>6 DEF Inv

LEMMA AskVersionInv == ASSUME Inv, NEW u \in Users, AskVersion(u) PROVE Inv'
  <1> DEFINE k == Status(u)
  <1>0. TypeOK /\ UserGood(u) /\ k \in Calls /\ k[1] = u
    BY CallFacts DEF Inv
  <1>1. uc[u] = "crypt" /\ call[k] = "new" /\ Make(k) /\ call[Crypt(u)] = "ok"
        /\ kind[u] \in {"encrypt", "datakey"}
    BY <1>0 DEF AskVersion, UserGood, Crypt, Status
  <1>2. UNCHANGED <<boots, server, kind, want, label, record, conn, reply, runs>>
        /\ uc' = [uc EXCEPT ![u] = "status"]
    BY DEF AskVersion, GotoUc
  <1> HIDE DEF k
  <1>3. /\ call' \in [Calls -> {"new", "pending", "ok", "error"}]
        /\ part' \in [Calls -> Parts]
        /\ call' = [call EXCEPT ![k] = "pending"]
        /\ \A q \in Calls : CallGood(q)'
    BY <1>0, <1>1, <1>2, MakeCall DEF server
  <1>4. TypeOK'
    BY <1>0, <1>2, <1>3 DEF TypeOK, boots, server
  <1>5. ASSUME NEW v \in Users PROVE UserGood(v)'
    <2>1. UserGood(v) /\ call'[Crypt(v)] = call[Crypt(v)]
      BY <1>0, <1>3, CallFacts DEF Inv, k, TypeOK
    <2>2. CASE v = u
      <3>1. uc'[u] = "status" /\ record'[u] # "failure"
        BY <1>0, <1>1, <1>2 DEF TypeOK, UserGood
      <3> QED BY <1>1, <1>2, <2>1, <2>2, <3>1 DEF UserGood
    <2>3. CASE v # u
      <3>1. call'[Status(v)] = call[Status(v)]
        BY <1>0, <1>3, <2>3, CallFacts DEF k, TypeOK
      <3>2. uc'[v] = uc[v]
        BY <1>0, <1>2, <2>3 DEF TypeOK
      <3> QED BY <1>2, <2>1, <3>1, <3>2 DEF UserGood
    <2> QED BY <2>2, <2>3
  <1> QED BY <1>3, <1>4, <1>5 DEF Inv

\* The steps of a use case that make no call.
LEMMA UseCaseInv ==
    ASSUME Inv, NEW u \in Users,
           \/ Done(u) \/ BareDone(u) \/ Failed(u) \/ RecordSuccess(u) \/ RecordError(u) \/ Denied(u)
    PROVE  Inv'
  <1> USE DEF GotoUc
  <1>0. TypeOK /\ UserGood(u) /\ CallGood(Status(u)) /\ Crypt(u) \in Calls /\ Status(u) \in Calls
    BY CallFacts DEF Inv
  <1>1. UNCHANGED <<boots, server, kind, want, exchange>>
    BY DEF Done, BareDone, Failed, RecordSuccess, RecordError, Denied
  <1>2. TypeOK'
    <2>1. uc' \in [Users -> {"idle", "crypt", "status", "audit", "ok", "error"}]
      BY <1>0 DEF TypeOK, Done, BareDone, Failed, RecordSuccess, RecordError, Denied
    <2>2. label' \in [Users -> {0, 1}]
      BY <1>0 DEF TypeOK, Done, BareDone, Failed, RecordSuccess, RecordError, Denied, Status
    <2>3. record' \in [Users -> {"none", "success", "failure"}]
      BY <1>0 DEF TypeOK, Done, BareDone, Failed, RecordSuccess, RecordError, Denied
    <2> QED BY <1>0, <1>1, <2>1, <2>2, <2>3 DEF TypeOK, boots, server, exchange
  <1>3. ASSUME NEW k \in Calls PROVE CallGood(k)'
    BY <1>1 DEF Inv, CallGood, Accepts, server, exchange
  <1>4. UserGood(u)'
    <2> USE <1>0, <1>1 DEF TypeOK, UserGood, exchange
    <2>1. CASE Done(u)
      BY <2>1 DEF Done, Crypt, Status
    <2>2. CASE BareDone(u)
      BY <2>2 DEF BareDone, Crypt
    <2>3. CASE Failed(u)
      BY <2>3 DEF Failed
    <2>4. CASE RecordSuccess(u)
      BY <2>4 DEF RecordSuccess
    <2>5. CASE RecordError(u)
      BY <2>5 DEF RecordError
    <2>6. CASE Denied(u)
      BY <2>6 DEF Denied
    <2> QED BY <2>1, <2>2, <2>3, <2>4, <2>5, <2>6
  <1>5. ASSUME NEW v \in Users \ {u} PROVE UserGood(v)'
    <2>1. UserGood(v)
      BY DEF Inv
    <2>2. uc'[v] = uc[v] /\ label'[v] = label[v] /\ record'[v] = record[v]
      BY <1>0 DEF TypeOK, Done, BareDone, Failed, RecordSuccess, RecordError, Denied
    <2> QED BY <1>1, <2>1, <2>2 DEF UserGood, exchange
  <1> QED BY <1>2, <1>3, <1>4, <1>5 DEF Inv

LEMMA StepInv == ASSUME Inv, [Next]_vars PROVE Inv'
  <1>1. CASE Probe \/ ProbeError \/ Wake \/ Toggle \/ UNCHANGED vars
    <2>1. UNCHANGED <<server, useCase, exchange>>
      BY <1>1 DEF Probe, ProbeError, Wake, Toggle, vars
    <2>2. TypeOK'
      BY <1>1, <2>1 DEF Inv, TypeOK, Probe, ProbeError, Wake, Toggle, vars, boots, server,
                        useCase, exchange
    <2>3. ASSUME NEW k \in Calls PROVE CallGood(k)'
      BY <2>1 DEF Inv, CallGood, Accepts, server, useCase, exchange
    <2>4. ASSUME NEW u \in Users PROVE UserGood(u)'
      BY <2>1 DEF Inv, UserGood, useCase, exchange
    <2> QED BY <2>2, <2>3, <2>4 DEF Inv
  <1> QED BY <1>1, ClientInv, ServeInv, VhsmInv, BeginInv, AskVersionInv, UseCaseInv DEF Next

LEMMA InvHolds == Spec => []Inv
  BY InitInv, StepInv, PTL DEF Spec

-----------------------------------------------------------------------------
\* Every variable keeps its type.
THEOREM ClientTypeCorrect == Spec => []TypeOK
  BY InvHolds, PTL DEF Inv

\* A use case answers only with what the vHSM has done and the audit log has,
\* and labels it with the version it was sealed under, or with 0 after a new
\* start of the vHSM.
THEOREM AnswersOnRecord == Spec => []AnsweredOnRecord
  <1>1. ASSUME Inv PROVE AnsweredOnRecord
    <2> SUFFICES ASSUME NEW u \in Users
                 PROVE  /\ uc[u] = "ok" => runs[Crypt(u)] = 1
                        /\ uc[u] = "ok" /\ kind[u] # "bare" => record[u] = "success"
                        /\ uc[u] = "ok" /\ kind[u] \in {"encrypt", "datakey"} =>
                             \/ label[u] = reply[Crypt(u)].version
                             \/ label[u] = 0 /\ reply[Status(u)].start > reply[Crypt(u)].start
                        /\ uc[u] = "ok" /\ kind[u] = "bare" => want[u] \in {0, reply[Crypt(u)].version}
                        /\ record[u] = "failure" => uc[u] = "error"
      BY DEF AnsweredOnRecord, Crypt, Status
    <2>0. TypeOK /\ UserGood(u) /\ CallGood(Crypt(u)) /\ CallGood(Status(u))
          /\ Crypt(u) \in Calls /\ Status(u) \in Calls /\ Crypt(u)[2] = "crypt" /\ Crypt(u)[1] = u
      BY <1>1, CallFacts DEF Inv
    <2>1. uc[u] = "ok" => reply[Crypt(u)].ok /\ Accepts(Crypt(u))
      BY <2>0 DEF UserGood, CallGood
    <2>2. uc[u] = "ok" /\ kind[u] \in {"encrypt", "datakey"} =>
            reply[Status(u)].ok /\ label[u] = reply[Status(u)].version
      BY <2>0 DEF UserGood, CallGood
    <2>3. uc[u] = "ok" => runs[Crypt(u)] = 1 /\ reply[Crypt(u)].version = 1
      BY <2>0, <2>1 DEF CallGood
    <2>4. reply[Status(u)].version \in {0, 1}
      BY <2>0 DEF TypeOK
    <2> QED BY <2>0, <2>1, <2>2, <2>3, <2>4 DEF UserGood, Accepts
  <1> QED BY <1>1, InvHolds, PTL

\* One step of the client, the vHSM or a use case is one of HsmCall, or changes
\* nothing there.
LEMMA CallStep == ASSUME Inv, [Next]_vars PROVE [Abstract!Next]_(Abstract!vars)
  <1> USE DEF Abstract!vars, Abstract!Return, Goto, Return
  <1>1. ASSUME NEW k \in Calls, Client(k) PROVE [Abstract!Next]_(Abstract!vars)
    <2>0. TypeOK /\ CallGood(k)
      BY DEF Inv
    <2>1. CASE Connect(k) \/ Write(k) \/ ReadLength(k)
      BY <2>1 DEF Connect, Write, ReadLength
    <2>2. CASE CallError(k)
      BY <2>0, <2>2 DEF CallError, CallGood, Abstract!Next, Abstract!Fail
    <2>3. CASE ReadBody(k)
      <3>1. call[k] = "pending" /\ UNCHANGED runs
        BY <2>0, <2>3 DEF ReadBody, CallGood
      <3>2. CASE reply[k].ok /\ Accepts(k)
        BY <2>0, <2>3, <3>1, <3>2 DEF ReadBody, CallGood, Abstract!Next, Abstract!Succeed
      <3>3. CASE ~(reply[k].ok /\ Accepts(k))
        BY <2>3, <3>1, <3>3 DEF ReadBody, Abstract!Next, Abstract!Fail
      <3> QED BY <3>2, <3>3
    <2> QED BY <1>1, <2>1, <2>2, <2>3 DEF Client
  <1>2. ASSUME NEW k \in Calls, Serve(k) PROVE [Abstract!Next]_(Abstract!vars)
    <2>0. PICK done \in BOOLEAN : runs' = [runs EXCEPT ![k] = IF done THEN @ + 1 ELSE @]
      BY <1>2 DEF Serve
    <2>1. conn[k] = "frame" /\ UNCHANGED call /\ TypeOK
      BY <1>2 DEF Serve, Inv
    <2>2. runs[k] = 0 /\ call[k] # "new" /\ call[k] # "ok"
      BY <2>1 DEF Inv, CallGood
    <2>3. CASE done
      <3>1. runs' = [runs EXCEPT ![k] = 1]
        <4>1. runs' = [runs EXCEPT ![k] = runs[k] + 1]
          BY <2>0, <2>3, Zenon
        <4> QED BY <4>1, <2>2
      <3>2. Abstract!Run(k)
        BY <2>1, <2>2, <3>1 DEF Abstract!Run
      <3> QED BY <3>2 DEF Abstract!Next
    <2>4. CASE ~done
      <3>1. runs' = runs
        BY <2>0, <2>1, <2>4 DEF TypeOK
      <3> QED BY <2>1, <3>1
    <2> QED BY <2>3, <2>4
  <1>3. ASSUME NEW u \in Users, Begin(u) PROVE [Abstract!Next]_(Abstract!vars)
    <2>1. Crypt(u) \in Calls /\ call[Crypt(u)] = "new"
      BY <1>3, CallFacts DEF Inv, UserGood, Begin
    <2>2. call' = [call EXCEPT ![Crypt(u)] = "pending"] /\ UNCHANGED runs
      BY <1>3 DEF Begin, Make, Crypt
    <2>3. Abstract!Make(Crypt(u))
      BY <2>1, <2>2 DEF Abstract!Make
    <2> QED BY <2>1, <2>3 DEF Abstract!Next
  <1>4. ASSUME NEW u \in Users, AskVersion(u) PROVE [Abstract!Next]_(Abstract!vars)
    <2>1. Status(u) \in Calls /\ call[Status(u)] = "new"
      BY <1>4, CallFacts DEF Inv, UserGood, AskVersion
    <2>2. call' = [call EXCEPT ![Status(u)] = "pending"] /\ UNCHANGED runs
      BY <1>4 DEF AskVersion, Make, Status
    <2>3. Abstract!Make(Status(u))
      BY <2>1, <2>2 DEF Abstract!Make
    <2> QED BY <2>1, <2>3 DEF Abstract!Next
  <1>5. ASSUME NEW u \in Users,
               \/ Done(u) \/ BareDone(u) \/ Failed(u) \/ RecordSuccess(u) \/ RecordError(u) \/ Denied(u)
        PROVE  UNCHANGED <<call, runs>>
    BY <1>5 DEF Done, BareDone, Failed, RecordSuccess, RecordError, Denied, exchange
  <1>6. CASE Unseal \/ VhsmRestart \/ Probe \/ ProbeError \/ Wake \/ Toggle \/ UNCHANGED vars
    BY <1>6 DEF Unseal, VhsmRestart, Probe, ProbeError, Wake, Toggle, vars, exchange
  <1>7. ASSUME NEW k \in Calls, Drop(k) PROVE UNCHANGED <<call, runs>>
    BY <1>7 DEF Drop
  <1> QED BY <1>1, <1>2, <1>3, <1>4, <1>5, <1>6, <1>7 DEF Next

\* The exchange of frames, with its timeouts, lost answers and restarts of the
\* vHSM, implements HsmCall.
THEOREM ClientImplementsCall == Spec => ImplementsCall
  <1>1. Init => Abstract!Init
    BY DEF Init, Abstract!Init
  <1>2. Inv /\ [Next]_vars => [Abstract!Next]_(Abstract!vars)
    BY CallStep
  <1> QED BY <1>1, <1>2, InvHolds, PTL DEF Spec, ImplementsCall, Abstract!Spec
=============================================================================
