------------------------- MODULE PortalRegistryProofs -------------------------
(***************************************************************************)
(* Proofs about PortalRegistry, for any number of requests, certificates,   *)
(* keys and clients: its type invariant, and what the portal promises about *)
(* revocation and registration.                                             *)
(***************************************************************************)
EXTENDS PortalRegistry, SequenceTheorems, FiniteSetTheorems, TLAPS

\* There are values to fill the fields of a free slot with.
LEMMA NoRequestType == NoRequest \in Request
<1>1. Certs # {} /\ Clients # {} /\ Keys # {}
  BY SomeAssumption, KeyAssumption
<1>2. /\ (CHOOSE c \in Certs : TRUE) \in Certs
      /\ (CHOOSE a \in Clients : TRUE) \in Clients
      /\ (CHOOSE k \in Keys : TRUE) \in Keys
  BY <1>1
<1> QED
  BY <1>2 DEF NoRequest, Request, Ops, Steps, Forms, Statuses, Results, Flags, KeyStates, CertStates

\* The types of what the handlers write; the history is kept by Watch.
RowTypes ==
  /\ certs \in [Certs -> CertStates]
  /\ revocations \in [Certs -> Nat]
  /\ keys \in [Keys -> KeyStates]
  /\ events \in Seq(Event)
  /\ req \in [Requests -> Request]

\* A slot that takes a request, or goes on with one, keeps the requests' type.
LEMMA SlotType ==
  ASSUME RowTypes, NEW r \in Requests, NEW q \in Request, req' = [req EXCEPT ![r] = q]
  PROVE  req' \in [Requests -> Request]
BY DEF RowTypes

\* What the handlers do with the fields of a request keeps its type.
LEMMA FieldTypes ==
  ASSUME NEW q \in Request, NEW pc \in Steps, NEW status \in Statuses, NEW flag \in Flags
  PROVE  /\ [q EXCEPT !.pc = pc] \in Request
         /\ [q EXCEPT !.pc = pc, !.status = status] \in Request
         /\ [q EXCEPT !.pc = pc, !.flag = flag] \in Request
BY DEF Request

\* The steps of a verification that only decide where it goes on.
LEMMA GotoTypes ==
  ASSUME RowTypes, NEW r \in Requests, UNCHANGED db,
         NEW pc \in Steps, NEW status \in Statuses, NEW flag \in Flags,
         \/ Goto(r, pc)
         \/ Decide(r, status)
         \/ req' = [req EXCEPT ![r].pc = pc, ![r].flag = flag]
  PROVE  RowTypes'
<1>0. req[r] \in Request /\ req \in [Requests -> Request]
  BY DEF RowTypes
<1>1. "count" \in Steps
  BY DEF Steps
<1> DEFINE q1 == [req[r] EXCEPT !.pc = pc]
           q2 == [req[r] EXCEPT !.pc = "count", !.status = status]
           q3 == [req[r] EXCEPT !.pc = pc, !.flag = flag]
<1>2. q1 \in Request /\ q2 \in Request /\ q3 \in Request
  BY <1>0, <1>1, FieldTypes
<1>3. req' = [req EXCEPT ![r] = q1] \/ req' = [req EXCEPT ![r] = q2] \/ req' = [req EXCEPT ![r] = q3]
  BY <1>0 DEF Goto, Decide
<1> HIDE DEF q1, q2, q3
<1>4. req' \in [Requests -> Request]
  BY <1>2, <1>3, SlotType
<1> QED
  BY <1>4 DEF RowTypes, db

\* Every verification step keeps the types.
LEMMA VerifyTypes ==
  ASSUME RowTypes, NEW r \in Requests, VerifyStep(r)
  PROVE  RowTypes'
<1>0. req[r] \in Request /\ NoRequest \in Request
  BY NoRequestType DEF RowTypes
<1>n. /\ "verify" \in Ops
      /\ {"cert", "key", "verify", "count", "storm", "insert"} \subseteq Steps
      /\ {"signed", "altered", "rebuilt"} \subseteq Forms
      /\ {"valid", "invalid", "tampered", "not_found", "revoked", "error"} \subseteq Statuses
      /\ {"none", "rapid", "storm"} \subseteq Flags
  BY DEF Ops, Steps, Forms, Statuses, Results, Flags
<1>1. ASSUME NEW c \in Certs, NEW a \in Clients, StartLookup(r, c, a)
      PROVE  RowTypes'
  <2>1. certs[c] \in CertStates
    BY DEF RowTypes
  <2> DEFINE q == [NoRequest EXCEPT !.op = "verify", !.pc = "cert", !.cert = c, !.client = a,
                                    !.form = "rebuilt", !.began = certs[c]]
  <2>2. q \in Request
    BY <1>0, <1>n, <2>1 DEF Request
  <2>3. req' = [req EXCEPT ![r] = q] /\ UNCHANGED db
    BY <1>1 DEF StartLookup, Begin
  <2> QED
    BY <2>2, <2>3, SlotType DEF RowTypes, db
<1>2. ASSUME NEW c \in Certs, NEW a \in Clients, NEW form \in {"signed", "altered"},
             StartUpload(r, c, a, form)
      PROVE  RowTypes'
  <2> DEFINE q == [NoRequest EXCEPT !.op = "verify", !.pc = "key", !.cert = c, !.client = a,
                                    !.form = form]
  <2>1. q \in Request
    BY <1>0, <1>n DEF Request
  <2>2. req' = [req EXCEPT ![r] = q] /\ UNCHANGED db
    BY <1>2 DEF StartUpload, Begin
  <2> QED
    BY <2>1, <2>2, SlotType DEF RowTypes, db
<1>3. CASE ReadCert(r)
  <2>1. certs[req[r].cert] \in {"absent", "stored", "revoked"}
    BY <1>0 DEF RowTypes, Request, CertStates
  <2>2. UNCHANGED db /\ (Goto(r, "key") \/ Decide(r, "not_found") \/ Decide(r, "revoked"))
    BY <1>3, <2>1 DEF ReadCert
  <2> QED
    BY <2>2, <1>n, GotoTypes
<1>4. CASE ReadKey(r)
  BY <1>4, <1>n, GotoTypes DEF ReadKey
<1>5. CASE Verify(r)
  <2>1. req[r].form \in {"signed", "altered", "rebuilt"}
    BY <1>0 DEF Request, Forms
  <2>2. Outcomes(req[r].form) \subseteq Statuses
    BY <2>1, <1>n DEF Outcomes
  <2> QED
    BY <2>2, <1>5, <1>n, GotoTypes DEF Verify
<1>6. CASE CountEvents(r)
  BY <1>6, <1>n, GotoTypes DEF CountEvents
<1>7. CASE CountTampered(r)
  BY <1>7, <1>n, GotoTypes DEF CountTampered
<1>8. CASE LogEvent(r)
  <2>1. [cert |-> req[r].cert, client |-> req[r].client, result |-> req[r].status,
         flag |-> req[r].flag] \in Event
    BY <1>8, <1>0 DEF LogEvent, Loggable, Request, Event
  <2>2. events' \in Seq(Event)
    BY <2>1, <1>8, AppendProperties DEF LogEvent, RowTypes
  <2>3. req' \in [Requests -> Request]
    BY <1>8, <1>0, SlotType DEF LogEvent, Answer
  <2> QED
    BY <2>2, <2>3, <1>8 DEF LogEvent, RowTypes
<1>9. CASE LogFails(r)
  BY <1>9, <1>0, SlotType DEF LogFails, Answer, RowTypes, db
<1> QED
  BY <1>1, <1>2, <1>3, <1>4, <1>5, <1>6, <1>7, <1>8, <1>9 DEF VerifyStep

\* So does every step of a registration or a revocation ...
LEMMA CertTypes ==
  ASSUME RowTypes, NEW r \in Requests, CertStep(r)
  PROVE  RowTypes'
<1> USE DEF Ops, Steps, CertStates
<1>0. req[r] \in Request /\ NoRequest \in Request
  BY NoRequestType DEF RowTypes
<1>1. ASSUME NEW c \in Certs, StartRegister(r, c)
      PROVE  RowTypes'
  <2> DEFINE q == [NoRequest EXCEPT !.op = "register", !.pc = "write", !.cert = c]
  <2>1. q \in Request
    BY <1>0 DEF Request
  <2>2. req' = [req EXCEPT ![r] = q] /\ UNCHANGED db
    BY <1>1 DEF StartRegister, Begin
  <2> QED
    BY <2>1, <2>2, SlotType DEF RowTypes, db
<1>2. ASSUME NEW c \in Certs, StartRevoke(r, c)
      PROVE  RowTypes'
  <2> DEFINE q == [NoRequest EXCEPT !.op = "revoke", !.pc = "write", !.cert = c]
  <2>1. q \in Request
    BY <1>0 DEF Request
  <2>2. req' = [req EXCEPT ![r] = q] /\ UNCHANGED db
    BY <1>2 DEF StartRevoke, Begin
  <2> QED
    BY <2>1, <2>2, SlotType DEF RowTypes, db
<1>3. req[r].cert \in Certs
  BY <1>0 DEF Request
<1>4. CASE WriteCert(r)
  <2>1. req' \in [Requests -> Request]
    BY <1>4, <1>0, SlotType DEF WriteCert, Answer
  <2> QED
    BY <2>1, <1>3, <1>4 DEF WriteCert, RowTypes
<1>5. CASE WriteRevocation(r)
  <2>1. req' \in [Requests -> Request]
    BY <1>5, <1>0, SlotType DEF WriteRevocation, Answer
  <2>2. certs' \in [Certs -> CertStates]
    BY <1>3, <1>5 DEF WriteRevocation, RowTypes
  <2>3. revocations' \in [Certs -> Nat]
    BY <1>3, <1>5 DEF WriteRevocation, RowTypes
  <2> QED
    BY <2>1, <2>2, <2>3, <1>5 DEF WriteRevocation, RowTypes
<1> QED
  BY <1>1, <1>2, <1>4, <1>5 DEF CertStep

\* ... and every step that registers or rotates a key.
LEMMA KeyTypes ==
  ASSUME RowTypes, NEW r \in Requests, KeyStep(r)
  PROVE  RowTypes'
<1> USE DEF Ops, Steps, KeyStates
<1>0. req[r] \in Request /\ NoRequest \in Request
  BY NoRequestType DEF RowTypes
<1>1. ASSUME NEW k \in Keys, NEW n \in Keys, StartRotate(r, k, n)
      PROVE  RowTypes'
  <2> DEFINE q == [NoRequest EXCEPT !.op = "rotate", !.pc = "new", !.old = k, !.new = n,
                                    !.sawOld = keys[k]]
  <2>1. q \in Request
    BY <1>0 DEF Request, RowTypes
  <2>2. req' = [req EXCEPT ![r] = q] /\ UNCHANGED db
    BY <1>1 DEF StartRotate, Begin
  <2> QED
    BY <2>1, <2>2, SlotType DEF RowTypes, db
<1>2. ASSUME NEW k \in Keys, StartAddKey(r, k)
      PROVE  RowTypes'
  <2> DEFINE q == [NoRequest EXCEPT !.op = "addkey", !.pc = "write", !.new = k,
                                    !.sawNew = keys[k]]
  <2>1. q \in Request
    BY <1>0 DEF Request, RowTypes
  <2>2. req' = [req EXCEPT ![r] = q] /\ UNCHANGED db
    BY <1>2 DEF StartAddKey, Begin
  <2> QED
    BY <2>1, <2>2, SlotType DEF RowTypes, db
<1>3. CASE ReadNew(r)
  <2>1. keys[req[r].new] \in KeyStates /\ req[r].sawOld \in KeyStates
    BY <1>0 DEF Request, RowTypes
  <2> QED
    BY <1>0, <1>3, <2>1 DEF ReadNew, Request, RowTypes, db
<1>4. CASE WriteKeys(r)
  <2>1. req' \in [Requests -> Request]
    BY <1>4, <1>0, SlotType DEF WriteKeys, Answer
  <2>2. keys' \in [Keys -> KeyStates]
    BY <1>4 DEF WriteKeys, RowTypes
  <2> QED
    BY <2>1, <2>2, <1>4 DEF WriteKeys, RowTypes
<1> QED
  BY <1>1, <1>2, <1>3, <1>4 DEF KeyStep

\* The type invariant of the portal's database and requests.
THEOREM TypeCorrect == Spec => []TypeOK
<1>1. Init => TypeOK
  BY NoRequestType, EmptySeq DEF Init, TypeOK, CertStates, KeyStates
<1>2. TypeOK /\ [Next]_vars => TypeOK'
  <2> SUFFICES ASSUME TypeOK, [Next]_vars PROVE TypeOK'
    OBVIOUS
  <2>1. RowTypes
    BY DEF TypeOK, RowTypes
  <2>2. CASE UNCHANGED vars
    BY <2>2 DEF TypeOK, vars, db
  <2>3. CASE Next
    <3>1. RowTypes'
      BY <2>1, <2>3, VerifyTypes, CertTypes, KeyTypes DEF Next
    <3>2. overlapped' \subseteq Requests
      BY <2>3 DEF Next, Watch, Rotating, TypeOK
    <3> QED
      BY <3>1, <3>2 DEF RowTypes, TypeOK
  <2> QED
    BY <2>2, <2>3
<1> QED
  BY <1>1, <1>2, PTL DEF Spec

-----------------------------------------------------------------------------
(* Revocation and registration.                                            *)

\* A certificate's row goes from absent to stored to revoked and never back.
LEMMA CertsForward ==
  ASSUME TypeOK, [Next]_vars, NEW c \in Certs
  PROVE  /\ certs[c] = "revoked" => certs'[c] = "revoked"
         /\ certs[c] # "absent" => certs'[c] # "absent"
<1>1. CASE UNCHANGED certs
  BY <1>1
<1>2. ASSUME NEW r \in Requests, WriteCert(r) \/ WriteRevocation(r)
      PROVE  /\ certs[c] = "revoked" => certs'[c] = "revoked"
             /\ certs[c] # "absent" => certs'[c] # "absent"
  BY <1>2 DEF TypeOK, WriteCert, WriteRevocation
<1> QED
  BY <1>1, <1>2 DEF Next, vars, db, VerifyStep, CertStep, KeyStep, StartLookup, StartUpload,
     ReadCert, ReadKey, Verify, CountEvents, CountTampered, LogEvent, LogFails, StartRegister,
     StartRevoke, StartRotate, StartAddKey, ReadNew, WriteKeys, Begin

\* Nothing takes a revocation back (RevocationStays): not a registration that
\* read the table before the certificate was there, not a second revocation.
THEOREM RevocationFinal == Spec => RevocationStays
<1>1. TypeOK /\ [Next]_vars => [\A c \in Certs : certs[c] = "revoked" => certs'[c] = "revoked"]_vars
  BY CertsForward
<1> QED
  BY <1>1, TypeCorrect, PTL DEF Spec, RevocationStays

\* A certificate is marked as revoked exactly when it has a revocation, and has
\* one at most (RevocationRecorded), however many administrators revoke it.
THEOREM RevocationOnce == Spec => []RevocationRecorded
<1>1. Init => RevocationRecorded
  BY DEF Init, RevocationRecorded
<1>2. TypeOK /\ RevocationRecorded /\ [Next]_vars => RevocationRecorded'
  <2> SUFFICES ASSUME TypeOK, RevocationRecorded, [Next]_vars PROVE RevocationRecorded'
    OBVIOUS
  <2>1. CASE UNCHANGED <<certs, revocations>>
    BY <2>1 DEF RevocationRecorded
  <2>2. ASSUME NEW r \in Requests, WriteCert(r)
        PROVE  RevocationRecorded'
    BY <2>2 DEF WriteCert, RevocationRecorded, TypeOK
  <2>3. ASSUME NEW r \in Requests, WriteRevocation(r)
        PROVE  RevocationRecorded'
    BY <2>3 DEF WriteRevocation, RevocationRecorded, TypeOK
  <2> QED
    BY <2>1, <2>2, <2>3 DEF Next, vars, db, VerifyStep, CertStep, KeyStep, StartLookup,
       StartUpload, ReadCert, ReadKey, Verify, CountEvents, CountTampered, LogEvent, LogFails,
       StartRegister, StartRevoke, StartRotate, StartAddKey, ReadNew, WriteKeys, Begin
<1> QED
  BY <1>1, <1>2, TypeCorrect, PTL DEF Spec

-----------------------------------------------------------------------------
(* What a lookup answers.                                                  *)

\* What a lookup saw when it began still holds in the table, and it goes
\* straight from a revoked row to the answer.
Faithful(q, table) ==
  q.op = "verify" /\ q.began # "absent" =>
    /\ table[q.cert] # "absent"
    /\ q.status # "not_found"
    /\ q.began = "revoked" =>
         /\ table[q.cert] = "revoked"
         /\ q.pc \in {"cert", "count", "storm", "insert"}
         /\ q.pc # "cert" => q.status = "revoked"
AllFaithful == \A r \in Requests : Faithful(req[r], certs)

\* Rows only go forward, so it suffices to look at the request that takes the step.
LEMMA SlotFaithful ==
  ASSUME TypeOK, [Next]_vars, AllFaithful, NEW r \in Requests,
         \A s \in Requests \ {r} : req'[s] = req[s],
         Faithful(req'[r], certs')
  PROVE  AllFaithful'
<1>1. ASSUME NEW s \in Requests \ {r} PROVE Faithful(req'[s], certs')
  <2>1. req'[s] = req[s] /\ req[s].cert \in Certs /\ Faithful(req[s], certs)
    BY DEF TypeOK, AllFaithful, Request
  <2> QED
    BY <2>1, CertsForward DEF Faithful
<1> QED
  BY <1>1 DEF AllFaithful

\* What a step makes of the request that takes it, and of no other.
LEMMA OneSlot ==
  ASSUME TypeOK, NEW r \in Requests, NEW q, req' = [req EXCEPT ![r] = q]
  PROVE  req'[r] = q /\ \A s \in Requests \ {r} : req'[s] = req[s]
BY DEF TypeOK

\* A request that ends has nothing to be faithful to.
LEMMA FreeFaithful ==
  ASSUME NEW table PROVE Faithful(NoRequest, table)
BY DEF Faithful, NoRequest

\* Every lookup stays faithful.
LEMMA FaithfulStep ==
  ASSUME TypeOK, [Next]_vars, AllFaithful
  PROVE  AllFaithful'
<1>0. ASSUME NEW r \in Requests PROVE req[r] \in Request /\ Faithful(req[r], certs)
  BY DEF TypeOK, AllFaithful
<1>1. CASE UNCHANGED vars
  BY <1>1 DEF AllFaithful, vars, db
<1>2. ASSUME NEW r \in Requests, VerifyStep(r) PROVE AllFaithful'
  <2>1. ASSUME NEW c \in Certs, NEW a \in Clients, StartLookup(r, c, a) PROVE AllFaithful'
    <3>1. Faithful(req'[r], certs') /\ \A s \in Requests \ {r} : req'[s] = req[s]
      BY <2>1 DEF StartLookup, Begin, NoRequest, Faithful, TypeOK, db
    <3> QED
      BY <3>1, SlotFaithful
  <2>2. ASSUME NEW c \in Certs, NEW a \in Clients, NEW form \in {"signed", "altered"},
               StartUpload(r, c, a, form)
        PROVE  AllFaithful'
    <3>1. Faithful(req'[r], certs') /\ \A s \in Requests \ {r} : req'[s] = req[s]
      BY <2>2 DEF StartUpload, Begin, NoRequest, Faithful, TypeOK, db
    <3> QED
      BY <3>1, SlotFaithful
  <2>3. CASE ReadCert(r)
    <3>1. certs[req[r].cert] \in {"absent", "stored", "revoked"} /\ certs' = certs
      BY <2>3, <1>0 DEF ReadCert, TypeOK, CertStates, Request, db
    <3>2. ASSUME NEW q, req' = [req EXCEPT ![r] = q], Faithful(q, certs) PROVE AllFaithful'
      BY <3>1, <3>2, OneSlot, SlotFaithful
    <3>3. CASE certs[req[r].cert] = "absent"
      <4> DEFINE q == [req[r] EXCEPT !.pc = "count", !.status = "not_found"]
      <4>1. req' = [req EXCEPT ![r] = q]
        BY <3>3, <2>3, <1>0 DEF ReadCert, Decide, TypeOK
      <4>2. Faithful(q, certs)
        BY <3>3, <1>0 DEF Faithful, Request
      <4> QED
        BY <4>1, <4>2, <3>2
    <3>4. CASE certs[req[r].cert] = "revoked"
      <4> DEFINE q == [req[r] EXCEPT !.pc = "count", !.status = "revoked"]
      <4>1. req' = [req EXCEPT ![r] = q]
        BY <3>4, <2>3, <1>0 DEF ReadCert, Decide, TypeOK
      <4>2. Faithful(q, certs)
        BY <3>4, <1>0 DEF Faithful, Request
      <4> QED
        BY <4>1, <4>2, <3>2
    <3>5. CASE certs[req[r].cert] = "stored"
      <4> DEFINE q == [req[r] EXCEPT !.pc = "key"]
      <4>1. req' = [req EXCEPT ![r] = q]
        BY <3>5, <2>3, <1>0 DEF ReadCert, Goto, TypeOK
      <4>2. Faithful(q, certs)
        BY <3>5, <1>0 DEF Faithful, Request
      <4> QED
        BY <4>1, <4>2, <3>2
    <3> QED
      BY <3>1, <3>3, <3>4, <3>5
  <2>4. CASE ReadKey(r)
    <3>1. UNCHANGED certs /\ req[r].op = "verify" /\ req[r].pc = "key"
      BY <2>4 DEF ReadKey, At, db
    <3>2. /\ \A s \in Requests \ {r} : req'[s] = req[s]
          /\ req'[r].op = req[r].op /\ req'[r].began = req[r].began /\ req'[r].cert = req[r].cert
          /\ req'[r].status \in {req[r].status, "error"}
      BY <2>4, <1>0 DEF ReadKey, Goto, Decide, Request, TypeOK
    <3>3. Faithful(req'[r], certs')
      BY <1>0, <3>1, <3>2 DEF Faithful
    <3> QED
      BY <3>2, <3>3, SlotFaithful
  <2>5. CASE Verify(r)
    <3>1. PICK status \in Outcomes(req[r].form) : Decide(r, status)
      BY <2>5 DEF Verify
    <3>2. status # "not_found"
      BY <3>1, <1>0 DEF Outcomes, Request, Forms
    <3>3. Faithful(req'[r], certs') /\ \A s \in Requests \ {r} : req'[s] = req[s]
      BY <2>5, <3>1, <3>2, <1>0 DEF Verify, Decide, At, Faithful, Request, TypeOK, db
    <3> QED
      BY <3>3, SlotFaithful
  <2>6. CASE CountEvents(r)
    <3>1. Faithful(req'[r], certs') /\ \A s \in Requests \ {r} : req'[s] = req[s]
      BY <2>6, <1>0 DEF CountEvents, Goto, At, Faithful, Request, TypeOK, db
    <3> QED
      BY <3>1, SlotFaithful
  <2>7. CASE CountTampered(r)
    <3>1. Faithful(req'[r], certs') /\ \A s \in Requests \ {r} : req'[s] = req[s]
      BY <2>7, <1>0 DEF CountTampered, Goto, At, Faithful, Request, TypeOK, db
    <3> QED
      BY <3>1, SlotFaithful
  <2>8. CASE LogEvent(r) \/ LogFails(r)
    BY <2>8, OneSlot, FreeFaithful, SlotFaithful DEF LogEvent, LogFails, Answer
  <2> QED
    BY <1>2, <2>1, <2>2, <2>3, <2>4, <2>5, <2>6, <2>7, <2>8 DEF VerifyStep
<1>3. ASSUME NEW r \in Requests, CertStep(r) PROVE AllFaithful'
  <2>1. ASSUME NEW c \in Certs, StartRegister(r, c) \/ StartRevoke(r, c) PROVE AllFaithful'
    <3>1. \A s \in Requests \ {r} : req'[s] = req[s]
      BY <2>1 DEF StartRegister, StartRevoke, Begin, TypeOK
    <3>2. req'[r].op # "verify"
      <4> DEFINE Q(op) == [NoRequest EXCEPT !.op = op, !.pc = "write", !.cert = c]
      <4>1. Q("register").op # "verify" /\ Q("revoke").op # "verify"
        BY DEF NoRequest
      <4>2. \/ req' = [req EXCEPT ![r] = Q("register")]
            \/ req' = [req EXCEPT ![r] = Q("revoke")]
        BY <2>1 DEF StartRegister, StartRevoke, Begin
      <4> HIDE DEF Q
      <4> QED
        BY <4>1, <4>2 DEF TypeOK
    <3>3. Faithful(req'[r], certs')
      BY <3>2 DEF Faithful
    <3> QED
      BY <3>1, <3>3, SlotFaithful
  <2>2. CASE WriteCert(r) \/ WriteRevocation(r)
    BY <2>2, OneSlot, FreeFaithful, SlotFaithful DEF WriteCert, WriteRevocation, Answer
  <2> QED
    BY <1>3, <2>1, <2>2 DEF CertStep
<1>4. ASSUME NEW r \in Requests, KeyStep(r) PROVE AllFaithful'
  <2>1. ASSUME NEW k \in Keys, NEW n \in Keys, StartRotate(r, k, n) PROVE AllFaithful'
    <3>1. Faithful(req'[r], certs') /\ \A s \in Requests \ {r} : req'[s] = req[s]
      BY <2>1 DEF StartRotate, Begin, NoRequest, Faithful, TypeOK
    <3> QED
      BY <3>1, SlotFaithful
  <2>4. ASSUME NEW k \in Keys, StartAddKey(r, k) PROVE AllFaithful'
    <3>1. Faithful(req'[r], certs') /\ \A s \in Requests \ {r} : req'[s] = req[s]
      BY <2>4 DEF StartAddKey, Begin, NoRequest, Faithful, TypeOK
    <3> QED
      BY <3>1, SlotFaithful
  <2>2. CASE ReadNew(r)
    <3>1. Faithful(req'[r], certs') /\ \A s \in Requests \ {r} : req'[s] = req[s]
      BY <2>2, <1>0 DEF ReadNew, At, Faithful, Request, TypeOK
    <3> QED
      BY <3>1, SlotFaithful
  <2>3. CASE WriteKeys(r)
    BY <2>3, OneSlot, FreeFaithful, SlotFaithful DEF WriteKeys, Answer
  <2> QED
    BY <1>4, <2>1, <2>2, <2>3, <2>4 DEF KeyStep
<1> QED
  BY <1>1, <1>2, <1>3, <1>4 DEF Next

\* A lookup that began after the revocation of its certificate is told so
\* (RevokedSeen), and one that began after its registration finds it
\* (RegisteredFound), whatever is written while it runs.
THEOREM LookupsAnswerTruly == Spec => []LookupsSeeRecords
<1>1. Init => AllFaithful
  BY FreeFaithful DEF Init, AllFaithful
<1>2. AllFaithful => LookupsSeeRecords
  BY DEF AllFaithful, Faithful, LookupsSeeRecords, RevokedSeen, RegisteredFound, Verifying
<1> QED
  BY <1>1, <1>2, FaithfulStep, TypeCorrect, PTL DEF Spec

-----------------------------------------------------------------------------
(* What escapes the anomaly flags.                                         *)

\* Requests that have passed the first count, or both, without the flag, and
\* are still to write their event.
Counted(q) == q.op = "verify" /\ q.pc \in {"storm", "insert"} /\ q.flag # "rapid"
Waved(q) == q.op = "verify" /\ q.pc = "insert" /\ q.flag = "none" /\ q.status = "tampered"

PassedFor(c) == {r \in Requests : Counted(req[r]) /\ req[r].cert = c}
WavedFor(a) == {r \in Requests : Waved(req[r]) /\ req[r].client = a}
EscapedOf(c) == {i \in EventsOf(c) : events[i].flag # "rapid"}
EscapedFrom(a) == {i \in TamperedFrom(a) : events[i].flag = "none"}

\* A flag is set by the step that leads to the insert.
FlagsFresh == \A r \in Requests : req[r].op = "verify" /\ req[r].pc # "insert" => req[r].flag = "none"

\* The requests that have passed count against the bound like events.
BurstInv == \A c \in Certs :
  Cardinality(EscapedOf(c)) + Cardinality(PassedFor(c)) <= RapidThreshold + Cardinality(Requests) - 1
StormInv == \A a \in Clients :
  Cardinality(EscapedFrom(a)) + Cardinality(WavedFor(a)) <= TamperThreshold + Cardinality(Requests) - 1

\* A sum of two counts stays within a bound when an element moves from the
\* second set to the first, ...
LEMMA MoveKeepsSum ==
  ASSUME NEW B \in Int, NEW E1, NEW P1, NEW E2, NEW P2, IsFiniteSet(E1), IsFiniteSet(P1),
         Cardinality(E1) + Cardinality(P1) <= B, P2 \subseteq P1,
         E2 = E1 \/ \E x, r : E2 = E1 \cup {x} /\ r \in P1 \ P2
  PROVE  Cardinality(E2) + Cardinality(P2) <= B
<1>1. Cardinality(E1) \in Nat /\ Cardinality(P1) \in Nat
  BY FS_CardinalityType
<1>2. IsFiniteSet(P2) /\ Cardinality(P2) <= Cardinality(P1)
  BY FS_Subset
<1>3. Cardinality(P2) \in Nat
  BY <1>2, FS_CardinalityType
<1>4. CASE E2 = E1
  BY <1>1, <1>2, <1>3, <1>4
<1>5. ASSUME NEW x, NEW r, E2 = E1 \cup {x}, r \in P1 \ P2
      PROVE  Cardinality(E2) + Cardinality(P2) <= B
  <2>1. IsFiniteSet(P1 \ {r}) /\ Cardinality(P1 \ {r}) = Cardinality(P1) - 1
    BY <1>5, FS_RemoveElement
  <2>2. Cardinality(P2) <= Cardinality(P1 \ {r})
    <3>1. P2 \in SUBSET (P1 \ {r})
      BY <1>5
    <3> QED
      BY <2>1, <3>1, FS_Subset
  <2>3. Cardinality(E2) <= Cardinality(E1) + 1 /\ Cardinality(E2) \in Nat
    <3>1. Cardinality(E2) = IF x \in E1 THEN Cardinality(E1) ELSE Cardinality(E1) + 1
      BY <1>5, FS_AddElement
    <3> QED
      BY <1>1, <3>1
  <2> QED
    BY <1>1, <1>3, <2>1, <2>2, <2>3
<1> QED
  BY <1>4, <1>5

\* ... and it is within the bound while the threshold is not reached.
LEMMA BelowThreshold ==
  ASSUME NEW T \in Nat, NEW R, IsFiniteSet(R), NEW A, IsFiniteSet(A), Cardinality(A) < T,
         NEW E \in SUBSET A, NEW P \in SUBSET R
  PROVE  Cardinality(E) + Cardinality(P) <= T + Cardinality(R) - 1
<1>1. Cardinality(R) \in Nat /\ Cardinality(A) \in Nat
  BY FS_CardinalityType
<1>2. IsFiniteSet(E) /\ Cardinality(E) <= Cardinality(A) /\ IsFiniteSet(P)
      /\ Cardinality(P) <= Cardinality(R)
  BY FS_Subset
<1>3. Cardinality(E) \in Nat /\ Cardinality(P) \in Nat
  BY <1>2, FS_CardinalityType
<1> QED
  BY <1>1, <1>2, <1>3

\* The sets that are counted are finite.
LEMMA FiniteCounts ==
  ASSUME TypeOK, NEW c, NEW a
  PROVE  /\ IsFiniteSet(EventsOf(c)) /\ IsFiniteSet(TamperedFrom(a))
         /\ IsFiniteSet(EscapedOf(c)) /\ IsFiniteSet(EscapedFrom(a))
         /\ IsFiniteSet(PassedFor(c)) /\ IsFiniteSet(WavedFor(a))
<1>1. Len(events) \in Nat
  BY LenProperties DEF TypeOK
<1>2. IsFiniteSet(1..Len(events))
  BY <1>1, FS_Interval
<1>3. /\ EventsOf(c) \in SUBSET (1..Len(events)) /\ TamperedFrom(a) \in SUBSET (1..Len(events))
      /\ EscapedOf(c) \in SUBSET (1..Len(events)) /\ EscapedFrom(a) \in SUBSET (1..Len(events))
  BY DEF EventsOf, TamperedFrom, EscapedOf, EscapedFrom
<1>4. PassedFor(c) \in SUBSET Requests /\ WavedFor(a) \in SUBSET Requests
  BY DEF PassedFor, WavedFor
<1> QED
  BY <1>2, <1>3, <1>4, RequestsAssumption, FS_Subset

\* The four kinds of step, as far as events and flags are concerned: one request
\* changes and passes no count (Quiet), ...
Quiet(r, q) ==
  /\ req' = [req EXCEPT ![r] = q] /\ UNCHANGED events
  /\ ~(q.op = "verify" /\ q.pc \in {"storm", "insert"})
  /\ q.op = "verify" => q.flag = "none"

\* (a new request is of this kind)
LEMMA BeginIsQuiet ==
  ASSUME NEW r \in Requests, NEW q, Begin(r, q),
         q.pc \in {"cert", "key", "new", "write"}, q.flag = "none"
  PROVE  \E q2 : Quiet(r, q2)
BY DEF Begin, Quiet, db

\* ... or it passes the first count, or the second, or writes its event.
LEMMA StepKinds ==
  ASSUME TypeOK, FlagsFresh, [Next]_vars
  PROVE  \/ UNCHANGED <<req, events>>
         \/ \E r \in Requests :
              (\E q : Quiet(r, q)) \/ CountEvents(r) \/ CountTampered(r) \/ LogEvent(r)
<1> USE DEF Quiet
<1>0. ASSUME NEW r \in Requests PROVE NoRequest.op = "none" /\ req[r] \in Request
  BY DEF NoRequest, TypeOK
<1>1. ASSUME NEW r \in Requests, VerifyStep(r)
      PROVE  (\E q : Quiet(r, q)) \/ CountEvents(r) \/ CountTampered(r) \/ LogEvent(r)
  <2>1. ASSUME NEW c \in Certs, NEW a \in Clients, StartLookup(r, c, a) PROVE \E q : Quiet(r, q)
    <3> DEFINE q == [NoRequest EXCEPT !.op = "verify", !.pc = "cert", !.cert = c, !.client = a,
                                      !.form = "rebuilt", !.began = certs[c]]
    <3>1. Begin(r, q)
      BY <2>1 DEF StartLookup
    <3>2. q.pc \in {"cert", "key", "new", "write"} /\ q.flag = "none"
      BY DEF NoRequest
    <3> HIDE DEF q
    <3> QED
      BY <3>1, <3>2, BeginIsQuiet
  <2>2. ASSUME NEW c \in Certs, NEW a \in Clients, NEW form \in {"signed", "altered"},
               StartUpload(r, c, a, form)
        PROVE  \E q : Quiet(r, q)
    <3> DEFINE q == [NoRequest EXCEPT !.op = "verify", !.pc = "key", !.cert = c, !.client = a,
                                      !.form = form]
    <3>1. Begin(r, q)
      BY <2>2 DEF StartUpload
    <3>2. q.pc \in {"cert", "key", "new", "write"} /\ q.flag = "none"
      BY DEF NoRequest
    <3> HIDE DEF q
    <3> QED
      BY <3>1, <3>2, BeginIsQuiet
  <2>3. ASSUME NEW status, Decide(r, status), UNCHANGED db, At(r, "verify", req[r].pc),
               req[r].pc # "insert"
        PROVE  \E q : Quiet(r, q)
    <3> DEFINE q == [req[r] EXCEPT !.pc = "count", !.status = status]
    <3>1. req' = [req EXCEPT ![r] = q]
      BY <2>3, <1>0 DEF Decide, TypeOK
    <3>2. q.pc = "count" /\ q.flag = "none" /\ UNCHANGED events
      BY <2>3, <1>0 DEF At, FlagsFresh, db, Request
    <3> QED
      BY <3>1, <3>2
  <2>4. ASSUME NEW pc \in {"key", "verify"}, Goto(r, pc), UNCHANGED db, At(r, "verify", req[r].pc),
               req[r].pc # "insert"
        PROVE  \E q : Quiet(r, q)
    <3> DEFINE q == [req[r] EXCEPT !.pc = pc]
    <3>1. req' = [req EXCEPT ![r] = q]
      BY <2>4, <1>0 DEF Goto, TypeOK
    <3>2. q.pc = pc /\ q.flag = "none" /\ UNCHANGED events
      BY <2>4, <1>0 DEF At, FlagsFresh, db, Request
    <3> QED
      BY <3>1, <3>2
  <2>5. CASE ReadCert(r)
    <3>1. certs[req[r].cert] \in {"absent", "stored", "revoked"}
      BY <1>0 DEF TypeOK, Request, CertStates
    <3>2. UNCHANGED db /\ (Goto(r, "key") \/ Decide(r, "not_found") \/ Decide(r, "revoked"))
      BY <2>5, <3>1 DEF ReadCert
    <3> QED
      BY <2>5, <3>2, <2>3, <2>4 DEF ReadCert, At
  <2>6. CASE ReadKey(r)
    BY <2>6, <2>3, <2>4 DEF ReadKey, At
  <2>7. CASE Verify(r)
    BY <2>7, <2>3 DEF Verify, At
  <2>8. CASE LogFails(r)
    BY <2>8, <1>0 DEF LogFails, Answer, db
  <2> QED
    BY <1>1, <2>1, <2>2, <2>5, <2>6, <2>7, <2>8 DEF VerifyStep
<1>2. ASSUME NEW r \in Requests, CertStep(r) PROVE \E q : Quiet(r, q)
  <2>1. ASSUME NEW c \in Certs, StartRegister(r, c) PROVE \E q : Quiet(r, q)
    <3> DEFINE q == [NoRequest EXCEPT !.op = "register", !.pc = "write", !.cert = c]
    <3>1. Begin(r, q)
      BY <2>1 DEF StartRegister
    <3>2. q.pc \in {"cert", "key", "new", "write"} /\ q.flag = "none"
      BY DEF NoRequest
    <3> HIDE DEF q
    <3> QED
      BY <3>1, <3>2, BeginIsQuiet
  <2>3. ASSUME NEW c \in Certs, StartRevoke(r, c) PROVE \E q : Quiet(r, q)
    <3> DEFINE q == [NoRequest EXCEPT !.op = "revoke", !.pc = "write", !.cert = c]
    <3>1. Begin(r, q)
      BY <2>3 DEF StartRevoke
    <3>2. q.pc \in {"cert", "key", "new", "write"} /\ q.flag = "none"
      BY DEF NoRequest
    <3> HIDE DEF q
    <3> QED
      BY <3>1, <3>2, BeginIsQuiet
  <2>2. CASE WriteCert(r) \/ WriteRevocation(r)
    BY <2>2, <1>0 DEF WriteCert, WriteRevocation, Answer
  <2> QED
    BY <1>2, <2>1, <2>2, <2>3 DEF CertStep
<1>3. ASSUME NEW r \in Requests, KeyStep(r) PROVE \E q : Quiet(r, q)
  <2>1. ASSUME NEW k \in Keys, NEW n \in Keys, StartRotate(r, k, n) PROVE \E q : Quiet(r, q)
    <3> DEFINE q == [NoRequest EXCEPT !.op = "rotate", !.pc = "new", !.old = k, !.new = n,
                                      !.sawOld = keys[k]]
    <3>1. Begin(r, q)
      BY <2>1 DEF StartRotate
    <3>2. q.pc \in {"cert", "key", "new", "write"} /\ q.flag = "none"
      BY DEF NoRequest
    <3> HIDE DEF q
    <3> QED
      BY <3>1, <3>2, BeginIsQuiet
  <2>2. ASSUME NEW k \in Keys, StartAddKey(r, k) PROVE \E q : Quiet(r, q)
    <3> DEFINE q == [NoRequest EXCEPT !.op = "addkey", !.pc = "write", !.new = k, !.sawNew = keys[k]]
    <3>1. Begin(r, q)
      BY <2>2 DEF StartAddKey
    <3>2. q.pc \in {"cert", "key", "new", "write"} /\ q.flag = "none"
      BY DEF NoRequest
    <3> HIDE DEF q
    <3> QED
      BY <3>1, <3>2, BeginIsQuiet
  <2>3. CASE ReadNew(r)
    <3> DEFINE saw == IF req[r].new = req[r].old /\ req[r].sawOld # "absent"
                      THEN req[r].sawOld ELSE keys[req[r].new]
               q == [req[r] EXCEPT !.pc = "write", !.sawNew = saw]
    <3>1. req' = [req EXCEPT ![r] = q]
      BY <2>3, <1>0 DEF ReadNew, TypeOK
    <3>2. q.op = "rotate" /\ UNCHANGED events
      BY <2>3, <1>0 DEF ReadNew, At, db, Request
    <3> QED
      BY <3>1, <3>2
  <2>4. CASE WriteKeys(r)
    BY <2>4, <1>0 DEF WriteKeys, Answer
  <2> QED
    BY <1>3, <2>1, <2>2, <2>3, <2>4 DEF KeyStep
<1> QED
  BY <1>1, <1>2, <1>3 DEF Next, vars, db

\* No step puts a flag on a request that has not come to the insert.
LEMMA FreshStep ==
  ASSUME TypeOK, FlagsFresh, [Next]_vars
  PROVE  FlagsFresh'
<1>1. CASE UNCHANGED <<req, events>>
  BY <1>1 DEF FlagsFresh
<1>2. ASSUME NEW r \in Requests, NEW q, Quiet(r, q) PROVE FlagsFresh'
  BY <1>2 DEF Quiet, FlagsFresh, TypeOK
<1>3. ASSUME NEW r \in Requests, CountEvents(r) PROVE FlagsFresh'
  <2>1. req[r] \in Request /\ req[r].flag = "none"
    BY <1>3 DEF CountEvents, At, FlagsFresh, TypeOK
  <2>2. \A s \in Requests \ {r} : req'[s] = req[s]
    BY <1>3 DEF CountEvents, Goto, TypeOK
  <2>3. req'[r].pc = "insert" \/ req'[r].flag = req[r].flag
    BY <1>3, <2>1 DEF CountEvents, Goto, TypeOK, Request
  <2> QED
    BY <2>1, <2>2, <2>3 DEF FlagsFresh
<1>4. ASSUME NEW r \in Requests, CountTampered(r) PROVE FlagsFresh'
  <2>1. req[r] \in Request /\ req[r].flag = "none"
    BY <1>4 DEF CountTampered, At, FlagsFresh, TypeOK
  <2>2. \A s \in Requests \ {r} : req'[s] = req[s]
    BY <1>4 DEF CountTampered, Goto, TypeOK
  <2>3. req'[r].pc = "insert" \/ req'[r].flag = req[r].flag
    BY <1>4, <2>1 DEF CountTampered, Goto, TypeOK, Request
  <2> QED
    BY <2>1, <2>2, <2>3 DEF FlagsFresh
<1>5. ASSUME NEW r \in Requests, LogEvent(r) PROVE FlagsFresh'
  BY <1>5 DEF LogEvent, Answer, NoRequest, FlagsFresh, TypeOK
<1> QED
  BY <1>1, <1>2, <1>3, <1>4, <1>5, StepKinds

\* What LogEvent adds to the counted events.
LEMMA AppendCounts ==
  ASSUME TypeOK, NEW e \in Event, events' = Append(events, e), NEW c, NEW a
  PROVE  LET n == Len(events) + 1
         IN  /\ EventsOf(c)' = IF e.cert = c THEN EventsOf(c) \cup {n} ELSE EventsOf(c)
             /\ TamperedFrom(a)' = IF e.client = a /\ e.result = "tampered"
                                   THEN TamperedFrom(a) \cup {n} ELSE TamperedFrom(a)
             /\ EscapedOf(c)' = IF e.cert = c /\ e.flag # "rapid"
                                THEN EscapedOf(c) \cup {n} ELSE EscapedOf(c)
             /\ EscapedFrom(a)' = IF e.client = a /\ e.result = "tampered" /\ e.flag = "none"
                                  THEN EscapedFrom(a) \cup {n} ELSE EscapedFrom(a)
<1> DEFINE n == Len(events) + 1
<1>1. events \in Seq(Event) /\ Len(events) \in Nat
  BY LenProperties DEF TypeOK
<1>2. Len(events') = n /\ events'[n] = e /\ \A i \in 1..Len(events) : events'[i] = events[i]
  BY <1>1, AppendProperties
<1>3. 1..n = (1..Len(events)) \cup {n} /\ n \notin 1..Len(events)
  BY <1>1
<1> HIDE DEF n
<1>4. EventsOf(c)' = IF e.cert = c THEN EventsOf(c) \cup {n} ELSE EventsOf(c)
  BY <1>2, <1>3 DEF EventsOf
<1>5. TamperedFrom(a)' = IF e.client = a /\ e.result = "tampered"
                         THEN TamperedFrom(a) \cup {n} ELSE TamperedFrom(a)
  BY <1>2, <1>3 DEF TamperedFrom
<1>6. EscapedOf(c)' = IF e.cert = c /\ e.flag # "rapid" THEN EscapedOf(c) \cup {n} ELSE EscapedOf(c)
  <2>1. EscapedOf(c)' = {i \in 1..n : events'[i].cert = c /\ events'[i].flag # "rapid"}
    BY <1>2 DEF EscapedOf, EventsOf
  <2>2. EscapedOf(c) = {i \in 1..Len(events) : events[i].cert = c /\ events[i].flag # "rapid"}
    BY DEF EscapedOf, EventsOf
  <2> QED
    BY <2>1, <2>2, <1>2, <1>3
<1>7. EscapedFrom(a)' = IF e.client = a /\ e.result = "tampered" /\ e.flag = "none"
                        THEN EscapedFrom(a) \cup {n} ELSE EscapedFrom(a)
  <2>1. EscapedFrom(a)' = {i \in 1..n : /\ events'[i].client = a /\ events'[i].result = "tampered"
                                        /\ events'[i].flag = "none"}
    BY <1>2 DEF EscapedFrom, TamperedFrom
  <2>2. EscapedFrom(a) = {i \in 1..Len(events) : /\ events[i].client = a
                                                /\ events[i].result = "tampered"
                                                /\ events[i].flag = "none"}
    BY DEF EscapedFrom, TamperedFrom
  <2> QED
    BY <2>1, <2>2, <1>2, <1>3
<1> QED
  BY <1>4, <1>5, <1>6, <1>7 DEF n

\* The event that LogEvent writes.
LEMMA LogEventWrites ==
  ASSUME TypeOK, NEW r \in Requests, LogEvent(r)
  PROVE  LET e == [cert |-> req[r].cert, client |-> req[r].client, result |-> req[r].status,
                   flag |-> req[r].flag]
         IN  /\ e \in Event /\ events' = Append(events, e)
             /\ req' = [req EXCEPT ![r] = NoRequest]
             /\ req[r].op = "verify" /\ req[r].pc = "insert"
<1>1. req[r] \in Request
  BY DEF TypeOK
<1> QED
  BY <1>1 DEF LogEvent, Loggable, Request, Event, Answer, At

\* The bound on bursts, with the requests that have passed, is inductive.
LEMMA BurstStep ==
  ASSUME TypeOK, FlagsFresh, [Next]_vars, BurstInv
  PROVE  BurstInv'
<1> SUFFICES ASSUME NEW c \in Certs
             PROVE  Cardinality(EscapedOf(c)') + Cardinality(PassedFor(c)')
                      <= RapidThreshold + Cardinality(Requests) - 1
  BY DEF BurstInv
<1> DEFINE B == RapidThreshold + Cardinality(Requests) - 1
           E1 == EscapedOf(c)
           E2 == EscapedOf(c)'
           P1 == PassedFor(c)
           P2 == PassedFor(c)'
<1>0. B \in Int /\ IsFiniteSet(E1) /\ IsFiniteSet(P1) /\ Cardinality(E1) + Cardinality(P1) <= B
  BY FiniteCounts, RequestsAssumption, ThresholdAssumption, FS_CardinalityType DEF BurstInv
<1> HIDE DEF B
<1>1. ASSUME P2 \subseteq P1, E2 = E1 \/ \E x, r : E2 = E1 \cup {x} /\ r \in P1 \ P2
      PROVE  Cardinality(E2) + Cardinality(P2) <= B
  <2> HIDE DEF E1, E2, P1, P2
  <2> QED
    BY <1>0, <1>1, MoveKeepsSum
<1>2. CASE UNCHANGED <<req, events>>
  BY <1>1, <1>2 DEF EscapedOf, EventsOf, PassedFor, B
<1>3. ASSUME NEW r \in Requests, NEW q, Quiet(r, q)
      PROVE  Cardinality(E2) + Cardinality(P2) <= B
  <2>1. E2 = E1
    BY <1>3 DEF Quiet, EscapedOf, EventsOf
  <2>2. P2 \subseteq P1
    BY <1>3 DEF Quiet, PassedFor, Counted, TypeOK
  <2> QED
    BY <1>1, <2>1, <2>2
<1>4. ASSUME NEW r \in Requests, CountEvents(r)
      PROVE  Cardinality(E2) + Cardinality(P2) <= B
  <2>0. events' = events /\ E2 = E1
    BY <1>4 DEF CountEvents, EscapedOf, EventsOf, db
  <2>1. CASE Cardinality(EventsOf(req[r].cert)) >= RapidThreshold \/ req[r].cert # c
    <3>1. \A s \in Requests \ {r} : req'[s] = req[s]
      BY <1>4 DEF CountEvents, Goto, TypeOK
    <3>2. r \notin P2
      BY <1>4, <2>1 DEF CountEvents, Goto, TypeOK, Request, PassedFor, Counted
    <3>3. P2 \subseteq P1
      BY <3>1, <3>2 DEF PassedFor
    <3> QED
      BY <1>1, <2>0, <3>3
  <2>2. CASE ~(Cardinality(EventsOf(c)) >= RapidThreshold) /\ req[r].cert = c
    <3>1. IsFiniteSet(EventsOf(c))
      BY FiniteCounts
    <3>2. Cardinality(EventsOf(c)) \in Nat /\ RapidThreshold \in Nat
      BY <3>1, FS_CardinalityType, ThresholdAssumption
    <3>3. E2 \in SUBSET EventsOf(c) /\ P2 \in SUBSET Requests
      BY <2>0 DEF EscapedOf, PassedFor
    <3>4. Cardinality(EventsOf(c)) < RapidThreshold
      BY <2>2, <3>2
    <3> HIDE DEF E2, P2
    <3> QED
      BY <3>1, <3>2, <3>3, <3>4, BelowThreshold, RequestsAssumption DEF B
  <2> QED
    BY <2>1, <2>2
<1>5. ASSUME NEW r \in Requests, CountTampered(r)
      PROVE  Cardinality(E2) + Cardinality(P2) <= B
  <2>1. E2 = E1
    BY <1>5 DEF CountTampered, EscapedOf, EventsOf, db
  <2>2. r \in Requests /\ req[r].pc = "storm" /\ req[r].flag = "none" /\ req[r].op = "verify"
    BY <1>5 DEF CountTampered, At, FlagsFresh
  <2>3. (\A s \in Requests \ {r} : req'[s] = req[s]) /\ req'[r].cert = req[r].cert
    BY <1>5 DEF CountTampered, Goto, TypeOK, Request
  <2>4. P2 \subseteq P1
    BY <2>2, <2>3 DEF PassedFor, Counted
  <2> QED
    BY <1>1, <2>1, <2>4
<1>6. ASSUME NEW r \in Requests, LogEvent(r)
      PROVE  Cardinality(E2) + Cardinality(P2) <= B
  <2> DEFINE e == [cert |-> req[r].cert, client |-> req[r].client, result |-> req[r].status,
                   flag |-> req[r].flag]
  <2>1. /\ e \in Event /\ events' = Append(events, e) /\ req' = [req EXCEPT ![r] = NoRequest]
        /\ req[r].op = "verify" /\ req[r].pc = "insert"
    BY <1>6, LogEventWrites
  <2>2. E2 = IF e.cert = c /\ e.flag # "rapid" THEN E1 \cup {Len(events) + 1} ELSE E1
    <3> HIDE DEF e
    <3> QED
      BY <2>1, AppendCounts
  <2>3. P2 \subseteq P1 /\ r \notin P2
    BY <2>1 DEF PassedFor, Counted, NoRequest, TypeOK
  <2>4. req[r].cert = c /\ req[r].flag # "rapid" => r \in P1
    BY <2>1 DEF PassedFor, Counted
  <2> QED
    BY <1>1, <2>2, <2>3, <2>4
<1> QED
  BY <1>2, <1>3, <1>4, <1>5, <1>6, StepKinds DEF B

\* So is the bound on storms of tampered results.
LEMMA StormStep ==
  ASSUME TypeOK, FlagsFresh, [Next]_vars, StormInv
  PROVE  StormInv'
<1> SUFFICES ASSUME NEW a \in Clients
             PROVE  Cardinality(EscapedFrom(a)') + Cardinality(WavedFor(a)')
                      <= TamperThreshold + Cardinality(Requests) - 1
  BY DEF StormInv
<1> DEFINE B == TamperThreshold + Cardinality(Requests) - 1
           E1 == EscapedFrom(a)
           E2 == EscapedFrom(a)'
           P1 == WavedFor(a)
           P2 == WavedFor(a)'
<1>0. B \in Int /\ IsFiniteSet(E1) /\ IsFiniteSet(P1) /\ Cardinality(E1) + Cardinality(P1) <= B
  BY FiniteCounts, RequestsAssumption, ThresholdAssumption, FS_CardinalityType DEF StormInv
<1> HIDE DEF B
<1>1. ASSUME P2 \subseteq P1, E2 = E1 \/ \E x, r : E2 = E1 \cup {x} /\ r \in P1 \ P2
      PROVE  Cardinality(E2) + Cardinality(P2) <= B
  <2> HIDE DEF E1, E2, P1, P2
  <2> QED
    BY <1>0, <1>1, MoveKeepsSum
<1>2. CASE UNCHANGED <<req, events>>
  BY <1>1, <1>2 DEF EscapedFrom, TamperedFrom, WavedFor, B
<1>3. ASSUME NEW r \in Requests, NEW q, Quiet(r, q)
      PROVE  Cardinality(E2) + Cardinality(P2) <= B
  <2>1. E2 = E1
    BY <1>3 DEF Quiet, EscapedFrom, TamperedFrom
  <2>2. P2 \subseteq P1
    BY <1>3 DEF Quiet, WavedFor, Waved, TypeOK
  <2> QED
    BY <1>1, <2>1, <2>2
<1>4. ASSUME NEW r \in Requests, CountEvents(r)
      PROVE  Cardinality(E2) + Cardinality(P2) <= B
  <2>1. E2 = E1
    BY <1>4 DEF CountEvents, EscapedFrom, TamperedFrom, db
  <2>2. (\A s \in Requests \ {r} : req'[s] = req[s]) /\ req'[r].status = req[r].status
    BY <1>4 DEF CountEvents, Goto, TypeOK, Request
  <2>3. req'[r].flag = "rapid" \/ req'[r].pc = "storm" \/ req[r].status # "tampered"
    BY <1>4 DEF CountEvents, Goto, TypeOK, Request
  <2>4. P2 \subseteq P1
    BY <2>2, <2>3 DEF WavedFor, Waved
  <2> QED
    BY <1>1, <2>1, <2>4
<1>5. ASSUME NEW r \in Requests, CountTampered(r)
      PROVE  Cardinality(E2) + Cardinality(P2) <= B
  <2>0. events' = events /\ E2 = E1
    BY <1>5 DEF CountTampered, EscapedFrom, TamperedFrom, db
  <2>1. CASE Cardinality(TamperedFrom(req[r].client)) >= TamperThreshold \/ req[r].client # a
    <3>1. \A s \in Requests \ {r} : req'[s] = req[s]
      BY <1>5 DEF CountTampered, Goto, TypeOK
    <3>2. r \notin P2
      BY <1>5, <2>1 DEF CountTampered, Goto, TypeOK, Request, WavedFor, Waved
    <3>3. P2 \subseteq P1
      BY <3>1, <3>2 DEF WavedFor
    <3> QED
      BY <1>1, <2>0, <3>3
  <2>2. CASE ~(Cardinality(TamperedFrom(a)) >= TamperThreshold) /\ req[r].client = a
    <3>1. IsFiniteSet(TamperedFrom(a))
      BY FiniteCounts
    <3>2. Cardinality(TamperedFrom(a)) \in Nat /\ TamperThreshold \in Nat
      BY <3>1, FS_CardinalityType, ThresholdAssumption
    <3>3. E2 \in SUBSET TamperedFrom(a) /\ P2 \in SUBSET Requests
      BY <2>0 DEF EscapedFrom, WavedFor
    <3>4. Cardinality(TamperedFrom(a)) < TamperThreshold
      BY <2>2, <3>2
    <3> HIDE DEF E2, P2
    <3> QED
      BY <3>1, <3>2, <3>3, <3>4, BelowThreshold, RequestsAssumption DEF B
  <2> QED
    BY <2>1, <2>2
<1>6. ASSUME NEW r \in Requests, LogEvent(r)
      PROVE  Cardinality(E2) + Cardinality(P2) <= B
  <2> DEFINE e == [cert |-> req[r].cert, client |-> req[r].client, result |-> req[r].status,
                   flag |-> req[r].flag]
  <2>1. /\ e \in Event /\ events' = Append(events, e) /\ req' = [req EXCEPT ![r] = NoRequest]
        /\ req[r].op = "verify" /\ req[r].pc = "insert"
    BY <1>6, LogEventWrites
  <2>2. E2 = IF e.client = a /\ e.result = "tampered" /\ e.flag = "none"
             THEN E1 \cup {Len(events) + 1} ELSE E1
    <3> HIDE DEF e
    <3> QED
      BY <2>1, AppendCounts
  <2>3. P2 \subseteq P1 /\ r \notin P2
    BY <2>1 DEF WavedFor, Waved, NoRequest, TypeOK
  <2>4. req[r].client = a /\ req[r].status = "tampered" /\ req[r].flag = "none" => r \in P1
    BY <2>1 DEF WavedFor, Waved
  <2> QED
    BY <1>1, <2>2, <2>3, <2>4
<1> QED
  BY <1>2, <1>3, <1>4, <1>5, <1>6, StepKinds DEF B

\* Whatever the interleaving of the requests, at most threshold + requests - 1
\* events about a certificate escape the flag (BurstBound), and as many tampered
\* results of a client (StormBound).
THEOREM EscapesAreBounded == Spec => []EscapesBounded
<1>1. Init => FlagsFresh /\ BurstInv /\ StormInv
  <2> SUFFICES ASSUME Init PROVE FlagsFresh /\ BurstInv /\ StormInv
    OBVIOUS
  <2>1. \A r \in Requests : req[r].op = "none"
    BY DEF Init, NoRequest
  <2>2. Len(events) = 0
    BY DEF Init
  <2>3. 1..Len(events) = {}
    BY <2>2
  <2>4. \A c \in Certs, a \in Clients :
          EscapedOf(c) = {} /\ EscapedFrom(a) = {} /\ PassedFor(c) = {} /\ WavedFor(a) = {}
    BY <2>1, <2>3 DEF EscapedOf, EventsOf, EscapedFrom, TamperedFrom, PassedFor, WavedFor,
       Counted, Waved
  <2>5. Cardinality({}) = 0 /\ Cardinality(Requests) \in Nat /\ RapidThreshold \in Nat \ {0}
        /\ TamperThreshold \in Nat \ {0}
    BY FS_EmptySet, FS_CardinalityType, RequestsAssumption, ThresholdAssumption
  <2>6. FlagsFresh
    BY <2>1 DEF FlagsFresh
  <2>7. BurstInv
    <3>1. PICK a \in Clients : TRUE
      BY SomeAssumption
    <3>2. \A c \in Certs : Cardinality(EscapedOf(c)) = 0 /\ Cardinality(PassedFor(c)) = 0
      BY <2>4, <2>5, <3>1
    <3>3. 0 + 0 <= RapidThreshold + Cardinality(Requests) - 1
      BY <2>5
    <3> QED
      BY <3>2, <3>3 DEF BurstInv
  <2>8. StormInv
    <3>1. PICK c \in Certs : TRUE
      BY SomeAssumption
    <3>2. \A a \in Clients : Cardinality(EscapedFrom(a)) = 0 /\ Cardinality(WavedFor(a)) = 0
      BY <2>4, <2>5, <3>1
    <3>3. 0 + 0 <= TamperThreshold + Cardinality(Requests) - 1
      BY <2>5
    <3> QED
      BY <3>2, <3>3 DEF StormInv
  <2> QED
    BY <2>6, <2>7, <2>8
<1>2. TypeOK /\ BurstInv /\ StormInv => EscapesBounded
  <2> SUFFICES ASSUME TypeOK, BurstInv, StormInv PROVE EscapesBounded
    OBVIOUS
  <2>1. /\ Cardinality(Requests) \in Nat /\ RapidThreshold \in Nat /\ TamperThreshold \in Nat
    BY FS_CardinalityType, RequestsAssumption, ThresholdAssumption
  <2>2. ASSUME NEW c \in Certs
        PROVE  Cardinality(EscapedOf(c)) <= RapidThreshold + Cardinality(Requests) - 1
    <3>1. Cardinality(EscapedOf(c)) \in Nat /\ Cardinality(PassedFor(c)) \in Nat
      BY FiniteCounts, FS_CardinalityType
    <3> QED
      BY <2>1, <3>1 DEF BurstInv
  <2>3. ASSUME NEW a \in Clients
        PROVE  Cardinality(EscapedFrom(a)) <= TamperThreshold + Cardinality(Requests) - 1
    <3>1. Cardinality(EscapedFrom(a)) \in Nat /\ Cardinality(WavedFor(a)) \in Nat
      BY FiniteCounts, FS_CardinalityType
    <3> QED
      BY <2>1, <3>1 DEF StormInv
  <2> QED
    BY <2>2, <2>3 DEF EscapesBounded, BurstBound, StormBound, EscapedOf, EscapedFrom
<1> QED
  BY <1>1, <1>2, FreshStep, BurstStep, StormStep, TypeCorrect, PTL DEF Spec

\* The counts as functions of the table, to speak of the table before and after.
CertEvents(es, c) == {i \in 1..Len(es) : es[i].cert = c}
ClientTampers(es, a) == {i \in 1..Len(es) : es[i].client = a /\ es[i].result = "tampered"}

Justified(es, i) ==
  /\ es[i].flag = "rapid" =>
       Cardinality({j \in CertEvents(es, es[i].cert) : j < i}) >= RapidThreshold
  /\ es[i].flag = "storm" =>
       Cardinality({j \in ClientTampers(es, es[i].client) : j < i}) >= TamperThreshold

\* A request that carries a flag has seen the threshold reached.
FlagSeen(q, es) ==
  q.op = "verify" /\ q.pc = "insert" =>
    /\ q.flag = "rapid" => Cardinality(CertEvents(es, q.cert)) >= RapidThreshold
    /\ q.flag = "storm" => Cardinality(ClientTampers(es, q.client)) >= TamperThreshold
AllSeen == \A r \in Requests : FlagSeen(req[r], events)

\* Adding a number above all others to a set of numbers takes nothing from it.
LEMMA AddAbove ==
  ASSUME NEW N \in Nat, NEW A \in SUBSET (1..N), NEW A2, A2 = A \/ A2 = A \cup {N + 1}
  PROVE  /\ \A m \in Nat : Cardinality(A) >= m => Cardinality(A2) >= m
         /\ \A i \in 1..N : {j \in A2 : j < i} = {j \in A : j < i}
         /\ {j \in A2 : j < N + 1} = A
<1>1. IsFiniteSet(1..N)
  BY FS_Interval
<1>2. IsFiniteSet(A)
  BY <1>1, FS_Subset
<1>3. Cardinality(A2) \in {Cardinality(A), Cardinality(A) + 1}
  BY <1>2, FS_AddElement
<1>4. Cardinality(A) \in Nat
  BY <1>2, FS_CardinalityType
<1>5. \A m \in Nat : Cardinality(A) >= m => Cardinality(A2) >= m
  BY <1>3, <1>4
<1>6. \A j \in A : j \in Nat /\ j < N + 1
  OBVIOUS
<1>7. \A i \in 1..N : {j \in A2 : j < i} = {j \in A : j < i}
  OBVIOUS
<1>8. {j \in A2 : j < N + 1} = A
  <2>1. \A j \in A2 : j < N + 1 => j \in A
    OBVIOUS
  <2> QED
    BY <1>6, <2>1
<1> QED
  BY <1>5, <1>7, <1>8

\* Events are never taken away, so what was reached stays reached, and what was
\* before an event stays as it was.
LEMMA HistoryKept ==
  ASSUME NEW es \in Seq(Event), NEW e \in Event, NEW es2, es2 = Append(es, e)
  PROVE  /\ \A q : FlagSeen(q, es) => FlagSeen(q, es2)
         /\ \A i \in 1..Len(es) : Justified(es, i) => Justified(es2, i)
         /\ \A q : /\ FlagSeen(q, es) /\ q.op = "verify" /\ q.pc = "insert"
                   /\ q.flag = e.flag /\ q.cert = e.cert /\ q.client = e.client
                   => Justified(es2, Len(es) + 1)
<1> DEFINE N == Len(es)
<1>1. N \in Nat
  BY LenProperties
<1>2. Len(es2) = N + 1 /\ es2[N + 1] = e /\ \A i \in 1..N : es2[i] = es[i]
  BY AppendProperties
<1>3. 1..N + 1 = (1..N) \cup {N + 1} /\ N + 1 \notin 1..N
  BY <1>1
<1>4. RapidThreshold \in Nat /\ TamperThreshold \in Nat
  BY ThresholdAssumption
<1> HIDE DEF N
<1>5. ASSUME NEW c
      PROVE  /\ \A m \in Nat : Cardinality(CertEvents(es, c)) >= m => Cardinality(CertEvents(es2, c)) >= m
             /\ \A i \in 1..N : {j \in CertEvents(es2, c) : j < i} = {j \in CertEvents(es, c) : j < i}
             /\ {j \in CertEvents(es2, c) : j < N + 1} = CertEvents(es, c)
  <2> DEFINE A == CertEvents(es, c)
             A2 == CertEvents(es2, c)
  <2>1. A \in SUBSET (1..N)
    BY DEF CertEvents, N
  <2>2. A2 = A \/ A2 = A \cup {N + 1}
    <3>1. A = {i \in 1..N : es[i].cert = c}
      BY DEF CertEvents, N
    <3>2. A2 = {i \in 1..N + 1 : es2[i].cert = c}
      BY <1>2 DEF CertEvents
    <3> HIDE DEF A, A2
    <3> QED
      BY <1>2, <1>3, <3>1, <3>2
  <2> HIDE DEF A, A2
  <2>3. /\ \A m \in Nat : Cardinality(A) >= m => Cardinality(A2) >= m
        /\ \A i \in 1..N : {j \in A2 : j < i} = {j \in A : j < i}
        /\ {j \in A2 : j < N + 1} = A
    BY <1>1, <2>1, <2>2, AddAbove
  <2> QED
    BY <2>3 DEF A, A2
<1>6. ASSUME NEW a
      PROVE  /\ \A m \in Nat :
                  Cardinality(ClientTampers(es, a)) >= m => Cardinality(ClientTampers(es2, a)) >= m
             /\ \A i \in 1..N :
                  {j \in ClientTampers(es2, a) : j < i} = {j \in ClientTampers(es, a) : j < i}
             /\ {j \in ClientTampers(es2, a) : j < N + 1} = ClientTampers(es, a)
  <2> DEFINE A == ClientTampers(es, a)
             A2 == ClientTampers(es2, a)
  <2>1. A \in SUBSET (1..N)
    BY DEF ClientTampers, N
  <2>2. A2 = A \/ A2 = A \cup {N + 1}
    <3>1. A = {i \in 1..N : es[i].client = a /\ es[i].result = "tampered"}
      BY DEF ClientTampers, N
    <3>2. A2 = {i \in 1..N + 1 : es2[i].client = a /\ es2[i].result = "tampered"}
      BY <1>2 DEF ClientTampers
    <3> HIDE DEF A, A2
    <3> QED
      BY <1>2, <1>3, <3>1, <3>2
  <2> HIDE DEF A, A2
  <2>3. /\ \A m \in Nat : Cardinality(A) >= m => Cardinality(A2) >= m
        /\ \A i \in 1..N : {j \in A2 : j < i} = {j \in A : j < i}
        /\ {j \in A2 : j < N + 1} = A
    BY <1>1, <2>1, <2>2, AddAbove
  <2> QED
    BY <2>3 DEF A, A2
<1>7. ASSUME NEW q, FlagSeen(q, es) PROVE FlagSeen(q, es2)
  BY <1>4, <1>5, <1>6, <1>7 DEF FlagSeen
<1>8. ASSUME NEW i \in 1..N, Justified(es, i) PROVE Justified(es2, i)
  <2>1. es2[i] = es[i]
    BY <1>2
  <2>2. {j \in CertEvents(es2, es[i].cert) : j < i} = {j \in CertEvents(es, es[i].cert) : j < i}
    BY <1>5
  <2>3. {j \in ClientTampers(es2, es[i].client) : j < i} = {j \in ClientTampers(es, es[i].client) : j < i}
    BY <1>6
  <2> QED
    BY <1>8, <2>1, <2>2, <2>3 DEF Justified
<1>9. ASSUME NEW q, FlagSeen(q, es), q.op = "verify", q.pc = "insert",
             q.flag = e.flag, q.cert = e.cert, q.client = e.client
      PROVE  Justified(es2, N + 1)
  <2>1. {j \in CertEvents(es2, e.cert) : j < N + 1} = CertEvents(es, e.cert)
    BY <1>5
  <2>2. {j \in ClientTampers(es2, e.client) : j < N + 1} = ClientTampers(es, e.client)
    BY <1>6
  <2> QED
    BY <1>2, <1>9, <2>1, <2>2 DEF Justified, FlagSeen
<1> QED
  BY <1>7, <1>8, <1>9 DEF N

\* The flags of the table, in these terms.
JustInv == \A i \in 1..Len(events) : Justified(events, i)

\* Every step leaves every flag, in the table and in a request, justified.
LEMMA FlagsStep ==
  ASSUME TypeOK, FlagsFresh, AllSeen, JustInv, [Next]_vars
  PROVE  AllSeen' /\ JustInv'
<1>1. ASSUME UNCHANGED events PROVE JustInv'
  BY <1>1 DEF JustInv
<1>2. CASE UNCHANGED <<req, events>>
  BY <1>1, <1>2 DEF AllSeen
<1>3. ASSUME NEW r \in Requests, NEW q, Quiet(r, q) PROVE AllSeen' /\ JustInv'
  <2>1. UNCHANGED events /\ req' = [req EXCEPT ![r] = q] /\ FlagSeen(q, events)
    BY <1>3 DEF Quiet, FlagSeen
  <2> QED
    BY <1>1, <2>1 DEF AllSeen, TypeOK
<1>4. ASSUME NEW r \in Requests, CountEvents(r) PROVE AllSeen' /\ JustInv'
  <2>1. UNCHANGED events /\ req[r] \in Request /\ \A s \in Requests \ {r} : req'[s] = req[s]
    BY <1>4 DEF CountEvents, Goto, TypeOK, db
  <2>2. req[r].flag = "none"
    BY <1>4 DEF CountEvents, At, FlagsFresh
  <2>3. CASE Cardinality(EventsOf(req[r].cert)) >= RapidThreshold
    <3>1. req'[r].cert = req[r].cert /\ req'[r].flag = "rapid"
      BY <1>4, <2>1, <2>3 DEF CountEvents, TypeOK, Request
    <3>2. EventsOf(req[r].cert) = CertEvents(events, req[r].cert)
      BY DEF EventsOf, CertEvents
    <3> QED
      BY <1>1, <2>1, <2>3, <3>1, <3>2 DEF AllSeen, FlagSeen
  <2>4. CASE ~(Cardinality(EventsOf(req[r].cert)) >= RapidThreshold)
    <3>1. req'[r].flag = "none"
      BY <1>4, <2>1, <2>2, <2>4 DEF CountEvents, Goto, TypeOK, Request
    <3> QED
      BY <1>1, <2>1, <3>1 DEF AllSeen, FlagSeen
  <2> QED
    BY <2>3, <2>4
<1>5. ASSUME NEW r \in Requests, CountTampered(r) PROVE AllSeen' /\ JustInv'
  <2>1. UNCHANGED events /\ req[r] \in Request /\ \A s \in Requests \ {r} : req'[s] = req[s]
    BY <1>5 DEF CountTampered, Goto, TypeOK, db
  <2>2. req[r].flag = "none"
    BY <1>5 DEF CountTampered, At, FlagsFresh
  <2>3. CASE Cardinality(TamperedFrom(req[r].client)) >= TamperThreshold
    <3>1. req'[r].client = req[r].client /\ req'[r].flag = "storm"
      BY <1>5, <2>1, <2>3 DEF CountTampered, TypeOK, Request
    <3>2. TamperedFrom(req[r].client) = ClientTampers(events, req[r].client)
      BY DEF TamperedFrom, ClientTampers
    <3> QED
      BY <1>1, <2>1, <2>3, <3>1, <3>2 DEF AllSeen, FlagSeen
  <2>4. CASE ~(Cardinality(TamperedFrom(req[r].client)) >= TamperThreshold)
    <3>1. req'[r].flag = "none"
      BY <1>5, <2>1, <2>2, <2>4 DEF CountTampered, Goto, TypeOK, Request
    <3> QED
      BY <1>1, <2>1, <3>1 DEF AllSeen, FlagSeen
  <2> QED
    BY <2>3, <2>4
<1>6. ASSUME NEW r \in Requests, LogEvent(r) PROVE AllSeen' /\ JustInv'
  <2> DEFINE e == [cert |-> req[r].cert, client |-> req[r].client, result |-> req[r].status,
                   flag |-> req[r].flag]
  <2>1. /\ e \in Event /\ events' = Append(events, e) /\ req' = [req EXCEPT ![r] = NoRequest]
        /\ req[r].op = "verify" /\ req[r].pc = "insert"
    BY <1>6, LogEventWrites
  <2>2. events \in Seq(Event) /\ Len(events) \in Nat
    BY LenProperties DEF TypeOK
  <2>3. FlagSeen(req[r], events) /\ e.cert = req[r].cert /\ e.client = req[r].client
        /\ e.flag = req[r].flag
    BY DEF AllSeen
  <2> HIDE DEF e
  <2>4. Len(events') = Len(events) + 1
    BY <2>1, <2>2, AppendProperties
  <2>5. /\ \A q : FlagSeen(q, events) => FlagSeen(q, events')
        /\ \A i \in 1..Len(events) : Justified(events, i) => Justified(events', i)
        /\ Justified(events', Len(events) + 1)
    BY <2>1, <2>2, <2>3, HistoryKept
  <2>6. 1..Len(events') = (1..Len(events)) \cup {Len(events) + 1}
    BY <2>2, <2>4
  <2>7. JustInv'
    BY <2>5, <2>6 DEF JustInv
  <2>8. FlagSeen(NoRequest, events')
    BY DEF FlagSeen, NoRequest
  <2>9. AllSeen'
    BY <2>1, <2>5, <2>8 DEF AllSeen, TypeOK
  <2> QED
    BY <2>7, <2>9
<1> QED
  BY <1>2, <1>3, <1>4, <1>5, <1>6, StepKinds

\* No event carries a flag unless the threshold was reached before it
\* (FlagsJustified).
THEOREM FlagsAreJustified == Spec => []FlagsJustified
<1>1. Init => FlagsFresh /\ AllSeen /\ JustInv
  <2> SUFFICES ASSUME Init PROVE FlagsFresh /\ AllSeen /\ JustInv
    OBVIOUS
  <2>1. (\A r \in Requests : req[r].op = "none") /\ 1..Len(events) = {}
    BY DEF Init, NoRequest
  <2> QED
    BY <2>1 DEF FlagsFresh, AllSeen, FlagSeen, JustInv
<1>2. JustInv => FlagsJustified
  BY DEF JustInv, Justified, FlagsJustified, EventsOf, CertEvents, TamperedFrom, ClientTampers
<1> QED
  BY <1>1, <1>2, FreshStep, FlagsStep, TypeCorrect, PTL DEF Spec

-----------------------------------------------------------------------------
(* Rotations.                                                              *)

\* What a rotation that no other was open beside has read as active is active
\* when it writes.
SeenActive(q, table) ==
  q.op = "rotate" =>
    /\ q.sawOld = "active" => table[q.old] = "active"
    /\ q.pc = "write" /\ q.sawNew = "active" => table[q.new] = "active"
RotationInv ==
  /\ \A r, s \in Rotating : r # s => r \in overlapped
  /\ \A r \in Requests \ overlapped : SeenActive(req[r], keys)

\* Two rotations that are open after a step are overlapped, and what was
\* overlapped and is still open stays so.
LEMMA WatchKeeps ==
  ASSUME TypeOK, RotationInv, Watch
  PROVE  /\ \A r, s \in Rotating' : r # s => r \in overlapped'
         /\ \A r \in overlapped : r \in Rotating' => r \in overlapped'
BY DEF Watch, Rotating, TypeOK

\* While keys only become active, it suffices to look at the request that takes
\* the step.
LEMMA SlotRotation ==
  ASSUME TypeOK, RotationInv, Watch, NEW r \in Requests, NEW q, req' = [req EXCEPT ![r] = q],
         \A k \in Keys : keys[k] = "active" => keys'[k] = "active",
         r \in overlapped' \/ SeenActive(q, keys')
  PROVE  RotationInv'
<1>1. req'[r] = q /\ \A s \in Requests \ {r} : req'[s] = req[s]
  BY DEF TypeOK
<1>2. \A s \in Requests \ overlapped' : SeenActive(req'[s], keys')
  <2>1. ASSUME NEW s \in Requests \ {r}, s \notin overlapped' PROVE SeenActive(req'[s], keys')
    <3>1. req'[s] = req[s] /\ req[s].old \in Keys /\ req[s].new \in Keys
      BY <1>1 DEF TypeOK, Request
    <3>2. CASE s \in Rotating'
      <4>1. SeenActive(req[s], keys)
        BY <2>1, <3>2, WatchKeeps DEF RotationInv
      <4> QED
        BY <3>1, <4>1 DEF SeenActive
    <3>3. CASE s \notin Rotating'
      BY <3>3 DEF Rotating, SeenActive
    <3> QED
      BY <3>2, <3>3
  <2> QED
    BY <1>1, <2>1
<1> QED
  BY <1>2, WatchKeeps DEF RotationInv

\* What KeyRemains says of a step.
KeyKept ==
  (\E k \in Keys : keys[k] = "active") /\ (\A k \in Keys : keys'[k] # "active")
    => \E r \in overlapped : req'[r] # req[r]

\* Every step keeps what rotations that no other was open beside have read, and
\* an active key unless it ends another one.
LEMMA RotationStep ==
  ASSUME TypeOK, RotationInv, Next
  PROVE  RotationInv' /\ KeyKept
<1>0. ASSUME NEW r \in Requests
      PROVE  /\ NoRequest.op = "none" /\ req[r] \in Request
             /\ r \in overlapped \/ SeenActive(req[r], keys)
  BY DEF NoRequest, TypeOK, RotationInv
<1>w. Watch
  BY DEF Next
<1>1. ASSUME UNCHANGED keys PROVE KeyKept
  BY <1>1 DEF KeyKept
<1>3. ASSUME NEW r \in Requests, NEW q, req' = [req EXCEPT ![r] = q], UNCHANGED keys,
             q.op # "rotate"
      PROVE  RotationInv' /\ KeyKept
  <2>1. SeenActive(q, keys') /\ \A k \in Keys : keys[k] = "active" => keys'[k] = "active"
    BY <1>3 DEF SeenActive
  <2> QED
    BY <1>1, <1>3, <1>w, <2>1, SlotRotation
<1>4. ASSUME NEW r \in Requests, VerifyStep(r) PROVE RotationInv' /\ KeyKept
  <2>1. UNCHANGED keys
    <3>1. certs[req[r].cert] \in {"absent", "stored", "revoked"}
      BY <1>0 DEF TypeOK, Request, CertStates
    <3> QED
      BY <1>4, <3>1 DEF VerifyStep, StartLookup, StartUpload, Begin, ReadCert, ReadKey, Verify,
         CountEvents, CountTampered, LogEvent, LogFails, db
  <2>2. \E q : req' = [req EXCEPT ![r] = q] /\ q.op # "rotate"
    <3>1. ASSUME NEW q, Begin(r, q), q.op = "verify"
          PROVE  \E q2 : req' = [req EXCEPT ![r] = q2] /\ q2.op # "rotate"
      BY <3>1 DEF Begin
    <3>2. ASSUME NEW c \in Certs, NEW a \in Clients, StartLookup(r, c, a)
          PROVE  \E q2 : req' = [req EXCEPT ![r] = q2] /\ q2.op # "rotate"
      <4> DEFINE q == [NoRequest EXCEPT !.op = "verify", !.pc = "cert", !.cert = c, !.client = a,
                                        !.form = "rebuilt", !.began = certs[c]]
      <4>1. Begin(r, q)
        BY <3>2 DEF StartLookup
      <4>2. q.op = "verify"
        BY DEF NoRequest
      <4> HIDE DEF q
      <4> QED
        BY <3>1, <4>1, <4>2
    <3>3. ASSUME NEW c \in Certs, NEW a \in Clients, NEW form \in {"signed", "altered"},
                 StartUpload(r, c, a, form)
          PROVE  \E q2 : req' = [req EXCEPT ![r] = q2] /\ q2.op # "rotate"
      <4> DEFINE q == [NoRequest EXCEPT !.op = "verify", !.pc = "key", !.cert = c, !.client = a,
                                        !.form = form]
      <4>1. Begin(r, q)
        BY <3>3 DEF StartUpload
      <4>2. q.op = "verify"
        BY DEF NoRequest
      <4> HIDE DEF q
      <4> QED
        BY <3>1, <4>1, <4>2
    <3>4. ASSUME NEW pc, NEW status, NEW flag, req[r].op = "verify",
                 \/ Goto(r, pc) \/ Decide(r, status)
                 \/ req' = [req EXCEPT ![r].pc = pc, ![r].flag = flag]
          PROVE  \E q2 : req' = [req EXCEPT ![r] = q2] /\ q2.op # "rotate"
      <4> DEFINE q1 == [req[r] EXCEPT !.pc = pc]
                 q2 == [req[r] EXCEPT !.pc = "count", !.status = status]
                 q3 == [req[r] EXCEPT !.pc = pc, !.flag = flag]
      <4>1. q1.op = "verify" /\ q2.op = "verify" /\ q3.op = "verify"
        BY <1>0, <3>4 DEF Request
      <4>2. \/ req' = [req EXCEPT ![r] = q1] \/ req' = [req EXCEPT ![r] = q2]
            \/ req' = [req EXCEPT ![r] = q3]
        BY <3>4 DEF Goto, Decide, TypeOK
      <4> HIDE DEF q1, q2, q3
      <4> QED
        BY <4>1, <4>2
    <3>5. CASE ReadCert(r)
      <4>1. certs[req[r].cert] \in {"absent", "stored", "revoked"}
        BY <1>0 DEF TypeOK, Request, CertStates
      <4> QED
        BY <3>5, <4>1, <3>4 DEF ReadCert, At
    <3>6. CASE ReadKey(r)
      BY <3>6, <3>4 DEF ReadKey, At
    <3>7. CASE Verify(r)
      BY <3>7, <3>4 DEF Verify, At
    <3>8. CASE CountEvents(r)
      <4>1. /\ req[r].op = "verify"
            /\ \/ \E pc \in Steps : Goto(r, pc)
               \/ req' = [req EXCEPT ![r].pc = "insert", ![r].flag = "rapid"]
        BY <3>8 DEF CountEvents, At, Steps
      <4> QED
        BY <3>4, <4>1
    <3>9. CASE CountTampered(r)
      BY <3>9, <3>4 DEF CountTampered, At
    <3>10. CASE LogEvent(r) \/ LogFails(r)
      BY <3>10, <1>0 DEF LogEvent, LogFails, Answer
    <3> QED
      BY <1>4, <3>2, <3>3, <3>5, <3>6, <3>7, <3>8, <3>9, <3>10 DEF VerifyStep
  <2> QED
    BY <1>3, <2>1, <2>2
<1>5. ASSUME NEW r \in Requests, CertStep(r) PROVE RotationInv' /\ KeyKept
  <2>1. ASSUME NEW c \in Certs, StartRegister(r, c) PROVE RotationInv' /\ KeyKept
    <3> DEFINE q == [NoRequest EXCEPT !.op = "register", !.pc = "write", !.cert = c]
    <3>1. req' = [req EXCEPT ![r] = q] /\ UNCHANGED keys
      BY <2>1 DEF StartRegister, Begin, db
    <3>2. q.op # "rotate"
      BY DEF NoRequest
    <3> HIDE DEF q
    <3> QED
      BY <1>3, <3>1, <3>2
  <2>2. ASSUME NEW c \in Certs, StartRevoke(r, c) PROVE RotationInv' /\ KeyKept
    <3> DEFINE q == [NoRequest EXCEPT !.op = "revoke", !.pc = "write", !.cert = c]
    <3>1. req' = [req EXCEPT ![r] = q] /\ UNCHANGED keys
      BY <2>2 DEF StartRevoke, Begin, db
    <3>2. q.op # "rotate"
      BY DEF NoRequest
    <3> HIDE DEF q
    <3> QED
      BY <1>3, <3>1, <3>2
  <2>3. CASE WriteCert(r) \/ WriteRevocation(r)
    BY <2>3, <1>0, <1>3 DEF WriteCert, WriteRevocation, Answer
  <2> QED
    BY <1>5, <2>1, <2>2, <2>3 DEF CertStep
<1>6. ASSUME NEW r \in Requests, NEW k \in Keys, StartAddKey(r, k) PROVE RotationInv' /\ KeyKept
  <2> DEFINE q == [NoRequest EXCEPT !.op = "addkey", !.pc = "write", !.new = k, !.sawNew = keys[k]]
  <2>1. req' = [req EXCEPT ![r] = q] /\ UNCHANGED keys
    BY <1>6 DEF StartAddKey, Begin, db
  <2>2. q.op # "rotate"
    BY DEF NoRequest
  <2> HIDE DEF q
  <2> QED
    BY <1>3, <2>1, <2>2
<1>7. ASSUME NEW r \in Requests, NEW k \in Keys, NEW n \in Keys, StartRotate(r, k, n)
      PROVE  RotationInv' /\ KeyKept
  <2> DEFINE q == [NoRequest EXCEPT !.op = "rotate", !.pc = "new", !.old = k, !.new = n,
                                    !.sawOld = keys[k]]
  <2>1. req' = [req EXCEPT ![r] = q] /\ keys' = keys
    BY <1>7 DEF StartRotate, Begin, db
  <2>3. SeenActive(q, keys')
    BY <2>1 DEF SeenActive, NoRequest
  <2> HIDE DEF q
  <2> QED
    BY <1>1, <1>w, <2>1, <2>3, SlotRotation
<1>8. ASSUME NEW r \in Requests, ReadNew(r) PROVE RotationInv' /\ KeyKept
  <2> DEFINE saw == IF req[r].new = req[r].old /\ req[r].sawOld # "absent"
                    THEN req[r].sawOld ELSE keys[req[r].new]
             q == [req[r] EXCEPT !.pc = "write", !.sawNew = saw]
  <2>1. req' = [req EXCEPT ![r] = q] /\ keys' = keys /\ req[r].op = "rotate"
    BY <1>8, <1>0 DEF ReadNew, TypeOK, db, At
  <2>2. /\ q.op = "rotate" /\ q.old = req[r].old /\ q.new = req[r].new /\ q.pc = "write"
        /\ q.sawOld = req[r].sawOld /\ q.sawNew = saw
    BY <2>1, <1>0 DEF Request
  <2>3. r \in overlapped' \/ SeenActive(q, keys')
    <3>1. q.op = "rotate" /\ r \in Rotating'
      BY <2>1, <2>2 DEF Rotating, TypeOK
    <3>2. CASE r \in overlapped
      BY <1>w, <3>1, <3>2, WatchKeeps
    <3>3. CASE SeenActive(req[r], keys)
      BY <2>1, <2>2, <3>3 DEF SeenActive
    <3> QED
      BY <1>0, <3>2, <3>3
  <2> HIDE DEF q
  <2> QED
    BY <1>1, <1>w, <2>1, <2>3, SlotRotation
<1>9. ASSUME NEW r \in Requests, WriteKeys(r) PROVE RotationInv' /\ KeyKept
  <2>1. req' = [req EXCEPT ![r] = NoRequest]
    BY <1>9 DEF WriteKeys, Answer
  <2>2. req[r].new \in Keys /\ req[r].old \in Keys
    BY <1>0 DEF Request
  <2>3. CASE req[r].sawNew = "absent" /\ keys[req[r].new] # "absent"
    <3>1. UNCHANGED keys
      BY <1>9, <2>3 DEF WriteKeys
    <3> QED
      BY <1>0, <1>3, <2>1, <3>1
  <2>4. CASE ~(req[r].sawNew = "absent" /\ keys[req[r].new] # "absent")
    <3>1. keys' = [k \in Keys |->
               IF k = req[r].new /\ req[r].sawNew # "active" THEN "active"
               ELSE IF req[r].op = "rotate" /\ k = req[r].old /\ k # req[r].new
                       /\ req[r].sawOld = "active" THEN "inactive"
               ELSE keys[k]]
      BY <1>9, <2>4 DEF WriteKeys
    <3>2. req[r].pc = "write"
      BY <1>9 DEF WriteKeys
    <3>r. r \in overlapped => req'[r] # req[r]
      <4>1. req'[r] = NoRequest /\ NoRequest.pc = "free"
        BY <2>1 DEF TypeOK, NoRequest
      <4> QED
        BY <3>2, <4>1
    <3>3. KeyKept
      <4>1. CASE req[r].sawNew # "active"
        <5>1. keys'[req[r].new] = "active"
          BY <2>2, <3>1, <4>1
        <5> QED
          BY <2>2, <5>1 DEF KeyKept
      <4>2. CASE req[r].op = "rotate" /\ req[r].sawNew = "active" /\ SeenActive(req[r], keys)
        <5>1. keys'[req[r].new] = "active"
          BY <2>2, <3>1, <3>2, <4>2 DEF SeenActive
        <5> QED
          BY <2>2, <5>1 DEF KeyKept
      <4>3. CASE req[r].op # "rotate" /\ req[r].sawNew = "active"
        <5>1. \A k \in Keys : keys'[k] = keys[k]
          BY <3>1, <4>3
        <5> QED
          BY <5>1 DEF KeyKept
      <4>4. CASE r \in overlapped
        BY <3>r, <4>4 DEF KeyKept
      <4> QED
        BY <1>0, <4>1, <4>2, <4>3, <4>4
    <3>4. RotationInv'
      <4>1. req'[r] = NoRequest /\ \A s \in Requests \ {r} : req'[s] = req[s]
        BY <2>1 DEF TypeOK
      <4>2. ASSUME NEW s \in Requests, s # r, s \notin overlapped'
            PROVE  SeenActive(req'[s], keys')
        <5>1. req'[s] = req[s] /\ req[s].old \in Keys /\ req[s].new \in Keys
          BY <1>0, <4>1, <4>2 DEF Request
        <5>2. CASE req[s].op # "rotate"
          BY <5>1, <5>2 DEF SeenActive
        <5>3. CASE req[s].op = "rotate"
          <6>1. s \in Rotating /\ s \in Rotating'
            BY <5>1, <5>3 DEF Rotating
          <6>2. s \notin overlapped
            BY <1>w, <4>2, <6>1, WatchKeeps
          <6>3. SeenActive(req[s], keys) /\ req[r].op # "rotate"
            BY <4>2, <6>1, <6>2 DEF RotationInv, Rotating
          <6>4. \A k \in Keys : keys[k] = "active" => keys'[k] = "active"
            BY <3>1, <6>3
          <6> QED
            BY <5>1, <6>3, <6>4 DEF SeenActive
        <5> QED
          BY <5>2, <5>3
      <4>3. SeenActive(req'[r], keys')
        BY <1>0, <4>1 DEF SeenActive
      <4> QED
        BY <1>w, <4>2, <4>3, WatchKeeps DEF RotationInv
    <3> QED
      BY <3>3, <3>4
  <2> QED
    BY <2>3, <2>4
<1> QED
  BY <1>4, <1>5, <1>6, <1>7, <1>8, <1>9 DEF Next, KeyStep

\* However many rotations and registrations of keys run at once, the last active
\* key goes only at the end of a rotation that another was open beside
\* (KeyRemains): one that is alone always leaves an active key.
THEOREM LastKeyKept == Spec => KeyRemains
<1>1. Init => RotationInv
  BY DEF Init, NoRequest, RotationInv, Rotating, SeenActive
<1>2. TypeOK /\ RotationInv /\ [Next]_vars => RotationInv' /\ [KeyKept]_vars
  <2> SUFFICES ASSUME TypeOK, RotationInv, [Next]_vars PROVE RotationInv' /\ [KeyKept]_vars
    OBVIOUS
  <2>1. CASE UNCHANGED vars
    BY <2>1 DEF vars, db, RotationInv, Rotating, SeenActive
  <2>2. CASE Next
    BY <2>2, RotationStep
  <2> QED
    BY <2>1, <2>2
<1>3. [KeyKept]_vars => [(\E k \in Keys : keys[k] = "active") /\ (\A k \in Keys : keys'[k] # "active")
                           => \E r \in overlapped : req'[r] # req[r]]_vars
  BY DEF KeyKept
<1> QED
  BY <1>1, <1>2, <1>3, TypeCorrect, PTL DEF Spec, KeyRemains
=============================================================================
