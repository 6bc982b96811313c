--------------------------- MODULE PortalRegistry ---------------------------
(***************************************************************************)
(* The portal's database and the handlers that read and change it: api.py,  *)
(* registry_service.py, id_lookup_handler.py and audit_log_service.py of    *)
(* portal/backend/modules.                                                  *)
(*                                                                         *)
(* Every request runs in a database transaction of its own, in one of       *)
(* several threads and worker processes.  PostgreSQL's READ COMMITTED lets  *)
(* each statement see what is committed by then, so a handler decides on    *)
(* rows that may change before it writes; a step is one statement.  The     *)
(* writes of a handler come last; they and the commit are one step, since   *)
(* a write that an open transaction holds up is made when that one has      *)
(* committed.                                                               *)
(*                                                                         *)
(* What is counted for the anomaly flags is counted within a minute or ten; *)
(* the model's time is one such window.                                     *)
(***************************************************************************)
EXTENDS Naturals, Sequences, FiniteSets

CONSTANTS
  Requests,         \* what the portal works on at a time
  Certs,            \* certificates, by certificate_id
  Keys,             \* public keys, by fingerprint
  KeyOf,            \* the key each certificate was signed with
  Clients,          \* hashed client addresses
  RapidThreshold,   \* RAPID_REVERIFY_THRESHOLD
  TamperThreshold,  \* TAMPER_ALERT_THRESHOLD
  MaxEvents,        \* bound: verification events
  MaxRotateEvents   \* bound: events before the last rotation begins

ASSUME SomeAssumption == Certs # {} /\ Clients # {}
ASSUME KeyAssumption == KeyOf \in [Certs -> Keys]
ASSUME ThresholdAssumption == RapidThreshold \in Nat \ {0} /\ TamperThreshold \in Nat \ {0}
ASSUME BoundsAssumption == MaxEvents \in Nat /\ MaxRotateEvents \in Nat
ASSUME RequestsAssumption == IsFiniteSet(Requests)

VARIABLES
  certs,        \* the certificate's row: absent, stored, or stored and revoked
  revocations,  \* its rows in revocations
  keys,         \* the key's row: absent, active or inactive
  events,       \* the rows of verification_events, as they were committed
  req,          \* the requests
  overlapped    \* history: the open rotations that another was open beside

db == <<certs, revocations, keys, events>>
vars == <<db, req, overlapped>>

CertStates == {"absent", "stored", "revoked"}
KeyStates == {"absent", "active", "inactive"}
Results == {"valid", "invalid", "tampered", "not_found", "revoked"}   \* verification_result_enum
Statuses == Results \cup {"error"}                                    \* VerificationStatus
Flags == {"none", "rapid", "storm"}
Event == [cert : Certs, client : Clients, result : Results, flag : Flags]

\* What is verified: the certificate as it was signed, a copy that was changed
\* afterwards, or what _reconstruct_cert_dict makes of the row.
Forms == {"signed", "altered", "rebuilt"}
Ops == {"none", "verify", "register", "revoke", "addkey", "rotate"}
Steps == {"free", "cert", "key", "verify", "count", "storm", "insert", "new", "write"}

Request ==
  [op : Ops, pc : Steps, cert : Certs, form : Forms, client : Clients,
   status : Statuses, flag : Flags,
   old : Keys, new : Keys, sawOld : KeyStates, sawNew : KeyStates,
   began : CertStates]     \* the certificate's row when a lookup began

TypeOK ==
  /\ certs \in [Certs -> CertStates]
  /\ revocations \in [Certs -> Nat]
  /\ keys \in [Keys -> KeyStates]
  /\ events \in Seq(Event)
  /\ req \in [Requests -> Request]
  /\ overlapped \subseteq Requests

NoRequest ==
  [op |-> "none", pc |-> "free", cert |-> CHOOSE c \in Certs : TRUE, form |-> "signed",
   client |-> CHOOSE a \in Clients : TRUE, status |-> "error", flag |-> "none",
   old |-> CHOOSE k \in Keys : TRUE, new |-> CHOOSE k \in Keys : TRUE,
   sawOld |-> "absent", sawNew |-> "absent", began |-> "absent"]

Init ==
  /\ certs = [c \in Certs |-> "absent"]
  /\ revocations = [c \in Certs |-> 0]
  /\ keys = [k \in Keys |-> "absent"]
  /\ events = <<>>
  /\ req = [r \in Requests |-> NoRequest]
  /\ overlapped = {}

-----------------------------------------------------------------------------
(* Requests.                                                               *)

At(r, op, pc) == req[r].op = op /\ req[r].pc = pc
Begin(r, request) ==
  /\ req[r].pc = "free"
  /\ req' = [req EXCEPT ![r] = request]
  /\ UNCHANGED db
Goto(r, pc) == req' = [req EXCEPT ![r].pc = pc]
Decide(r, status) == req' = [req EXCEPT ![r].pc = "count", ![r].status = status]

\* The answer; which one, the properties do not ask.  A request that is refused
\* before its first write changes nothing and is no step.
Answer(r) == req' = [req EXCEPT ![r] = NoRequest]

-----------------------------------------------------------------------------
(* Verification: verify_by_id, verify_by_qr and verify_by_upload.          *)

Verifying == {r \in Requests : req[r].op = "verify"}
Room == Len(events) + Cardinality(Verifying) < MaxEvents

\* A lookup by ID, or by the ID in a QR code.
StartLookup(r, c, a) ==
  /\ Room
  /\ Begin(r, [NoRequest EXCEPT !.op = "verify", !.pc = "cert", !.cert = c, !.client = a,
                                !.form = "rebuilt", !.began = certs[c]])

\* A file that passes parse_and_validate_certificate; the certificates table is
\* not looked at.  The event of a file that does not pass is rolled back.
StartUpload(r, c, a, form) ==
  /\ Room
  /\ Begin(r, [NoRequest EXCEPT !.op = "verify", !.pc = "key", !.cert = c, !.client = a,
                                !.form = form])

\* Mutant: revocation is not looked at.
MutReadCertRevoked(r) ==
  /\ At(r, "verify", "cert")
  /\ IF certs[req[r].cert] = "absent" THEN Decide(r, "not_found") ELSE Goto(r, "key")
  /\ UNCHANGED db

ReadCert(r) ==
  /\ At(r, "verify", "cert")
  /\ CASE certs[req[r].cert] = "absent"  -> Decide(r, "not_found")
       [] certs[req[r].cert] = "revoked" -> Decide(r, "revoked")
       [] certs[req[r].cert] = "stored"  -> Goto(r, "key")
  /\ UNCHANGED db

\* Without an active key the answer is an error, or "unregistered" for a file,
\* which is logged as an error.
ReadKey(r) ==
  /\ At(r, "verify", "key")
  /\ IF keys[KeyOf[req[r].cert]] = "active" THEN Goto(r, "verify") ELSE Decide(r, "error")
  /\ UNCHANGED db

\* The signature is over every field.  What is rebuilt from the row is without
\* passes_total, and with another registry block, public_key_url and signed_at.
\* A verification may also take too long, or lose its process.
Outcomes(form) ==
  CASE form = "signed"  -> {"valid", "error"}
    [] form = "altered" -> {"tampered", "invalid", "error"}
    [] form = "rebuilt" -> {"tampered", "error"}

Verify(r) ==
  /\ At(r, "verify", "verify")
  /\ \E status \in Outcomes(req[r].form) : Decide(r, status)
  /\ UNCHANGED db

EventsOf(c) == {i \in 1..Len(events) : events[i].cert = c}
TamperedFrom(a) == {i \in 1..Len(events) : events[i].client = a /\ events[i].result = "tampered"}

\* Mutant: > for >=.
MutCountOver(r) ==
  /\ At(r, "verify", "count")
  /\ IF Cardinality(EventsOf(req[r].cert)) > RapidThreshold
     THEN req' = [req EXCEPT ![r].pc = "insert", ![r].flag = "rapid"]
     ELSE Goto(r, IF req[r].status = "tampered" THEN "storm" ELSE "insert")
  /\ UNCHANGED db

\* Mutant: the request counts itself.
MutCountSelf(r) ==
  /\ At(r, "verify", "count")
  /\ IF Cardinality(EventsOf(req[r].cert)) + 1 >= RapidThreshold
     THEN req' = [req EXCEPT ![r].pc = "insert", ![r].flag = "rapid"]
     ELSE Goto(r, IF req[r].status = "tampered" THEN "storm" ELSE "insert")
  /\ UNCHANGED db

\* _detect_anomaly, the first count ...
CountEvents(r) ==
  /\ At(r, "verify", "count")
  /\ IF Cardinality(EventsOf(req[r].cert)) >= RapidThreshold
     THEN req' = [req EXCEPT ![r].pc = "insert", ![r].flag = "rapid"]
     ELSE Goto(r, IF req[r].status = "tampered" THEN "storm" ELSE "insert")
  /\ UNCHANGED db

\* ... and the second.
CountTampered(r) ==
  /\ At(r, "verify", "storm")
  /\ IF Cardinality(TamperedFrom(req[r].client)) >= TamperThreshold
     THEN req' = [req EXCEPT ![r].pc = "insert", ![r].flag = "storm"]
     ELSE Goto(r, "insert")
  /\ UNCHANGED db

\* Mutant: the database takes every event.
MutLoggable(q) == TRUE

\* The event's result must be in the enumeration, its certificate in the table.
Loggable(q) == q.status \in Results /\ certs[q.cert] # "absent"

LogEvent(r) ==
  /\ At(r, "verify", "insert") /\ Loggable(req[r])
  /\ events' = Append(events, [cert |-> req[r].cert, client |-> req[r].client,
                               result |-> req[r].status, flag |-> req[r].flag])
  /\ Answer(r)
  /\ UNCHANGED <<certs, revocations, keys>>

\* What the insert raises replaces the answer that finally was to send.
LogFails(r) ==
  /\ At(r, "verify", "insert") /\ ~Loggable(req[r])
  /\ Answer(r)
  /\ UNCHANGED db

-----------------------------------------------------------------------------
(* Registration and revocation.                                            *)

\* A certificate that is there already is answered as registered.
StartRegister(r, c) ==
  /\ certs[c] = "absent"
  /\ Begin(r, [NoRequest EXCEPT !.op = "register", !.pc = "write", !.cert = c])

\* Mutant: the row is merged into the table.
MutWriteCert(r) ==
  /\ At(r, "register", "write")
  /\ certs' = [certs EXCEPT ![req[r].cert] = "stored"]
  /\ Answer(r)
  /\ UNCHANGED <<revocations, keys, events>>

\* A row that is there by now makes the insert fail.
WriteCert(r) ==
  /\ At(r, "register", "write")
  /\ IF certs[req[r].cert] = "absent"
     THEN certs' = [certs EXCEPT ![req[r].cert] = "stored"] /\ Answer(r)
     ELSE UNCHANGED certs /\ Answer(r)
  /\ UNCHANGED <<revocations, keys, events>>

\* Neither unknown nor revoked already, and the reason is not blank.
StartRevoke(r, c) ==
  /\ certs[c] = "stored"
  /\ Begin(r, [NoRequest EXCEPT !.op = "revoke", !.pc = "write", !.cert = c])

\* Mutant: certificate_id is not unique in revocations.
MutWriteRevocation(r) ==
  /\ At(r, "revoke", "write")
  /\ certs' = [certs EXCEPT ![req[r].cert] = "revoked"]
  /\ revocations' = [revocations EXCEPT ![req[r].cert] = @ + 1]
  /\ Answer(r)
  /\ UNCHANGED <<keys, events>>

\* A certificate has one revocation at most; an IntegrityError is not handled.
WriteRevocation(r) ==
  /\ At(r, "revoke", "write")
  /\ IF revocations[req[r].cert] = 0
     THEN /\ certs' = [certs EXCEPT ![req[r].cert] = "revoked"]
          /\ revocations' = [revocations EXCEPT ![req[r].cert] = 1]
          /\ Answer(r)
     ELSE /\ UNCHANGED <<certs, revocations>>
          /\ Answer(r)
  /\ UNCHANGED <<keys, events>>

-----------------------------------------------------------------------------
(* Public keys: register_public_key and rotate_public_key.                 *)

StartAddKey(r, k) ==
  Begin(r, [NoRequest EXCEPT !.op = "addkey", !.pc = "write", !.new = k, !.sawNew = keys[k]])

StartRotate(r, k, n) ==
  /\ Len(events) <= MaxRotateEvents
  /\ Begin(r, [NoRequest EXCEPT !.op = "rotate", !.pc = "new", !.old = k, !.new = n,
                                !.sawOld = keys[k]])

\* A row the session has is not read a second time.
ReadNew(r) ==
  /\ At(r, "rotate", "new")
  /\ req' = [req EXCEPT ![r].pc = "write",
               ![r].sawNew = IF req[r].new = req[r].old /\ req[r].sawOld # "absent"
                             THEN req[r].sawOld ELSE keys[req[r].new]]
  /\ UNCHANGED db

\* Mutant: the old key is deactivated after the new one was registered.
MutWriteKeys(r) ==
  /\ req[r].pc = "write" /\ req[r].op \in {"addkey", "rotate"}
  /\ keys' = [k \in Keys |->
       IF req[r].op = "rotate" /\ k = req[r].old /\ req[r].sawOld = "active" THEN "inactive"
       ELSE IF k = req[r].new THEN "active" ELSE keys[k]]
  /\ Answer(r)
  /\ UNCHANGED <<certs, revocations, events>>

\* SQLAlchemy writes what differs from what was read: a key that was read as
\* active is not set active again.
WriteKeys(r) ==
  /\ req[r].pc = "write" /\ req[r].op \in {"addkey", "rotate"}
  /\ IF req[r].sawNew = "absent" /\ keys[req[r].new] # "absent"
     THEN UNCHANGED keys /\ Answer(r)
     ELSE /\ keys' = [k \in Keys |->
               IF k = req[r].new /\ req[r].sawNew # "active" THEN "active"
               ELSE IF req[r].op = "rotate" /\ k = req[r].old /\ k # req[r].new
                       /\ req[r].sawOld = "active" THEN "inactive"
               ELSE keys[k]]
          /\ Answer(r)
  /\ UNCHANGED <<certs, revocations, events>>

-----------------------------------------------------------------------------
VerifyStep(r) ==
  \/ \E c \in Certs, a \in Clients : StartLookup(r, c, a)
  \/ \E c \in Certs, a \in Clients, form \in {"signed", "altered"} : StartUpload(r, c, a, form)
  \/ ReadCert(r) \/ ReadKey(r) \/ Verify(r)
  \/ CountEvents(r) \/ CountTampered(r) \/ LogEvent(r) \/ LogFails(r)
CertStep(r) ==
  \/ \E c \in Certs : StartRegister(r, c) \/ StartRevoke(r, c)
  \/ WriteCert(r) \/ WriteRevocation(r)
KeyStep(r) ==
  \/ \E k, n \in Keys : StartRotate(r, k, n)
  \/ \E k \in Keys : StartAddKey(r, k)
  \/ ReadNew(r) \/ WriteKeys(r)

\* Nothing in the code keeps two rotations apart.
Rotating == {r \in Requests : req[r].op = "rotate"}
Watch ==
  overlapped' = IF \E r, s \in Rotating' : r # s THEN Rotating' ELSE overlapped \cap Rotating'

Next == (\E r \in Requests : VerifyStep(r) \/ CertStep(r) \/ KeyStep(r)) /\ Watch

Spec == Init /\ [][Next]_vars

-----------------------------------------------------------------------------
(* Properties.                                                             *)

\* A lookup that began after the revocation of its certificate is told so, or
\* nothing; never that it is valid, tampered with or unknown.
RevokedSeen ==
  \A r \in Verifying : req[r].form = "rebuilt" /\ req[r].began = "revoked"
                       /\ req[r].pc \in {"count", "storm", "insert"} => req[r].status = "revoked"

\* A lookup that began after the registration of its certificate finds it.
RegisteredFound ==
  \A r \in Requests : req[r].op = "verify" /\ req[r].began # "absent" => req[r].status # "not_found"

\* Both: what was recorded before a lookup began, it takes into account, whatever
\* is written while it runs.
LookupsSeeRecords == RevokedSeen /\ RegisteredFound

\* A certificate is marked as revoked if and only if it has a revocation, and it
\* has one at most, however many administrators revoke it at once.
RevocationRecorded ==
  \A c \in Certs : revocations[c] = IF certs[c] = "revoked" THEN 1 ELSE 0

\* Nothing takes a revocation back, a repeated registration least of all.
RevocationStays == [][\A c \in Certs : certs[c] = "revoked" => certs'[c] = "revoked"]_vars

\* Requests that count at the same time miss each other, so more events than
\* the threshold escape the flag, but never more than there are requests.
BurstBound ==
  \A c \in Certs :
    Cardinality({i \in EventsOf(c) : events[i].flag # "rapid"})
      <= RapidThreshold + Cardinality(Requests) - 1
StormBound ==
  \A a \in Clients :
    Cardinality({i \in TamperedFrom(a) : events[i].flag = "none"})
      <= TamperThreshold + Cardinality(Requests) - 1
EscapesBounded == BurstBound /\ StormBound

\* An event is flagged only when the threshold was reached before it.
FlagsJustified ==
  \A i \in 1..Len(events) :
    /\ events[i].flag = "rapid" =>
         Cardinality({j \in EventsOf(events[i].cert) : j < i}) >= RapidThreshold
    /\ events[i].flag = "storm" =>
         Cardinality({j \in TamperedFrom(events[i].client) : j < i}) >= TamperThreshold

\* A rotation replaces a key: the last active one goes only at the end of a
\* rotation that another was open beside, such as the opposite one, which read
\* as active what this one takes back.  Registrations of keys do no such harm,
\* at whatever point of a rotation they come.
KeyRemains ==
  [][(\E k \in Keys : keys[k] = "active") /\ (\A k \in Keys : keys'[k] # "active")
       => \E r \in overlapped : req'[r] # req[r]]_vars

\* "Tampered" is the answer about a certificate that was changed after signing.
TamperedMeansAltered ==
  \A r \in Requests : req[r].op = "verify" /\ req[r].status = "tampered" => req[r].form = "altered"
=============================================================================
