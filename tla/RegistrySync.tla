---------------------------- MODULE RegistrySync ----------------------------
(***************************************************************************)
(* Registration of certificates, from desktop/modules/registry_client.py    *)
(* through the network to register_cert and register_certificate of         *)
(* portal/backend/modules.  A caller uploads a certificate (register); what *)
(* is not accepted goes to a SQLite queue; the UI's timer starts threads    *)
(* that run retry_pending over a snapshot of the queue, so two of them can  *)
(* be at work at once.  The UI itself calls register in retry_pending only; *)
(* the Submitter is any other caller of the client.  The portal handles     *)
(* every upload in a database transaction of its own, also one whose client *)
(* no longer waits.                                                         *)
(***************************************************************************)
EXTENDS Naturals, FiniteSets

CONSTANTS
  Certs,          \* certificates, by certificate_id
  Submitter,      \* a caller of register with a new certificate
  Retriers,       \* threads the retry timer may have running
  Slots,          \* bound: requests the portal has open at a time
  SuccessStatus,  \* HTTP status of an accepted registration
  MaxRetries,     \* max_retries of retry_pending
  MaxFailures,    \* bound: failures of network, portal and SQLite
  MaxCrashes,     \* bound: crashes of the desktop application
  WatchedRows,    \* ids of the queue rows that RowsRetire follows
  NoCert,         \* no certificate
  NoClient        \* no thread waits for the answer

Threads == {Submitter} \cup Retriers

ASSUME ThreadAssumption == Submitter \notin Retriers /\ NoClient \notin Threads
ASSUME CertAssumption == NoCert \notin Certs
ASSUME BoundAssumption == MaxRetries \in Nat /\ MaxFailures \in Nat /\ MaxCrashes \in Nat
ASSUME StatusAssumption == SuccessStatus \in {200, 201}

VARIABLES
  rows,       \* committed rows of the portal's certificates table, per certificate
  uploads,    \* the requests open at the portal
  queue,      \* rows of the client's registry_queue table
  queued,     \* number of rows ever inserted there
  pc,         \* where a thread is
  item,       \* what a thread works on
  todo,       \* rest of a retry thread's snapshot of the queue
  returned,   \* certificates for which register has returned to its caller
  raised,     \* certificates for which register has raised
  trusted,    \* certificates register has reported as registered
  failures,   \* failures so far
  crashes     \* crashes so far

portalVars == <<rows, uploads>>
queueVars == <<queue, queued>>
threadVars == <<pc, item, todo>>
resultVars == <<returned, raised, trusted>>
vars == <<portalVars, queueVars, threadVars, resultVars, failures, crashes>>

MaybeCert == Certs \cup {NoCert}
Causes == {"none", "accepted", "refused", "lost"}

\* The row being registered (id 0: a new certificate) and, once known, why its
\* upload was not accepted.
Item == [cert : MaybeCert, id : Nat, cause : Causes]
NoItem == [cert |-> NoCert, id |-> 0, cause |-> "none"]

\* An upload is sent, then checked (no such row yet), flushed (row inserted,
\* not committed), and finally accepted, refused or dropped.
UploadSteps == {"free", "sent", "checked", "flushed", "accepted", "refused", "dropped"}
Upload == [cert : MaybeCert, step : UploadSteps, client : Threads \cup {NoClient}]
FreeSlot == [cert |-> NoCert, step |-> "free", client |-> NoClient]
QueueRow == [id : Nat, cert : Certs, attempts : Nat, cause : Causes]
ThreadSteps == {"idle", "wait", "enqueue", "remove", "bump", "scan"}

TypeOK ==
  /\ rows \in [Certs -> Nat]
  /\ uploads \in [Slots -> Upload]
  /\ queue \subseteq QueueRow /\ queued \in Nat
  /\ pc \in [Threads -> ThreadSteps]
  /\ item \in [Threads -> Item]
  /\ todo \in [Threads -> SUBSET QueueRow]
  /\ returned \subseteq Certs /\ raised \subseteq Certs /\ trusted \subseteq Certs
  /\ failures \in 0..MaxFailures /\ crashes \in 0..MaxCrashes

Init ==
  /\ rows = [c \in Certs |-> 0]
  /\ uploads = [u \in Slots |-> FreeSlot]
  /\ queue = {} /\ queued = 0
  /\ pc = [t \in Threads |-> "idle"]
  /\ item = [t \in Threads |-> NoItem]
  /\ todo = [t \in Threads |-> {}]
  /\ returned = {} /\ raised = {} /\ trusted = {}
  /\ failures = 0 /\ crashes = 0

Goto(t, step) == pc' = [pc EXCEPT ![t] = step]
Fail == failures < MaxFailures /\ failures' = failures + 1

-----------------------------------------------------------------------------
(* The portal: register_cert, register_certificate and get_db.             *)

Stored(c) == rows[c] > 0

\* The request goes on to step, or leaves its slot when it ends unheard.
Advance(u, step) ==
  uploads' = [uploads EXCEPT ![u] =
    IF step \in {"accepted", "refused", "dropped"} /\ @.client = NoClient
    THEN FreeSlot ELSE [@ EXCEPT !.step = step]]

\* The tier is too low, the rate limit is hit, the certificate is unusable.
Refuse(u) ==
  /\ uploads[u].step = "sent"
  /\ Fail
  /\ Advance(u, "refused")
  /\ UNCHANGED <<rows, queueVars, threadVars, resultVars, crashes>>

\* session.get: a certificate that is there already is reported as registered.
CheckExisting(u) ==
  /\ uploads[u].step = "sent"
  /\ Advance(u, IF Stored(uploads[u].cert) THEN "accepted" ELSE "checked")
  /\ UNCHANGED <<rows, queueVars, threadVars, resultVars, failures, crashes>>

\* Mutant: the handler answers before the commit, which then never happens.
MutFlushAnswers(u) ==
  /\ uploads[u].step = "checked"
  /\ Advance(u, "accepted")
  /\ UNCHANGED <<rows, queueVars, threadVars, resultVars, failures, crashes>>

\* Mutant: certificate_id is not a key.
MutFlushUnkeyed(u) ==
  /\ uploads[u].step = "checked"
  /\ Advance(u, "flushed")
  /\ UNCHANGED <<rows, queueVars, threadVars, resultVars, failures, crashes>>

\* add and flush.  The primary key makes the insert wait for another
\* transaction that has inserted the same id, and fail once that has committed.
Flush(u) ==
  /\ uploads[u].step = "checked"
  /\ \A v \in Slots : uploads[v].step = "flushed" => uploads[v].cert # uploads[u].cert
  /\ Advance(u, IF Stored(uploads[u].cert) THEN "refused" ELSE "flushed")
  /\ UNCHANGED <<rows, queueVars, threadVars, resultVars, failures, crashes>>

\* get_db commits when the handler has returned, then the answer is sent.
CommitRow(u) ==
  /\ uploads[u].step = "flushed"
  /\ rows' = [rows EXCEPT ![uploads[u].cert] = @ + 1]
  /\ Advance(u, "accepted")
  /\ UNCHANGED <<queueVars, threadVars, resultVars, failures, crashes>>

\* The portal process ends inside a request: its transaction is rolled back and
\* the connection is closed without an answer.
DropRequest(u) ==
  /\ uploads[u].step \in {"sent", "checked", "flushed"}
  /\ Fail
  /\ Advance(u, "dropped")
  /\ UNCHANGED <<rows, queueVars, threadVars, resultVars, crashes>>

-----------------------------------------------------------------------------
(* The client: register.                                                   *)

IsFree(u) == uploads[u].step = "free"

Post(t, c, id) ==
  /\ \E u \in Slots : IsFree(u)
  /\ LET u == CHOOSE v \in Slots : IsFree(v)
     IN  uploads' = [uploads EXCEPT ![u] = [cert |-> c, step |-> "sent", client |-> t]]
  /\ item' = [item EXCEPT ![t] = [cert |-> c, id |-> id, cause |-> "none"]]
  /\ Goto(t, "wait")

\* The caller of register has a new signed certificate.
Register(c) ==
  /\ pc[Submitter] = "idle"
  /\ c \notin returned \cup raised
  /\ Post(Submitter, c, 0)
  /\ UNCHANGED <<rows, queueVars, todo, resultVars, failures, crashes>>

\* register ends: the submitter is done, a retrier settles its queue row.
Leave(t, next) ==
  /\ Goto(t, IF t = Submitter THEN "idle" ELSE next)
  /\ item' = [item EXCEPT ![t] = IF t = Submitter THEN NoItem ELSE [@ EXCEPT !.cause = "none"]]
Return(t, next) ==
  /\ Leave(t, next)
  /\ returned' = IF t = Submitter THEN returned \cup {item[t].cert} ELSE returned
Raise(t) ==
  /\ Leave(t, "bump")
  /\ raised' = IF t = Submitter THEN raised \cup {item[t].cert} ELSE raised

\* Status 200 and 409 mean registered; every other status leads to the queue.
Registered(status) == status \in {200, 409}

\* Thread t has an answer to upload u, and reads it.
Answered(t, u, step) ==
  /\ pc[t] = "wait" /\ uploads[u].client = t /\ uploads[u].step = step
  /\ uploads' = [uploads EXCEPT ![u] = FreeSlot]

ReceiveAccepted(t) ==
  /\ Registered(SuccessStatus)
  /\ \E u \in Slots : Answered(t, u, "accepted")
  /\ trusted' = trusted \cup {item[t].cert}
  /\ Return(t, "remove")
  /\ UNCHANGED <<rows, queueVars, todo, raised, failures, crashes>>

ReceiveOther(t) ==
  /\ \E u \in Slots, step \in {"accepted", "refused"} :
       /\ Answered(t, u, step)
       /\ step = "accepted" => ~Registered(SuccessStatus)
       /\ item' = [item EXCEPT ![t].cause = step]
  /\ Goto(t, "enqueue")
  /\ UNCHANGED <<rows, queueVars, todo, resultVars, failures, crashes>>

\* Mutant: the exception handler has lost the certificate's id.
MutLoseAnswerForgets(t) ==
  /\ pc[t] = "wait"
  /\ Fail
  /\ \E u \in Slots :
       /\ uploads[u].client = t /\ uploads[u].step # "dropped"
       /\ uploads' = [uploads EXCEPT ![u] =
            IF @.step \in {"accepted", "refused"} THEN FreeSlot ELSE [@ EXCEPT !.client = NoClient]]
  /\ item' = [item EXCEPT ![t] = [NoItem EXCEPT !.cause = "lost"]]
  /\ Goto(t, "enqueue")
  /\ UNCHANGED <<rows, queueVars, todo, resultVars, crashes>>

\* ConnectError, TimeoutException, NetworkError: wherever the upload is; the
\* portal goes on with what has reached it.
LoseAnswer(t) ==
  /\ pc[t] = "wait"
  /\ Fail
  /\ \E u \in Slots :
       /\ uploads[u].client = t /\ uploads[u].step # "dropped"
       /\ uploads' = [uploads EXCEPT ![u] =
            IF @.step \in {"accepted", "refused"} THEN FreeSlot ELSE [@ EXCEPT !.client = NoClient]]
  /\ item' = [item EXCEPT ![t].cause = "lost"]
  /\ Goto(t, "enqueue")
  /\ UNCHANGED <<rows, queueVars, todo, resultVars, crashes>>

\* RemoteProtocolError is none of the exceptions register handles.
RaiseProtocolError(t) ==
  /\ \E u \in Slots : Answered(t, u, "dropped")
  /\ Raise(t)
  /\ UNCHANGED <<rows, queueVars, todo, returned, trusted, failures, crashes>>

\* Mutant: a retried certificate is not queued again, and its row is removed.
MutQueueCert(t) ==
  /\ pc[t] = "enqueue"
  /\ IF item[t].id = 0
     THEN /\ queue' = queue \cup {[id |-> queued + 1, cert |-> item[t].cert, attempts |-> 0,
                                   cause |-> item[t].cause]}
          /\ queued' = queued + 1
     ELSE UNCHANGED queueVars
  /\ Return(t, "remove")
  /\ UNCHANGED <<portalVars, todo, raised, trusted, failures, crashes>>

\* _queue_cert: a row with a queue_id of its own, for a retried one too.
QueueCert(t) ==
  /\ pc[t] = "enqueue"
  /\ queue' = queue \cup {[id |-> queued + 1, cert |-> item[t].cert, attempts |-> 0,
                           cause |-> item[t].cause]}
  /\ queued' = queued + 1
  /\ Return(t, "bump")
  /\ UNCHANGED <<portalVars, todo, raised, trusted, failures, crashes>>

\* SQLite refuses (locked, disk full): register raises.
QueueRaises(t) ==
  /\ pc[t] = "enqueue"
  /\ Fail
  /\ Raise(t)
  /\ UNCHANGED <<portalVars, queueVars, todo, returned, trusted, crashes>>

-----------------------------------------------------------------------------
(* The client: _on_retry_timer and retry_pending.                          *)

\* The timer starts a thread when the queue is not empty; the thread's first
\* act is to read the queue.
StartRetry(t) ==
  /\ pc[t] = "idle" /\ queue # {}
  /\ todo' = [todo EXCEPT ![t] = queue]
  /\ Goto(t, "scan")
  /\ UNCHANGED <<portalVars, queueVars, item, resultVars, failures, crashes>>

\* The next row of the snapshot.
Take(t, r) ==
  /\ pc[t] = "scan"
  /\ r \in todo[t] /\ \A q \in todo[t] : r.id <= q.id
  /\ todo' = [todo EXCEPT ![t] = @ \ {r}]

\* The attempts are the snapshot's.
SkipRow(t) ==
  /\ \E r \in todo[t] : r.attempts >= MaxRetries /\ Take(t, r)
  /\ UNCHANGED <<portalVars, queueVars, pc, item, resultVars, failures, crashes>>

RetryRow(t) ==
  /\ \E r \in todo[t] : r.attempts < MaxRetries /\ Take(t, r) /\ Post(t, r.cert, r.id)
  /\ UNCHANGED <<rows, queueVars, resultVars, failures, crashes>>

EndRetry(t) ==
  /\ pc[t] = "scan" /\ todo[t] = {}
  /\ Goto(t, "idle")
  /\ UNCHANGED <<portalVars, queueVars, item, todo, resultVars, failures, crashes>>

\* The row is settled: go on with the snapshot.
Settle(t) ==
  /\ Goto(t, "scan")
  /\ item' = [item EXCEPT ![t] = NoItem]
  /\ UNCHANGED <<portalVars, queued, todo, resultVars, failures, crashes>>

\* Mutant: the DELETE uses the queue_id of the result, which has none.
MutRemoveFromQueue(t) == pc[t] = "remove" /\ Settle(t) /\ UNCHANGED queue

RemoveFromQueue(t) ==
  /\ pc[t] = "remove"
  /\ queue' = {r \in queue : r.id # item[t].id}
  /\ Settle(t)

IncrementAttempts(t) ==
  /\ pc[t] = "bump"
  /\ queue' = {IF r.id = item[t].id THEN [r EXCEPT !.attempts = @ + 1] ELSE r : r \in queue}
  /\ Settle(t)

\* SQLite refuses: a failed removal counts as an attempt, a failed count ends
\* the thread.
RemoveRaises(t) ==
  /\ pc[t] = "remove"
  /\ Fail
  /\ Goto(t, "bump")
  /\ UNCHANGED <<portalVars, queueVars, item, todo, resultVars, crashes>>

IncrementRaises(t) ==
  /\ pc[t] = "bump"
  /\ Fail
  /\ Goto(t, "idle")
  /\ item' = [item EXCEPT ![t] = NoItem]
  /\ todo' = [todo EXCEPT ![t] = {}]
  /\ UNCHANGED <<portalVars, queueVars, resultVars, crashes>>

-----------------------------------------------------------------------------
\* Mutant: the queue is kept in memory.
MutCrash ==
  /\ crashes < MaxCrashes
  /\ crashes' = crashes + 1
  /\ pc' = [t \in Threads |-> "idle"]
  /\ item' = [t \in Threads |-> NoItem]
  /\ todo' = [t \in Threads |-> {}]
  /\ queue' = {}
  /\ uploads' = [u \in Slots |-> FreeSlot]
  /\ UNCHANGED <<rows, queued, resultVars, failures>>

\* The desktop application ends; its database and its uploads do not.
Crash ==
  /\ crashes < MaxCrashes
  /\ crashes' = crashes + 1
  /\ pc' = [t \in Threads |-> "idle"]
  /\ item' = [t \in Threads |-> NoItem]
  /\ todo' = [t \in Threads |-> {}]
  /\ uploads' = [u \in Slots |->
       IF uploads[u].step \in {"accepted", "refused", "dropped"} THEN FreeSlot
       ELSE [uploads[u] EXCEPT !.client = NoClient]]
  /\ UNCHANGED <<rows, queueVars, resultVars, failures>>

PortalStep(u) == CheckExisting(u) \/ Flush(u) \/ CommitRow(u)
CallStep(t) == ReceiveAccepted(t) \/ ReceiveOther(t) \/ RaiseProtocolError(t) \/ QueueCert(t)
CallFault(t) == LoseAnswer(t) \/ QueueRaises(t)
RetryStep(t) ==
  SkipRow(t) \/ RetryRow(t) \/ EndRetry(t) \/ RemoveFromQueue(t) \/ IncrementAttempts(t)
RetryFault(t) == RemoveRaises(t) \/ IncrementRaises(t)

Next ==
  \/ \E u \in Slots : PortalStep(u) \/ Refuse(u) \/ DropRequest(u)
  \/ \E c \in Certs : Register(c)
  \/ \E t \in Threads : CallStep(t) \/ CallFault(t)
  \/ \E t \in Retriers : StartRetry(t) \/ RetryStep(t) \/ RetryFault(t)
  \/ Crash

Spec == Init /\ [][Next]_vars

\* The portal works on what it has received, threads run, the timer fires;
\* nothing forces a failure, a crash or a new certificate.
FairSpec ==
  /\ Spec
  /\ \A u \in Slots : WF_vars(PortalStep(u))
  /\ \A t \in Threads : WF_vars(CallStep(t))
  /\ \A t \in Retriers : WF_vars(StartRetry(t) \/ RetryStep(t))

-----------------------------------------------------------------------------
(* Properties.                                                             *)

QueuedCerts == {r.cert : r \in queue}
StoredCerts == {c \in Certs : Stored(c)}

\* Once register has returned for a certificate, the portal has it or the queue
\* still has a row for it, across overlapping retries, lost answers, failures of
\* SQLite and crashes.
NoCertificateLost == returned \subseteq StoredCerts \cup QueuedCerts

\* What register reports as registered is committed at the portal.
ReportedMeansStored == trusted \subseteq StoredCerts

\* The portal stores a certificate once, however often and however
\* concurrently it is uploaded.
StoredOnce == \A c \in Certs : rows[c] <= 1

\* Only an upload that was not accepted puts a row into the queue.
QueuedOnFailure == \A r \in queue : r.cause # "accepted"

\* A certificate that a retry would still upload.
Retryable(c) == \E r \in queue : r.cert = c /\ r.attempts < MaxRetries

\* The portal eventually has every certificate that was queued, unless all its rows
\* reach the limit of retries; then they stay.
EventuallyStored ==
  \A c \in Certs : c \in QueuedCerts ~> c \in StoredCerts \/ (c \in QueuedCerts /\ ~Retryable(c))

\* A row that a retry would still upload.
Waiting(n) == \E r \in queue : r.id = n /\ r.attempts < MaxRetries

\* No row of the queue is retried for ever: whatever overlaps, fails or is lost, a
\* registration removes it or it reaches the limit, and it does not come back.  A
\* certificate may be retried for ever all the same: a failed retry puts another row
\* with no attempts into the queue, and with status 201 every retry is taken for a
\* failure.
RowsRetire == \A n \in WatchedRows : Waiting(n) ~> []~Waiting(n)

Delivery == INSTANCE CertificateDelivery WITH
  stored <- StoredCerts, kept <- QueuedCerts, reported <- trusted

\* However uploads, retries, lost answers and crashes interleave, a certificate
\* leaves the queue only when the portal has it, the portal never loses it, and
\* a call returns only with its certificate stored or queued by that very step.
DeliversCertificates == Delivery!Spec
=============================================================================
