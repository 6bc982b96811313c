# SecureErase Pro: TLA+ models, checks and proofs

SecureErase Pro has two halves. A desktop application (`src/desktop`, Python and
PyQt6) overwrites files, issues signed certificates about it and keeps an audit
log. A verification portal (`src/portal`, FastAPI with PostgreSQL and Redis, a
React front end) registers certificates and answers questions about them. This
directory holds TLA+ modules of the parts whose correctness depends on the order
of events, TLC configurations that check them on small instances, and theorems
that hold for every instance.

    module               models                                       proofs
    AuditLog             desktop/modules/audit_logger.py              AuditLogProofs
    AppendOnlyLog        what an audit log promises (abstract)        AuditLogProofs
    WipeEngine           desktop/modules/secure_wipe_engine.py        WipeEngineProofs
    WipeJob              ui_controller.py: target list, WipeWorker    WipeJobProofs
                         with scanner, hashes and certificates
    Compliance           compliance_mapper.py (operators)             WipeJobProofs
    KeyStore             key_manager.py, start and signing            KeyStoreProofs
    RegistrySync         registry_client.py, the retry timer, the     RegistrySyncProofs
                         portal's register_cert
    CertificateDelivery  what uploading promises (abstract)           RegistrySyncProofs
    PortalRegistry       registry_service, id_lookup_handler,         PortalRegistryProofs
                         audit_log_service, api.py over the database
    Gateway              rate_limiter.py, verification_engine.py,     GatewayProofs
                         the handlers of api.py that use both

A module `MC...` has the definitions that the configurations of its module need.

## Inventory

| component | state it keeps | operations | what is hard | what makes it correct |
|---|---|---|---|---|
| AuditLogger | JSONL file, rotated files, key file; cached hash, number, lock | constructor, log_event with rotation, verify_chain | two writers, crash or error inside an append, reload, rotation | chain verifies, links hold around damage, a damaged line costs at most one acknowledged event, numbers grow between damages |
| SecureWipeEngine | the file; pass results | wipe, one pass, read-back | path reopened per pass, short writes, errors in some passes, other programs | verified means erased; a pass covers the file; errors are not forgotten |
| RegistryClient | SQLite queue | register, retry_pending | lost answers, overlapping retry threads, crash between upload and removal | no certificate lost, none reported falsely, no row retried for ever |
| UIController, WipeWorker | target list, worker thread, retry timer | start, cancel, per-target pipeline | worker that outlives cancellation, exception in the middle of a batch | one worker at a time but for those that outlive a cancellation, every target accounted for |
| FileScanner | none | scan | files that appear after the scan, links | what is reported wiped was wiped |
| CertificateBuilder, DigitalSigner, HashVerifier, ComplianceMapper | none | build, sign, verify, hash, map | canonical form must be the same on both sides | a genuine certificate verifies |
| KeyManager | key files | generate, load, rotate | crash between renames, two rotations in a second | private and public halves belong together |
| SSDHandler | the drive's ATA security state | ata_secure_erase, nvme_format, psid_revert | failure after the password is set | a failed erase leaves no locked drive |
| PDFRenderer, ReportExporter | files | render, export | none | none of interest here |
| RegistryService | tables certificates, revocations, public_keys | register, revoke, register and rotate keys, list | two transactions that read before either writes | one row, one revocation, a revocation stays, a rotation that is alone leaves an active key |
| IDLookupHandler | none | lookup_and_verify | row changes while the signature is verified | revoked is answered as revoked, genuine as valid |
| VerificationEngine | pool of four processes | verify_certificate | timeout that leaves its worker busy | a status for every request |
| AuditLogService | table verification_events | log_verification_event, statistics | count and insert are apart | bursts are flagged, flags are justified |
| RateLimiter | Redis sorted sets | check_rate_limit | four commands and a removal later, clocks, keys that expire | at most the limit in any window (up to what overlapping rejections take) |
| AuthService | users, API keys | login, TOTP, tokens, API keys | tokens outlive changes | admin needs MFA |
| FileUploadHandler, QRDecodeHandler, NotificationService, CryptoUtils, front end, infrastructure | none that matters | | | |

How they interact: WipeWorker calls FileScanner, HashVerifier, SecureWipeEngine,
ComplianceMapper, CertificateBuilder and DigitalSigner in turn and hands signed
certificates to the UI by Qt signals; the UI logs events with AuditLogger.
RegistryClient uploads certificates over HTTPS; register_cert of api.py stores
them in one transaction per request. The verification handlers read certificate
and key, hand the signature to VerificationEngine, and log an event, all in one
transaction, which get_db commits before the answer is sent. RateLimiter is asked
before each of them. `PROJECT.json` lists the hazards of this code, each at its
line, with the properties that watch it.

## AuditLog

One action is one access to a file, or the part of `log_event` between two of
them. `Acquire` is the entry into `with self._lock`; `RotateLog`, `BuildEntry`
(number, link, HMAC), `AppendLine` (write, flush, fsync) and `Commit` (update of
the cached hash, return) follow. `BuildRaises` and `AppendRaises` are the
exceptions: the number is taken, the hash is not. `ReadKey`, `DrawKey`,
`OpenKeyFile`, `StoreKey` and `LoadTail` are the constructor. `Crash` and
`CrashInAppend` end the process. `ErrorOutcomes` and `CrashOutcomes` say how much
of a line may be in the file then: nothing, a part, all but the newline,
everything. A line appended after an unterminated one extends it, and neither
parses. An HMAC is a number no other entry has.

- `audit_process`: one object, two threads, crashes anywhere outside the write,
  exceptions that leave the file alone. `ChainIntact` (verify_chain is True for
  the log and each rotated file at every moment), `LockReturned` (liveness), and
  `ImplementsAppendOnlyLog`: the files, read in the order of rotation, refine the
  abstract record of `AppendOnlyLog`. The record is the set of hashes that stand in a
  file and the pairs of which one stands before the other (`Recorded`, `Before`);
  `AppendLine` records, `Commit` confirms, and every other step, a rotation too, has
  to leave both alone. With torn lines neither holds: such a line does not verify,
  and takes an acknowledged entry with it.
- `audit_torn`: errors and crashes that leave parts of lines. `EntriesLinked`:
  wherever a line and its predecessor parse they are linked. `SeqIncreasing`: numbers
  grow along every stretch of lines that parse. They do repeat in a file, across a
  damaged line: when the last line does not parse, a restart numbers from 1 again
  (audit_logger.py:332). `AckedKept`: the entry appended behind a part of a line is
  glued to it and lost although its caller was told otherwise (audit_logger.py:184);
  every damaged line costs at most one such event.

Bounds: five entries or six (`audit_torn`), three constructions, three seconds for
rotations, a file of one line (`audit_process`) or two (`audit_torn`) that does not
yet rotate. This is enough for two rotations with a failed call and a restart between
any two entries; the invariants relate neighbours in a file, and a third thread does
nothing a second one does not (threads are symmetric in `audit_torn`).

Where the properties end. Other instances of the module show what the passing
runs leave out on purpose. Two objects on one file break `EntriesLinked`: each has a
`threading.Lock` of its own (audit_logger.py:129), although the docstring says that the
lock serves separate processes and threads (audit_logger.py:79); a lock of one object
reaches neither another process nor another object. An fsync that raises after the
whole line was written leaves the cached hash behind the file, and the next entry is
linked past that line (audit_logger.py:188). Two rotations in one second share a name,
and `rename` replaces the first file (audit_logger.py:342); no property covers that loss.
These are the assumptions of the theorems below: one object per file (`SoleObject`),
`ErrorOutcomes` without "full", whole lines (`WholeLines`), `SameSecond` FALSE. Each
theorem has only those it needs.

## RegistrySync

`Slots` are the requests open at the portal; each goes through check, flush and
commit of its own transaction, also when its client no longer waits. On the
client, `Register` is a new certificate, `StartRetry` the timer's new thread, whose
first act is its snapshot of the queue; `Take`, `SkipRow`, `RetryRow`,
`RemoveFromQueue` and `IncrementAttempts` are the loop of `retry_pending`, and
`RemoveRaises` and `IncrementRaises` its exceptions. A failed upload, a retried
one too, puts a new row with a new queue_id into the queue, as `_queue_cert`
does. `LoseAnswer` is a handled network error at any stage of the upload.

- `sync`: one certificate, two retry threads, two open requests, a crash of the
  application, two failures, and a retry limit of one, so that rows reach it.
  `StoredOnce`. `NoCertificateLost`: once `register` has returned, the certificate is
  stored or has a row, also if the application dies between any two statements.
  `DeliversCertificates`: the module implements `CertificateDelivery`, in which a
  certificate leaves the queue only when the portal has it, the portal never loses it,
  a call returns in the step that queues its certificate or reports a stored one, and
  what is reported is stored, although the portal commits after its handler has
  answered. `EventuallyStored` (liveness): a queued certificate is
  stored, unless all its rows reach the limit of retries. `RowsRetire` (liveness): no row
  is retried for ever; a registration removes it or it reaches the limit, and it does not
  come back. That is a promise about rows, not about certificates: a failed retry puts a
  fresh row with no attempts into the queue (registry_client.py:187, 219), and since a
  status of 201 counts as a failure, the code uploads a stored certificate for ever.
- `sync_201` (violation): the portal answers 201 (api.py:393), the client accepts
  200 and 409 only, so a stored certificate is queued and uploaded again, where
  the message says registered (`QueuedOnFailure`). `sync` sets `SuccessStatus` to 200 to look behind it.

Fairness: a request the portal has received is worked on, a thread of the
client runs, and the timer, which fires every few minutes while the application
runs, starts a thread when the queue is not empty. Failures and crashes are
bounded and never forced; the liveness properties say what follows when they end.

Bounds: one certificate, since certificates meet only in the open requests and in the
snapshot; two failures and one crash let an answer be lost, the row be queued again,
and the removal fail, in overlapping threads; `RowsRetire` watches the first three rows
(`WatchedRows`), which are the original one and those that two failures add. The proofs
are about any number.

Two more things the model shows: a row with `max_retries` attempts stays in the queue
and is skipped for ever (registry_client.py:210), which the liveness properties
therefore except; a connection that is closed without an answer
raises `httpx.RemoteProtocolError`, which `register` does not handle, so the
certificate is neither queued nor reported (`RaiseProtocolError`; registry_client.py:191).
`NoCertificateLost` is therefore about calls that return, and a row that SQLite refuses
(registry_client.py:262), which makes `register` raise, is outside it too.
The client sends its key as a bearer token and the portal takes API keys from
`X-API-Key`; registration works with a JWT only, which the model assumes.

## WipeEngine

The file is a sequence of cells that hold the name of what was last written to
them; files are numbered, and `named` is the one the path leads to. Every pass and every
read-back opens the path again (`OpenFile`, `OpenToVerify`). `WriteChunk`
advances by what it was given, whatever `os.write` wrote. `SyncFile` ends a pass;
only patterns of one byte are read back, with `ReadChunk` and `ReadEnds`.
`PassRaises` and `VerifyRaises` are OSErrors. Other programs overwrite, extend,
cut, replace or remove the file. Preparing sparse files and dropping caches change nothing
that a read can tell and are left out.

- `wipe_hostile`: two wipers at once (a cancelled worker may go on), short writes,
  an error each, one change by another program, the AR 380-19 passes (random,
  random, one byte that is read back). `VerifiedMeansErased`: a verified wipe
  leaves no original cell under the path. `ErrorsNeverVerified`.
- `wipe_covered`: five cells in chunks of two, DoD 5220.22-M. A verified pass has
  touched every cell (`VerifiedPassesCover`), a wipe left alone leaves the last
  pass's data (`LastPassRemains`), every wipe ends (`WipeEnds`, under weak fairness
  of the thread that runs it: nothing else has to happen for it to go on).

The path is resolved before `is_symlink()` is asked (secure_wipe_engine.py:246), so
the refusal of line 254 cannot happen: a link leads to its target being wiped.

`wipe_covered` excludes short writes: with them a random or multi-byte pass is
recorded as verified without having covered the file (secure_wipe_engine.py:362).
Bounds: two cells in one chunk suffice for a write that is cut short, three chunks
for first, middle and odd last one; a path changes hands once between any two
opens.

## PortalRegistry

One step is one SQL statement of a handler, or what it does between two; the
handlers run in transactions under READ COMMITTED, so each statement sees what is
committed by then. A handler's writes and the commit of `get_db` are one step: a
conflicting write waits for the other transaction and then behaves as if it came
after it. A verification is `StartLookup` (by ID or QR code) or `StartUpload`, then
`ReadCert`, `ReadKey`, `Verify`, the counts of `_detect_anomaly` (`CountEvents`,
`CountTampered`), and `LogEvent`, or `LogFails` when the event breaks a constraint of
the table. `StartRegister`/`WriteCert`, `StartRevoke`/`WriteRevocation`,
`StartAddKey`, `StartRotate`, `ReadNew` and `WriteKeys` are the other handlers.
Requests that are refused before they write are no step. Time is one window of
the anomaly counts, the worst case for them.

- `portal_registry`: two requests of any kind at a time. `LookupsSeeRecords`: a
  lookup that begins after a revocation is answered as revoked, one that begins
  after a registration finds the certificate. `RevocationRecorded`: one revocation
  per revoked certificate, with concurrent revocations. `RevocationStays` (an
  action property; the desktop uploads certificates again). `EscapesBounded`: what
  escapes the flags is bounded by thresholds and concurrency. `FlagsJustified`.
  `KeyRemains` (an action property): the last active key goes only at the end of a
  rotation that another was open beside; a rotation that is alone, and a registration of
  a key at any moment, leave an active one.
- `portal_tampered` (violation): a lookup verifies a certificate rebuilt from the
  row. It lacks `passes_total`, and its registry block, `public_key_url` and
  `signed_at` are not those that were signed, so a genuine certificate is answered
  as tampered.

Rotations overlap freely in `portal_registry`, since nothing in api.py or
registry_service.py keeps them apart, and two opposite ones do leave no active key: each
reads the other's old key as active, so there is nothing to write for it
(registry_service.py:274). No text of the repository promises otherwise, so `KeyRemains`
says when this may happen; `overlapped` is the history of the open rotations that another
was open beside.

`LookupsSeeRecords` is about lookups. A file upload never reads the certificates
table, so the file of a revoked certificate is answered as valid (api.py:209). The
event of an upload or lookup whose certificate is not in the table breaks the
foreign key, and an "error" or "unregistered" outcome breaks the enumeration; what
the insert raises in `finally` replaces the answer (`LogFails`). Bounds: a rapid
threshold of two and a tamper threshold of one with four events let both be
reached, passed, and missed by concurrent requests; a third request multiplies
states, and the bounds are stated in terms of the number of requests. Rotations begin while there
is at most one event (`MaxRotateEvents`): they share no state with the counts.

## WipeJob and Compliance

`UIController` runs in the event loop, `WipeWorker.run` in a thread per batch.
`AddTarget`, `RemoveTarget`, `StartWipe`, `CancelWipe`/`CancelReturns` (the loop is
inside `wait(3000)` between them), `Deliver` (the next signal: certificate, failure
or end) and `Acknowledge` (the dialog of a failure is closed) are the operator and
the event loop. `Scan`, `HashBefore`, `WipeFile`, `HashAfter`, `Issue`, `Raise` and `End`
are the thread; `End` may come at any moment after `terminate()`. `WipeFile` has the
outcomes that WipeEngine establishes: verified implies erased, and an error may or
may not leave data; for a standard without passes it can only raise. `OtherWrites` and `OtherRemoves` are other programs. `unseen`,
`missed` and `uncertified` are history: what the scan did not see, what held data
when it was hashed after the wipe, and what was overwritten without a certificate;
`outlived` marks a thread that was still running when the wait for it timed out, a
result that the handler does not ask for (ui_controller.py:484).

Compliance holds the table of `compliance_mapper.py` and `map`, with its reduction
for flash memory and its additions for classified data, as operators. WipeJob
evaluates `Map` in `Build`, with the device type that `DeviceType` derives from
`/sys/block` the way the scanner does. That type is a guess (a mapped device passes for a
rotating disk), so no property says anything about the medium itself.
`MapAssumption` of MCWipeJob lets TLC evaluate `Map` over all standards, media and
classifications: a classification takes no claim away, and what is called flash memory
gets no claim that a disk does not. The desktop passes no classification
(ui_controller.py:153), so `wipe_job` itself has "none" only.

- `wipe_job`: `OneWorker`: batches run at once only beside threads that have outlived
  the three seconds of their cancellation, one more for each of these, whatever the order
  of clicks, cancellations, ends and late signals; the late end of such a thread gives the
  start button back while the next batch runs, and a third one can join.
  `UncertifiedIsCurrent`: however a batch ends, what it has overwritten without a
  certificate belongs to the target it was at. `UnwipedIsUnseen`: data under a target with
  a verified certificate is only where the scan did not look. `EndIsAccounted`: until a
  wait has timed out, a batch logged as completed and not as failed has a certificate for
  every target but those without entries. `OverwritingIsNoPurge`: what the program has
  overwritten is never certified as purged. The operator is offered every standard
  (ui_controller.py:278), the engine has no passes for Purge and raises a KeyError at the
  first file (secure_wipe_engine.py:261), and so a certificate that claims Purge is about a
  folder in which the scan found nothing. The repository's README has Purge done by
  hardware commands (src/README.md:40), which no module calls.
  `BatchEnds` (liveness): every batch is reported as ended.

`MattersNow` is an action constraint that keeps the run small: the list is edited before
the first batch only, since a worker has its own copy, and other programs act while a
batch runs, since what they do before could have been so at its scan. It limits the run to
one batch over up to two targets, two over one file or the socket, or three over the
socket, the first of which has outlived its cancellation; that is what it takes to have
three threads at once. The proofs know none of these bounds.
Fairness: threads run, the wait returns, the event loop delivers what was
posted; the operator and other programs do nothing unless they want to. Bounds: two
files, of which a folder holds both and a link names the second, so that targets
overlap; a socket as a target that is passed over.

Not in it: `_on_cert_received` only stores and shows a certificate; uploads begin with
`retry_pending` and are in RegistrySync. The wipe of one file is one step, whose
interleavings, those of two wipers included, are in WipeEngine. `map_to_frameworks` of
ComplianceMapper, which nothing calls while wiping, is not modelled; it upper-cases the
media type, so that NVMe escapes the reduction for flash memory (`map` compares with
"NVMe").

## KeyStore

One action is one file operation of `generate_keypair` or `rotate_key`, and `Kill`
and `Stop` may come between any two. A file has a key, a mode that is 0600 or not,
and exists or not; what was opened and not written is empty. `load_keypair` is look by
look too: `LookForPrivate`, `StatPrivate`, `ReadPrivate` and `ReadPublic`, between which a
rotation in another process may come. It is called by the start of the application, which
generates when a file is missing (`Raise`), and by a worker that signs. `host` is where all this runs:
on posix, on posix with a umask that hides new files, or on Windows, where neither
`Restrict` sets a mode (key_manager.py:153) nor `load_keypair` asks for one
(key_manager.py:186).

- `key_store`: `SigningKeySurvives`: the key of every certificate stays in the store,
  under its name or an archived one, although generation overwrites files and
  rotation moves them, on every host. `LoadedIsPair`: a call of `load_keypair` that no
  generation or rotation overlaps takes two halves of one pair, whatever killed ones have
  left. This is so only on posix with an ordinary umask, because the mode of the private
  file is set last and a file without that mode is refused; `Chmod`, the operator who
  follows the message of the refusal, ends the promise (`advised`).

Where `LoadedIsPair` ends: on Windows and with a umask of 077 a kill between the two
writes leaves a new private key beside the old public one, and nothing refuses them; a
rotation between the two reads makes `load_keypair` return halves of two generations
anywhere. The desktop signs with the private half and uses the other for nothing
(ui_controller.py:169), so that certificates are not affected.

Bounds: four keys and rotations in three seconds, enough for a kill in each of two
rotations with a start in between. Assumptions: one process generates at a time, and
no two rotations share a second, which would replace an archived file by `rename`.
No part of the application calls `rotate_key`; it is modelled as the operation it is.
Not modelled: power failures that undo a write, the fingerprint of the old key that stays
in the configuration.

## Gateway

`Begin` is a request reaching the limiter with its clock read, `Check` the pipeline of
Redis commands (one step, since MULTI makes it one), which also sets the second in
which the key expires (`Add`, `expiry`; `Expire` is Redis deleting it), and `Reject`
the removal of the newest entry, which is another command and may meet another
request's entry. `CheckFails` and `RejectFails` are Redis failing: the request is let
in. `Submit`, `Finish`, `TimeOut` and `Die` are the pool of the worker process,
`Answer`, `Refuse` the end of the handler. A lookup runs in a thread of the worker; an
upload is `async def` and keeps the event loop while it waits up to ten seconds for the
pool (api.py:209), so that nobody else's request begins at that worker.

- `gateway`: `LimitHolds`: not more than the limit are admitted in an interval as long
  as the window less the slack, while Redis works. The slack is `MaxDelay` (a clock may
  be that much older than the command) and as much again for every request that was
  rejected, or let in for want of Redis, around that time. It has to be subtracted:
  `zpopmax` may take the entry of a request that was admitted and leave the rejected
  one's own, older by at most `MaxDelay`, in its place, and the next rejection may do
  the same with that one. `RejectedLeaveNoTrace`: the window counts the admitted and
  those about to be rejected. `EveryoneAnswered` (liveness): every request is answered,
  with pools that are full of verifications that never end, or broken.
- `gateway_overlap` (violation): the limit that the module documents (`LimitPerWindow`,
  with one `MaxDelay` subtracted and none for rejections) does not hold. Five lookups
  overlap; each rejection removes the entry of the next one (rate_limiter.py:109, where
  the comment says that it removes its own), until one whose own entry has expired
  removes that of a request that was admitted, and a second one is let in.

Fairness: weak for each request's own steps, since handlers run and waits end with
their timeout; strong for `Begin`, since asyncio serves waiting requests in order
while the loop is taken and freed again. A verification is not required to end.
Bounds: a lookup and an upload at one worker, an upload at another, one admitted in
three seconds, four readings of the clock (so that the window slides and the key
expires), clocks at most one second apart from the command; so two requests
compete for the window, one for a process that is taken, and one for a loop.

What the runs leave out: equal members (second and nanosecond remainder of two
requests that agree) would be one entry; a pool that has lost a process stays broken
until the worker restarts (verification_engine.py:173), so that everybody is answered,
with an error; a call that timed out keeps its process (verification_engine.py:210).

## What is proved

TLAPS checks these for every value of the constants that their assumptions allow.

`AuditLogProofs`: `TypeCorrect`; `LogLinked` (`EntriesLinked`: one object per
file and no error after a complete line, torn lines allowed); `ChainVerifies`
(`ChainIntact`: one object, and an append writes all or nothing); `SequenceGrows`
(`SeqIncreasing`: one object); `AckedNeverLost` (`AckedKept`: no two rotations in a
second, any number of objects, any kind of damage); `LogIsAppendOnly`
(`ImplementsAppendOnlyLog`: one object, whole lines, no two rotations in a second).
The properties are not inductive:
a step from an arbitrary state in which the files are linked may append an entry
with a stale hash. The invariants add that the lock's owner is the only thread
inside `log_event`, that the cached hash and number of an object that is up agree
with the last line of the file (in the step between append and commit with the
line before it), and that a built entry's hash and number are newer than all in
the file. The refinement needs two more facts: no file holds the hash that is about to
be written (`FreshInv`), and a rotation goes to a name behind all files that have lines
(part of `AckInv`), so that moving the log there disturbs no pair. The mapping is
spelt out in places (`StandsAt`: an entry is line i of volume v), and one lemma per
action says where entries stand after it.

`WipeEngineProofs`: `TypeCorrect`; `ErasureHolds`; `VerifiedErases`
(`VerifiedMeansErased` for any pass sequence in which some pass is read back, any
sizes, wipers, short writes, errors and interference). The inductive invariant says
that original data never appears where there was none, and that behind the position
of a read-back under way, or after one that has succeeded, the named file has none.
The assumption is needed: without a pass that is read back nothing looks at what
was written.

`PortalRegistryProofs`, from the assumptions on the constants alone: `TypeCorrect`;
`RevocationOnce` (`RevocationRecorded`) and `RevocationFinal` (`RevocationStays`),
which hold because the primary key and the unique revocation are looked at by the
writing step; `LookupsAnswerTruly` (`LookupsSeeRecords`): rows only go forward, so
what a lookup saw when it began still holds when it reads; `EscapesAreBounded`
(`EscapesBounded`): the invariant counts the requests that have passed the count
without a flag together with the events that have none, a sum that stays within the
bound while the threshold is not reached, and that no later step raises;
`FlagsAreJustified` (`FlagsJustified`): events are only added, so a threshold that a
request saw reached stays reached. `LastKeyKept` (`KeyRemains`), with any number of
overlapping rotations: the invariant (`RotationInv`) says that an open rotation no other
was open beside still finds the keys as it has read them, since nothing else deactivates
one.

`WipeEngineProofs` also has `ErrorsRemain` (`ErrorsNeverVerified`): an error a wiper
has met is in a pass result, or in the pass it is in, and every later pass result is
added by conjunction. `VerifiedCovers` (`VerifiedPassesCover`) and `LastPassStays`
(`LastPassRemains`) assume `~ShortWrites`, without which both are false. For the first
the invariant (`Covering`) follows a pass through the file: it has touched every cell
up to its position, which is where it believes to be, and it ends with the size read
before the first pass. The second assumes one wiper too; its invariant (`Undisturbed`)
says that the cells up to the position hold the pass's data while nobody else has
touched the file, and that a read-back leaves them so.

`WipeJobProofs`, from the assumptions on the constants alone: `TypeCorrect`;
`OneTargetUncertified`, `OnlyUnseenSurvives` and `NoPurgeClaimed` (`OverwritingIsNoPurge`)
with one invariant (`Honest`): until it is hashed again, a verified target has data only
in what is left to wipe and what the scan has not seen; a worker whose standard has no
passes has overwritten nothing; and every certificate that is held or on its way
was made out from such a state and claims what `Map` answers. `OneAtATime` (`OneWorker`):
the invariant (`Counted`) counts the start button, there or on its way with an end that
is not yet delivered, as one more running thread; a thread that ends gives the button
in exchange for itself, and only a wait that times out gives one while a thread runs.
`EndAccounted` (`EndIsAccounted`) needs more of the states in which no wait has timed out:
there only the last worker runs, not while the start button is there, and what is
undelivered comes from it (`Ordered`); a target the loop has passed has a certificate,
held or on its way, a worker which stopped early has a failure logged or bound to be
logged, and the end is the last thing a batch emits (`Reported`). `NoPurgeClaimed` ranges
over the whole table of standards.

`KeyStoreProofs`: `TypeCorrect`, `KeySurvives` (`SigningKeySurvives`) and `LoadsAPair`
(`LoadedIsPair`), for any number of keys, rotations and kills. The invariant says how
far a generation under way has come (`Progress`), that a private file with the mode
0600 was followed by its public half (`ModeLast`), which names are free
(`Unoccupied`, `Absences`, `Room`), where the key of each certificate and the one a call
of `load_keypair` has taken are (`Held`, `Taken`), and what such a call knows at each of
its looks while nobody generates or rotates (`Alone`).

`RegistrySyncProofs`: `TypeCorrect`, `NothingLost` (`NoCertificateLost`),
`NothingReportedFalsely` (`ReportedMeansStored`), `NothingStoredTwice`
(`StoredOnce`) and `DeliveryImplemented` (`DeliversCertificates`), for any certificates, threads, open requests, failures and crashes.
The invariant adds that at most one request is awaited by a thread, and that one
about its certificate (`Awaited`), that a flushed row is the only one of its
certificate until its transaction ends (`Transactions`), and that equal queue_ids are
the same certificate in the queue and in the snapshots of threads (`IdsAgree`). For
the refinement the same invariant is enough: a commit stores, an accepted answer
reports, `QueueCert` keeps, a removal releases or, when the certificate has other rows,
does nothing that the abstract specification sees.

`GatewayProofs`: `TypeCorrect`, `NoTraceLeft` (`RejectedLeaveNoTrace`) and `LimitKept`
(`LimitHolds`), for any number of requests, workers and limits. The first needs only
that an entry removed is one entry, whosever it is. For the limit, entries cannot be
matched with the requests that made them, because rejections remove each other's. The
invariant (`Represented`) says that they can be matched with the requests that are
counted or about to be rejected in some way: each of these has an entry of the window to
itself, or one that has expired, and the entry is older than the request by at most
`MaxDelay` for each rejection that could have come between them (`Covers`). A rejection
exchanges two entries of such a matching (`Exchange`). When a request is counted, the
entries of those in its span are recent and different, so there are fewer than `Limit`.

Only model-checked: liveness (`LockReturned`, `EventuallyStored`, `RowsRetire`,
`WipeEnds`, `BatchEnds`, `EveryoneAnswered`), which is out of the prover's reach. Every
invariant, every action property and both refinements that the passing runs check have
a theorem.

## Plan

Done, in this order: AuditLog with AppendOnlyLog, RegistrySync, WipeEngine,
PortalRegistry, Gateway, WipeJob with Compliance, KeyStore, the proofs about each,
CertificateDelivery and the two refinements. What is left, most important first:

1. Weaker assumptions where the code allows: `LogIsAppendOnly` with appends that leave
   part of a line, for a record that may have damaged entries.
2. An abstract specification of revocation (registered, then revoked for good, and every
   lookup answered as of some moment of it) and PortalRegistry refining it.
3. Login, TOTP and API keys of AuthService: tokens that outlive a change of role.

## Not modelled

- SSDHandler: `ata_secure_erase` sets a password and then erases, and an erase that
  fails leaves the drive locked (ssd_handler.py:192). No other module calls it, and
  what a drive does with each command is not in this repository, so that a model
  would state its own assumptions.
- AuthService: sequential requests over two tables; its hard part is cryptographic.
- FileUploadHandler, QRDecodeHandler, CryptoUtils, and the cryptography of
  DigitalSigner and HashVerifier: functions of their input.
- ReportExporter, PDFRenderer, front end, NotificationService, infrastructure:
  layout, display, mail and deployment, without state that another part relies on.

`PROJECT.json` lists every component with what is left out of it.

## Running

    tlc -workers 2 -config AuditLogProcess.cfg MCAuditLog
    tlapm AuditLogProofs.tla

`CHECK_DEADLOCK FALSE` is set where the model really stops: when the entries of
AuditLog are used up, every certificate is registered, the wipes are done, the
batches of WipeJob are over and the operator does nothing more, the keys are
generated, or the requests of Gateway are answered and time is up.
