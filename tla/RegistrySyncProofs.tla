------------------------ MODULE RegistrySyncProofs ------------------------
(***************************************************************************)
(* Proofs about RegistrySync: its type invariant, that no certificate whose *)
(* registration has returned is lost, none is reported falsely and none is  *)
(* stored twice, and that it implements CertificateDelivery, for any        *)
(* certificates, threads, requests, failures, crashes and retry limit.      *)
(***************************************************************************)
EXTENDS RegistrySync, TLAPS

-----------------------------------------------------------------------------
(* The inductive invariant, in parts.                                       *)

\* A thread inside register, or settling its row, works on a certificate.
Working == \A t \in Threads : pc[t] \in {"wait", "enqueue", "remove", "bump"} => item[t].cert \in Certs

\* A request that is open is about a certificate.
OpenHasCert == \A u \in Slots : uploads[u].step # "free" => uploads[u].cert \in Certs

Typed == TypeOK /\ Working /\ OpenHasCert

\* Who waits for a request waits for this one only, and works on its certificate.
Awaited ==
  /\ \A u \in Slots : uploads[u].client # NoClient =>
       /\ pc[uploads[u].client] = "wait"
       /\ item[uploads[u].client].cert = uploads[u].cert
  /\ \A u, v \in Slots : uploads[u].client = uploads[v].client /\ uploads[u].client # NoClient => u = v

\* What is accepted is stored; a row that is inserted and not committed is the
\* only one of its certificate.
Transactions ==
  /\ \A u \in Slots : uploads[u].step = "accepted" => Stored(uploads[u].cert)
  /\ \A u \in Slots : uploads[u].step = "flushed" => rows[uploads[u].cert] = 0
  /\ \A u, v \in Slots : /\ uploads[u].step = "flushed" /\ uploads[v].step = "flushed"
                         /\ uploads[u].cert = uploads[v].cert
                         => u = v
  /\ StoredOnce

\* A row is removed for a certificate that is stored.
RemovesStored == \A t \in Threads : pc[t] = "remove" => Stored(item[t].cert)

Reported == ReportedMeansStored /\ RemovesStored

\* A queue_id stands for one certificate, in the queue and in what threads have
\* read from it.
IdsAgree ==
  /\ \A q \in queue : q.id > 0 /\ q.id <= queued
  /\ \A q, r \in queue : q.id = r.id => q.cert = r.cert
  /\ \A t \in Threads : \A r \in todo[t] :
       r.id <= queued /\ (\A q \in queue : q.id = r.id => q.cert = r.cert)
  /\ \A t \in Threads :
       item[t].id <= queued /\ (\A q \in queue : q.id = item[t].id => q.cert = item[t].cert)

-----------------------------------------------------------------------------
(* Each part is kept by every step.                                         *)

\* Types are kept by every step.
LEMMA TypedStep == Typed /\ [Next]_vars => Typed'
<1> SUFFICES ASSUME Typed, [Next]_vars PROVE Typed'
  OBVIOUS
<1> USE DEF Typed, TypeOK, Working, OpenHasCert, MaybeCert, Item, NoItem, Upload, FreeSlot, QueueRow, Causes, UploadSteps, ThreadSteps, portalVars, queueVars, threadVars, resultVars
<1>1. Submitter \in Threads /\ Retriers \subseteq Threads
  BY DEF Threads
<1>2. ASSUME NEW u \in Slots, CheckExisting(u) PROVE Typed'
  BY <1>2, <1>1, ThreadAssumption, BoundAssumption DEF CheckExisting, Advance
<1>3. ASSUME NEW u \in Slots, Flush(u) PROVE Typed'
  BY <1>3, <1>1, ThreadAssumption, BoundAssumption DEF Flush, Advance
<1>4. ASSUME NEW u \in Slots, CommitRow(u) PROVE Typed'
  BY <1>4, <1>1, ThreadAssumption, BoundAssumption DEF CommitRow, Advance
<1>5. ASSUME NEW u \in Slots, Refuse(u) PROVE Typed'
  BY <1>5, <1>1, ThreadAssumption, BoundAssumption DEF Refuse, Advance, Fail
<1>6. ASSUME NEW u \in Slots, DropRequest(u) PROVE Typed'
  BY <1>6, <1>1, ThreadAssumption, BoundAssumption DEF DropRequest, Advance, Fail
<1>7. ASSUME NEW c \in Certs, Register(c) PROVE Typed'
  BY <1>7, <1>1, ThreadAssumption, BoundAssumption DEF Register, Post, Goto
<1>8. ASSUME NEW t \in Threads, ReceiveAccepted(t) PROVE Typed'
  BY <1>8, <1>1, ThreadAssumption, BoundAssumption DEF ReceiveAccepted, Answered, Return, Leave, Goto
<1>9. ASSUME NEW t \in Threads, ReceiveOther(t) PROVE Typed'
  BY <1>9, <1>1, ThreadAssumption, BoundAssumption DEF ReceiveOther, Answered, Goto
<1>10. ASSUME NEW t \in Threads, RaiseProtocolError(t) PROVE Typed'
  BY <1>10, <1>1, ThreadAssumption, BoundAssumption DEF RaiseProtocolError, Answered, Raise, Leave, Goto
<1>11. ASSUME NEW t \in Threads, QueueCert(t) PROVE Typed'
  BY <1>11, <1>1, ThreadAssumption, BoundAssumption DEF QueueCert, Return, Leave, Goto
<1>12. ASSUME NEW t \in Threads, LoseAnswer(t) PROVE Typed'
  BY <1>12, <1>1, ThreadAssumption, BoundAssumption DEF LoseAnswer, Fail, Goto
<1>13. ASSUME NEW t \in Threads, QueueRaises(t) PROVE Typed'
  BY <1>13, <1>1, ThreadAssumption, BoundAssumption DEF QueueRaises, Fail, Raise, Leave, Goto
<1>14. ASSUME NEW t \in Retriers, StartRetry(t) PROVE Typed'
  BY <1>14, <1>1, ThreadAssumption, BoundAssumption DEF StartRetry, Goto
<1>15. ASSUME NEW t \in Retriers, SkipRow(t) PROVE Typed'
  BY <1>15, <1>1, ThreadAssumption, BoundAssumption DEF SkipRow, Take
<1>16. ASSUME NEW t \in Retriers, RetryRow(t) PROVE Typed'
  BY <1>16, <1>1, ThreadAssumption, BoundAssumption DEF RetryRow, Take, Post, Goto
<1>17. ASSUME NEW t \in Retriers, EndRetry(t) PROVE Typed'
  BY <1>17, <1>1, ThreadAssumption, BoundAssumption DEF EndRetry, Goto
<1>18. ASSUME NEW t \in Retriers, RemoveFromQueue(t) PROVE Typed'
  BY <1>18, <1>1, ThreadAssumption, BoundAssumption DEF RemoveFromQueue, Settle, Goto
<1>19. ASSUME NEW t \in Retriers, IncrementAttempts(t) PROVE Typed'
  <2>1. \A r \in QueueRow : [r EXCEPT !.attempts = @ + 1] \in QueueRow
    BY DEF QueueRow
  <2>2. queue' \subseteq QueueRow
    BY <1>19, <2>1 DEF IncrementAttempts
  <2> QED
    BY <1>19, <1>1, <2>2 DEF IncrementAttempts, Settle, Goto
<1>20. ASSUME NEW t \in Retriers, RemoveRaises(t) PROVE Typed'
  BY <1>20, <1>1, ThreadAssumption, BoundAssumption DEF RemoveRaises, Fail, Goto
<1>21. ASSUME NEW t \in Retriers, IncrementRaises(t) PROVE Typed'
  BY <1>21, <1>1, ThreadAssumption, BoundAssumption DEF IncrementRaises, Fail, Goto
<1>22. ASSUME Crash PROVE Typed'
  BY <1>22, <1>1, ThreadAssumption, BoundAssumption DEF Crash
<1>23. CASE UNCHANGED vars
  BY <1>23 DEF vars
<1> QED
  BY <1>1, <1>2, <1>3, <1>4, <1>5, <1>6, <1>7, <1>8, <1>9, <1>10, <1>11, <1>12, <1>13, <1>14, <1>15, <1>16, <1>17, <1>18, <1>19, <1>20, <1>21, <1>22, <1>23 DEF Next, PortalStep, CallStep, CallFault, RetryStep, RetryFault, Threads

\* A thread posts when it waits for nothing, and its request lets go of it when it goes on.
LEMMA AwaitedStep == Typed /\ Awaited /\ [Next]_vars => Awaited'
<1> SUFFICES ASSUME Typed, Awaited, [Next]_vars PROVE Awaited'
  OBVIOUS
<1> USE DEF Typed, TypeOK, MaybeCert, Item, NoItem, Upload, FreeSlot, Awaited, portalVars, queueVars, threadVars, resultVars
<1>1. Submitter \in Threads /\ Retriers \subseteq Threads
  BY DEF Threads
<1>2. ASSUME NEW u \in Slots, CheckExisting(u) PROVE Awaited'
  BY <1>2, <1>1, ThreadAssumption DEF CheckExisting, Advance
<1>3. ASSUME NEW u \in Slots, Flush(u) PROVE Awaited'
  BY <1>3, <1>1, ThreadAssumption DEF Flush, Advance
<1>4. ASSUME NEW u \in Slots, CommitRow(u) PROVE Awaited'
  BY <1>4, <1>1, ThreadAssumption DEF CommitRow, Advance
<1>5. ASSUME NEW u \in Slots, Refuse(u) PROVE Awaited'
  BY <1>5, <1>1, ThreadAssumption DEF Refuse, Advance, Fail
<1>6. ASSUME NEW u \in Slots, DropRequest(u) PROVE Awaited'
  BY <1>6, <1>1, ThreadAssumption DEF DropRequest, Advance, Fail
<1>7. ASSUME NEW c \in Certs, Register(c) PROVE Awaited'
  BY <1>7, <1>1, ThreadAssumption DEF Register, Post, Goto
<1>8. ASSUME NEW t \in Threads, ReceiveAccepted(t) PROVE Awaited'
  BY <1>8, <1>1, ThreadAssumption DEF ReceiveAccepted, Answered, Return, Leave, Goto
<1>9. ASSUME NEW t \in Threads, ReceiveOther(t) PROVE Awaited'
  BY <1>9, <1>1, ThreadAssumption DEF ReceiveOther, Answered, Goto
<1>10. ASSUME NEW t \in Threads, RaiseProtocolError(t) PROVE Awaited'
  BY <1>10, <1>1, ThreadAssumption DEF RaiseProtocolError, Answered, Raise, Leave, Goto
<1>11. ASSUME NEW t \in Threads, QueueCert(t) PROVE Awaited'
  BY <1>11, <1>1, ThreadAssumption DEF QueueCert, Return, Leave, Goto
<1>12. ASSUME NEW t \in Threads, LoseAnswer(t) PROVE Awaited'
  BY <1>12, <1>1, ThreadAssumption DEF LoseAnswer, Fail, Goto
<1>13. ASSUME NEW t \in Threads, QueueRaises(t) PROVE Awaited'
  BY <1>13, <1>1, ThreadAssumption DEF QueueRaises, Fail, Raise, Leave, Goto
<1>14. ASSUME NEW t \in Retriers, StartRetry(t) PROVE Awaited'
  BY <1>14, <1>1, ThreadAssumption DEF StartRetry, Goto
<1>15. ASSUME NEW t \in Retriers, SkipRow(t) PROVE Awaited'
  BY <1>15, <1>1, ThreadAssumption DEF SkipRow, Take
<1>16. ASSUME NEW t \in Retriers, RetryRow(t) PROVE Awaited'
  <2>1. PICK r \in todo[t] : Take(t, r) /\ Post(t, r.cert, r.id)
    BY <1>16 DEF RetryRow
  <2>2. t \in Threads /\ pc[t] = "scan" /\ t # NoClient
    BY <2>1, <1>1, ThreadAssumption DEF Take
  <2>3. PICK u \in Slots : uploads' = [uploads EXCEPT ![u] = [cert |-> r.cert, step |-> "sent", client |-> t]]
    BY <2>1 DEF Post, IsFree
  <2>4. \A v \in Slots : uploads[v].client # t
    BY <2>2
  <2>5. pc' = [pc EXCEPT ![t] = "wait"] /\ item' = [item EXCEPT ![t] = [cert |-> r.cert, id |-> r.id, cause |-> "none"]]
    BY <2>1 DEF Post, Goto
  <2> QED
    BY <2>2, <2>3, <2>4, <2>5
<1>17. ASSUME NEW t \in Retriers, EndRetry(t) PROVE Awaited'
  BY <1>17, <1>1, ThreadAssumption DEF EndRetry, Goto
<1>18. ASSUME NEW t \in Retriers, RemoveFromQueue(t) PROVE Awaited'
  BY <1>18, <1>1, ThreadAssumption DEF RemoveFromQueue, Settle, Goto
<1>19. ASSUME NEW t \in Retriers, IncrementAttempts(t) PROVE Awaited'
  BY <1>19, <1>1, ThreadAssumption DEF IncrementAttempts, Settle, Goto
<1>20. ASSUME NEW t \in Retriers, RemoveRaises(t) PROVE Awaited'
  BY <1>20, <1>1, ThreadAssumption DEF RemoveRaises, Fail, Goto
<1>21. ASSUME NEW t \in Retriers, IncrementRaises(t) PROVE Awaited'
  BY <1>21, <1>1, ThreadAssumption DEF IncrementRaises, Fail, Goto
<1>22. ASSUME Crash PROVE Awaited'
  BY <1>22, <1>1, ThreadAssumption DEF Crash
<1>23. CASE UNCHANGED vars
  BY <1>23 DEF vars
<1> QED
  BY <1>1, <1>2, <1>3, <1>4, <1>5, <1>6, <1>7, <1>8, <1>9, <1>10, <1>11, <1>12, <1>13, <1>14, <1>15, <1>16, <1>17, <1>18, <1>19, <1>20, <1>21, <1>22, <1>23 DEF Next, PortalStep, CallStep, CallFault, RetryStep, RetryFault, Threads

\* The primary key admits one transaction at a time, and rows are never taken back.
LEMMA TransactionsStep == Typed /\ Transactions /\ [Next]_vars => Transactions'
<1> SUFFICES ASSUME Typed, Transactions, [Next]_vars PROVE Transactions'
  OBVIOUS
<1> USE DEF Typed, TypeOK, OpenHasCert, MaybeCert, Upload, FreeSlot, Transactions, Stored, StoredOnce, portalVars, queueVars, threadVars, resultVars
<1>1. Submitter \in Threads /\ Retriers \subseteq Threads
  BY DEF Threads
<1>2. ASSUME NEW u \in Slots, CheckExisting(u) PROVE Transactions'
  BY <1>2, <1>1 DEF CheckExisting, Advance
<1>3. ASSUME NEW u \in Slots, Flush(u) PROVE Transactions'
  BY <1>3, <1>1 DEF Flush, Advance
<1>4. ASSUME NEW u \in Slots, CommitRow(u) PROVE Transactions'
  BY <1>4, <1>1 DEF CommitRow, Advance
<1>5. ASSUME NEW u \in Slots, Refuse(u) PROVE Transactions'
  BY <1>5, <1>1 DEF Refuse, Advance, Fail
<1>6. ASSUME NEW u \in Slots, DropRequest(u) PROVE Transactions'
  BY <1>6, <1>1 DEF DropRequest, Advance, Fail
<1>7. ASSUME NEW c \in Certs, Register(c) PROVE Transactions'
  BY <1>7, <1>1 DEF Register, Post, Goto
<1>8. ASSUME NEW t \in Threads, ReceiveAccepted(t) PROVE Transactions'
  BY <1>8, <1>1 DEF ReceiveAccepted, Answered, Return, Leave, Goto
<1>9. ASSUME NEW t \in Threads, ReceiveOther(t) PROVE Transactions'
  BY <1>9, <1>1 DEF ReceiveOther, Answered, Goto
<1>10. ASSUME NEW t \in Threads, RaiseProtocolError(t) PROVE Transactions'
  BY <1>10, <1>1 DEF RaiseProtocolError, Answered, Raise, Leave, Goto
<1>11. ASSUME NEW t \in Threads, QueueCert(t) PROVE Transactions'
  BY <1>11, <1>1 DEF QueueCert, Return, Leave, Goto
<1>12. ASSUME NEW t \in Threads, LoseAnswer(t) PROVE Transactions'
  BY <1>12, <1>1 DEF LoseAnswer, Fail, Goto
<1>13. ASSUME NEW t \in Threads, QueueRaises(t) PROVE Transactions'
  BY <1>13, <1>1 DEF QueueRaises, Fail, Raise, Leave, Goto
<1>14. ASSUME NEW t \in Retriers, StartRetry(t) PROVE Transactions'
  BY <1>14, <1>1 DEF StartRetry, Goto
<1>15. ASSUME NEW t \in Retriers, SkipRow(t) PROVE Transactions'
  BY <1>15, <1>1 DEF SkipRow, Take
<1>16. ASSUME NEW t \in Retriers, RetryRow(t) PROVE Transactions'
  BY <1>16, <1>1 DEF RetryRow, Take, Post, Goto
<1>17. ASSUME NEW t \in Retriers, EndRetry(t) PROVE Transactions'
  BY <1>17, <1>1 DEF EndRetry, Goto
<1>18. ASSUME NEW t \in Retriers, RemoveFromQueue(t) PROVE Transactions'
  BY <1>18, <1>1 DEF RemoveFromQueue, Settle, Goto
<1>19. ASSUME NEW t \in Retriers, IncrementAttempts(t) PROVE Transactions'
  BY <1>19, <1>1 DEF IncrementAttempts, Settle, Goto
<1>20. ASSUME NEW t \in Retriers, RemoveRaises(t) PROVE Transactions'
  BY <1>20, <1>1 DEF RemoveRaises, Fail, Goto
<1>21. ASSUME NEW t \in Retriers, IncrementRaises(t) PROVE Transactions'
  BY <1>21, <1>1 DEF IncrementRaises, Fail, Goto
<1>22. ASSUME Crash PROVE Transactions'
  BY <1>22, <1>1 DEF Crash
<1>23. CASE UNCHANGED vars
  BY <1>23 DEF vars
<1> QED
  BY <1>1, <1>2, <1>3, <1>4, <1>5, <1>6, <1>7, <1>8, <1>9, <1>10, <1>11, <1>12, <1>13, <1>14, <1>15, <1>16, <1>17, <1>18, <1>19, <1>20, <1>21, <1>22, <1>23 DEF Next, PortalStep, CallStep, CallFault, RetryStep, RetryFault, Threads

\* Only an accepted upload is reported, or has its row removed.
LEMMA ReportedStep == Typed /\ Awaited /\ Transactions /\ Reported /\ [Next]_vars => Reported'
<1> SUFFICES ASSUME Typed, Awaited, Transactions, Reported, [Next]_vars PROVE Reported'
  OBVIOUS
<1> USE DEF Typed, TypeOK, Working, OpenHasCert, MaybeCert, Item, NoItem, Upload, Reported, ReportedMeansStored, StoredCerts, RemovesStored, Stored, portalVars, queueVars, threadVars, resultVars
<1>1. Submitter \in Threads /\ Retriers \subseteq Threads
  BY DEF Threads
<1>2. ASSUME NEW u \in Slots, CheckExisting(u) PROVE Reported'
  BY <1>2, <1>1, ThreadAssumption DEF CheckExisting, Advance
<1>3. ASSUME NEW u \in Slots, Flush(u) PROVE Reported'
  BY <1>3, <1>1, ThreadAssumption DEF Flush, Advance
<1>4. ASSUME NEW u \in Slots, CommitRow(u) PROVE Reported'
  BY <1>4, <1>1, ThreadAssumption DEF CommitRow, Advance
<1>5. ASSUME NEW u \in Slots, Refuse(u) PROVE Reported'
  BY <1>5, <1>1, ThreadAssumption DEF Refuse, Advance, Fail
<1>6. ASSUME NEW u \in Slots, DropRequest(u) PROVE Reported'
  BY <1>6, <1>1, ThreadAssumption DEF DropRequest, Advance, Fail
<1>7. ASSUME NEW c \in Certs, Register(c) PROVE Reported'
  BY <1>7, <1>1, ThreadAssumption DEF Register, Post, Goto
<1>8. ASSUME NEW t \in Threads, ReceiveAccepted(t) PROVE Reported'
  <2>1. PICK u \in Slots : Answered(t, u, "accepted")
    BY <1>8 DEF ReceiveAccepted
  <2>2. uploads[u].client = t /\ uploads[u].step = "accepted" /\ t # NoClient
    BY <2>1, ThreadAssumption DEF Answered
  <2>3. item[t].cert = uploads[u].cert /\ item[t].cert \in Certs
    BY <2>2 DEF Awaited
  <2>4. Stored(item[t].cert)
    BY <2>2, <2>3 DEF Transactions, Stored
  <2>5. rows' = rows /\ trusted' = trusted \cup {item[t].cert}
    BY <1>8 DEF ReceiveAccepted
  <2>6. pc' \in [Threads -> ThreadSteps] /\ \A s \in Threads : s # t => pc'[s] = pc[s] /\ item'[s] = item[s]
    BY <1>8 DEF ReceiveAccepted, Return, Leave, Goto, ThreadSteps
  <2>7. item'[t].cert = item[t].cert \/ pc'[t] = "idle"
    BY <1>8 DEF ReceiveAccepted, Return, Leave, Goto
  <2> QED
    BY <2>3, <2>4, <2>5, <2>6, <2>7
<1>9. ASSUME NEW t \in Threads, ReceiveOther(t) PROVE Reported'
  BY <1>9, <1>1, ThreadAssumption DEF ReceiveOther, Answered, Goto
<1>10. ASSUME NEW t \in Threads, RaiseProtocolError(t) PROVE Reported'
  BY <1>10, <1>1, ThreadAssumption DEF RaiseProtocolError, Answered, Raise, Leave, Goto
<1>11. ASSUME NEW t \in Threads, QueueCert(t) PROVE Reported'
  BY <1>11, <1>1, ThreadAssumption DEF QueueCert, Return, Leave, Goto
<1>12. ASSUME NEW t \in Threads, LoseAnswer(t) PROVE Reported'
  BY <1>12, <1>1, ThreadAssumption DEF LoseAnswer, Fail, Goto
<1>13. ASSUME NEW t \in Threads, QueueRaises(t) PROVE Reported'
  BY <1>13, <1>1, ThreadAssumption DEF QueueRaises, Fail, Raise, Leave, Goto
<1>14. ASSUME NEW t \in Retriers, StartRetry(t) PROVE Reported'
  BY <1>14, <1>1, ThreadAssumption DEF StartRetry, Goto
<1>15. ASSUME NEW t \in Retriers, SkipRow(t) PROVE Reported'
  BY <1>15, <1>1, ThreadAssumption DEF SkipRow, Take
<1>16. ASSUME NEW t \in Retriers, RetryRow(t) PROVE Reported'
  BY <1>16, <1>1, ThreadAssumption DEF RetryRow, Take, Post, Goto
<1>17. ASSUME NEW t \in Retriers, EndRetry(t) PROVE Reported'
  BY <1>17, <1>1, ThreadAssumption DEF EndRetry, Goto
<1>18. ASSUME NEW t \in Retriers, RemoveFromQueue(t) PROVE Reported'
  BY <1>18, <1>1, ThreadAssumption DEF RemoveFromQueue, Settle, Goto
<1>19. ASSUME NEW t \in Retriers, IncrementAttempts(t) PROVE Reported'
  BY <1>19, <1>1, ThreadAssumption DEF IncrementAttempts, Settle, Goto
<1>20. ASSUME NEW t \in Retriers, RemoveRaises(t) PROVE Reported'
  BY <1>20, <1>1, ThreadAssumption DEF RemoveRaises, Fail, Goto
<1>21. ASSUME NEW t \in Retriers, IncrementRaises(t) PROVE Reported'
  BY <1>21, <1>1, ThreadAssumption DEF IncrementRaises, Fail, Goto
<1>22. ASSUME Crash PROVE Reported'
  BY <1>22, <1>1, ThreadAssumption DEF Crash
<1>23. CASE UNCHANGED vars
  BY <1>23 DEF vars
<1> QED
  BY <1>1, <1>2, <1>3, <1>4, <1>5, <1>6, <1>7, <1>8, <1>9, <1>10, <1>11, <1>12, <1>13, <1>14, <1>15, <1>16, <1>17, <1>18, <1>19, <1>20, <1>21, <1>22, <1>23 DEF Next, PortalStep, CallStep, CallFault, RetryStep, RetryFault, Threads

\* A queue_id is used once, so what was read of a row stays true.
LEMMA IdsAgreeStep == Typed /\ IdsAgree /\ [Next]_vars => IdsAgree'
<1> SUFFICES ASSUME Typed, IdsAgree, [Next]_vars PROVE IdsAgree'
  OBVIOUS
<1> USE DEF Typed, TypeOK, Working, Item, NoItem, QueueRow, IdsAgree, portalVars, queueVars, threadVars, resultVars
<1>1. Submitter \in Threads /\ Retriers \subseteq Threads
  BY DEF Threads
<1>2. ASSUME NEW u \in Slots, CheckExisting(u) PROVE IdsAgree'
  BY <1>2, <1>1, ThreadAssumption DEF CheckExisting, Advance
<1>3. ASSUME NEW u \in Slots, Flush(u) PROVE IdsAgree'
  BY <1>3, <1>1, ThreadAssumption DEF Flush, Advance
<1>4. ASSUME NEW u \in Slots, CommitRow(u) PROVE IdsAgree'
  BY <1>4, <1>1, ThreadAssumption DEF CommitRow, Advance
<1>5. ASSUME NEW u \in Slots, Refuse(u) PROVE IdsAgree'
  BY <1>5, <1>1, ThreadAssumption DEF Refuse, Advance, Fail
<1>6. ASSUME NEW u \in Slots, DropRequest(u) PROVE IdsAgree'
  BY <1>6, <1>1, ThreadAssumption DEF DropRequest, Advance, Fail
<1>7. ASSUME NEW c \in Certs, Register(c) PROVE IdsAgree'
  BY <1>7, <1>1, ThreadAssumption DEF Register, Post, Goto
<1>8. ASSUME NEW t \in Threads, ReceiveAccepted(t) PROVE IdsAgree'
  BY <1>8, <1>1, ThreadAssumption DEF ReceiveAccepted, Answered, Return, Leave, Goto
<1>9. ASSUME NEW t \in Threads, ReceiveOther(t) PROVE IdsAgree'
  BY <1>9, <1>1, ThreadAssumption DEF ReceiveOther, Answered, Goto
<1>10. ASSUME NEW t \in Threads, RaiseProtocolError(t) PROVE IdsAgree'
  BY <1>10, <1>1, ThreadAssumption DEF RaiseProtocolError, Answered, Raise, Leave, Goto
<1>11. ASSUME NEW t \in Threads, QueueCert(t) PROVE IdsAgree'
  BY <1>11, <1>1, ThreadAssumption DEF QueueCert, Return, Leave, Goto
<1>12. ASSUME NEW t \in Threads, LoseAnswer(t) PROVE IdsAgree'
  BY <1>12, <1>1, ThreadAssumption DEF LoseAnswer, Fail, Goto
<1>13. ASSUME NEW t \in Threads, QueueRaises(t) PROVE IdsAgree'
  BY <1>13, <1>1, ThreadAssumption DEF QueueRaises, Fail, Raise, Leave, Goto
<1>14. ASSUME NEW t \in Retriers, StartRetry(t) PROVE IdsAgree'
  BY <1>14, <1>1, ThreadAssumption DEF StartRetry, Goto
<1>15. ASSUME NEW t \in Retriers, SkipRow(t) PROVE IdsAgree'
  BY <1>15, <1>1, ThreadAssumption DEF SkipRow, Take
<1>16. ASSUME NEW t \in Retriers, RetryRow(t) PROVE IdsAgree'
  BY <1>16, <1>1, ThreadAssumption DEF RetryRow, Take, Post, Goto
<1>17. ASSUME NEW t \in Retriers, EndRetry(t) PROVE IdsAgree'
  BY <1>17, <1>1, ThreadAssumption DEF EndRetry, Goto
<1>18. ASSUME NEW t \in Retriers, RemoveFromQueue(t) PROVE IdsAgree'
  BY <1>18, <1>1, ThreadAssumption DEF RemoveFromQueue, Settle, Goto
<1>19. ASSUME NEW t \in Retriers, IncrementAttempts(t) PROVE IdsAgree'
  BY <1>19, <1>1, ThreadAssumption DEF IncrementAttempts, Settle, Goto
<1>20. ASSUME NEW t \in Retriers, RemoveRaises(t) PROVE IdsAgree'
  BY <1>20, <1>1, ThreadAssumption DEF RemoveRaises, Fail, Goto
<1>21. ASSUME NEW t \in Retriers, IncrementRaises(t) PROVE IdsAgree'
  BY <1>21, <1>1, ThreadAssumption DEF IncrementRaises, Fail, Goto
<1>22. ASSUME Crash PROVE IdsAgree'
  BY <1>22, <1>1, ThreadAssumption DEF Crash
<1>23. CASE UNCHANGED vars
  BY <1>23 DEF vars
<1> QED
  BY <1>1, <1>2, <1>3, <1>4, <1>5, <1>6, <1>7, <1>8, <1>9, <1>10, <1>11, <1>12, <1>13, <1>14, <1>15, <1>16, <1>17, <1>18, <1>19, <1>20, <1>21, <1>22, <1>23 DEF Next, PortalStep, CallStep, CallFault, RetryStep, RetryFault, Threads

\* register returns with its certificate stored or queued, and a row goes only when it is stored.
LEMMA LostStep == Typed /\ Awaited /\ Transactions /\ Reported /\ IdsAgree /\ NoCertificateLost /\ [Next]_vars => NoCertificateLost'
<1> SUFFICES ASSUME Typed, Awaited, Transactions, Reported, IdsAgree, NoCertificateLost, [Next]_vars PROVE NoCertificateLost'
  OBVIOUS
<1> USE DEF Typed, TypeOK, Working, NoCertificateLost, StoredCerts, QueuedCerts, Stored, portalVars, queueVars, threadVars, resultVars
<1>1. Submitter \in Threads /\ Retriers \subseteq Threads
  BY DEF Threads
<1>2. ASSUME NEW u \in Slots, CheckExisting(u) PROVE NoCertificateLost'
  BY <1>2, <1>1, ThreadAssumption DEF CheckExisting, Advance
<1>3. ASSUME NEW u \in Slots, Flush(u) PROVE NoCertificateLost'
  BY <1>3, <1>1, ThreadAssumption DEF Flush, Advance
<1>4. ASSUME NEW u \in Slots, CommitRow(u) PROVE NoCertificateLost'
  BY <1>4, <1>1, ThreadAssumption DEF CommitRow, Advance
<1>5. ASSUME NEW u \in Slots, Refuse(u) PROVE NoCertificateLost'
  BY <1>5, <1>1, ThreadAssumption DEF Refuse, Advance, Fail
<1>6. ASSUME NEW u \in Slots, DropRequest(u) PROVE NoCertificateLost'
  BY <1>6, <1>1, ThreadAssumption DEF DropRequest, Advance, Fail
<1>7. ASSUME NEW c \in Certs, Register(c) PROVE NoCertificateLost'
  BY <1>7, <1>1, ThreadAssumption DEF Register, Post, Goto
<1>8. ASSUME NEW t \in Threads, ReceiveAccepted(t) PROVE NoCertificateLost'
  <2>1. PICK u \in Slots : Answered(t, u, "accepted")
    BY <1>8 DEF ReceiveAccepted
  <2>2. uploads[u].client = t /\ uploads[u].step = "accepted" /\ t # NoClient
    BY <2>1, ThreadAssumption DEF Answered
  <2>3. item[t].cert = uploads[u].cert /\ item[t].cert \in Certs
    BY <2>2 DEF Awaited
  <2>4. Stored(item[t].cert)
    BY <2>2, <2>3 DEF Transactions, Stored
  <2>5. rows' = rows /\ queue' = queue
    BY <1>8 DEF ReceiveAccepted
  <2>6. returned' \subseteq returned \cup {item[t].cert}
    BY <1>8 DEF ReceiveAccepted, Return
  <2> QED
    BY <2>3, <2>4, <2>5, <2>6
<1>9. ASSUME NEW t \in Threads, ReceiveOther(t) PROVE NoCertificateLost'
  BY <1>9, <1>1, ThreadAssumption DEF ReceiveOther, Answered, Goto
<1>10. ASSUME NEW t \in Threads, RaiseProtocolError(t) PROVE NoCertificateLost'
  BY <1>10, <1>1, ThreadAssumption DEF RaiseProtocolError, Answered, Raise, Leave, Goto
<1>11. ASSUME NEW t \in Threads, QueueCert(t) PROVE NoCertificateLost'
  <2>1. item[t].cert \in Certs
    BY <1>11 DEF QueueCert
  <2>2. returned' \subseteq returned \cup {item[t].cert} /\ rows' = rows
    BY <1>11 DEF QueueCert, Return
  <2>3. PICK q : q.cert = item[t].cert /\ queue' = queue \cup {q}
    BY <1>11 DEF QueueCert
  <2> QED
    BY <2>1, <2>2, <2>3
<1>12. ASSUME NEW t \in Threads, LoseAnswer(t) PROVE NoCertificateLost'
  BY <1>12, <1>1, ThreadAssumption DEF LoseAnswer, Fail, Goto
<1>13. ASSUME NEW t \in Threads, QueueRaises(t) PROVE NoCertificateLost'
  BY <1>13, <1>1, ThreadAssumption DEF QueueRaises, Fail, Raise, Leave, Goto
<1>14. ASSUME NEW t \in Retriers, StartRetry(t) PROVE NoCertificateLost'
  BY <1>14, <1>1, ThreadAssumption DEF StartRetry, Goto
<1>15. ASSUME NEW t \in Retriers, SkipRow(t) PROVE NoCertificateLost'
  BY <1>15, <1>1, ThreadAssumption DEF SkipRow, Take
<1>16. ASSUME NEW t \in Retriers, RetryRow(t) PROVE NoCertificateLost'
  BY <1>16, <1>1, ThreadAssumption DEF RetryRow, Take, Post, Goto
<1>17. ASSUME NEW t \in Retriers, EndRetry(t) PROVE NoCertificateLost'
  BY <1>17, <1>1, ThreadAssumption DEF EndRetry, Goto
<1>18. ASSUME NEW t \in Retriers, RemoveFromQueue(t) PROVE NoCertificateLost'
  <2>1. rows' = rows /\ returned' = returned
    BY <1>18 DEF RemoveFromQueue, Settle
  <2>2. t \in Threads /\ Stored(item[t].cert)
    BY <1>18, <1>1 DEF RemoveFromQueue, Reported, RemovesStored
  <2>3. \A r \in queue : r \in queue' \/ r.cert = item[t].cert
    BY <1>18, <2>2 DEF RemoveFromQueue, IdsAgree
  <2> QED
    BY <2>1, <2>2, <2>3
<1>19. ASSUME NEW t \in Retriers, IncrementAttempts(t) PROVE NoCertificateLost'
  <2>1. rows' = rows /\ returned' = returned
    BY <1>19 DEF IncrementAttempts, Settle
  <2>2. \A r \in queue : \E q \in queue' : q.cert = r.cert
    <3> TAKE r \in queue
    <3> DEFINE q == IF r.id = item[t].id THEN [r EXCEPT !.attempts = @ + 1] ELSE r
    <3>1. q \in queue'
      BY <1>19 DEF IncrementAttempts
    <3>2. q.cert = r.cert
      BY DEF QueueRow
    <3> QED
      BY <3>1, <3>2
  <2> QED
    BY <2>1, <2>2
<1>20. ASSUME NEW t \in Retriers, RemoveRaises(t) PROVE NoCertificateLost'
  BY <1>20, <1>1, ThreadAssumption DEF RemoveRaises, Fail, Goto
<1>21. ASSUME NEW t \in Retriers, IncrementRaises(t) PROVE NoCertificateLost'
  BY <1>21, <1>1, ThreadAssumption DEF IncrementRaises, Fail, Goto
<1>22. ASSUME Crash PROVE NoCertificateLost'
  BY <1>22, <1>1, ThreadAssumption DEF Crash
<1>23. CASE UNCHANGED vars
  BY <1>23 DEF vars
<1> QED
  BY <1>1, <1>2, <1>3, <1>4, <1>5, <1>6, <1>7, <1>8, <1>9, <1>10, <1>11, <1>12, <1>13, <1>14, <1>15, <1>16, <1>17, <1>18, <1>19, <1>20, <1>21, <1>22, <1>23 DEF Next, PortalStep, CallStep, CallFault, RetryStep, RetryFault, Threads

-----------------------------------------------------------------------------
(* Theorems.                                                                *)

IInv == Typed /\ Awaited /\ Transactions /\ Reported /\ IdsAgree /\ NoCertificateLost

\* The initial states satisfy the invariant.
LEMMA InitInvariant == Init => IInv
<1> SUFFICES ASSUME Init PROVE IInv
  OBVIOUS
<1> USE ThreadAssumption, BoundAssumption DEF Init, NoItem, FreeSlot
<1>1. Typed
  BY DEF Typed, TypeOK, Working, OpenHasCert, MaybeCert, Causes, Item, UploadSteps, Upload, QueueRow, ThreadSteps
<1>2. Awaited /\ Transactions /\ IdsAgree
  BY DEF Awaited, Transactions, StoredOnce, IdsAgree
<1>3. Reported /\ NoCertificateLost
  BY DEF Reported, ReportedMeansStored, RemovesStored, NoCertificateLost
<1> QED
  BY <1>1, <1>2, <1>3 DEF IInv

\* The invariant holds in every reachable state.
LEMMA Invariant == Spec => []IInv
<1>1. IInv /\ [Next]_vars => IInv'
  BY TypedStep, AwaitedStep, TransactionsStep, ReportedStep, IdsAgreeStep, LostStep DEF IInv
<1> QED
  BY <1>1, InitInvariant, PTL DEF Spec

\* Type correctness of client, portal and the requests between them.
THEOREM TypeCorrect == Spec => []TypeOK
<1>1. IInv => TypeOK
  BY DEF IInv, Typed
<1> QED
  BY <1>1, Invariant, PTL

\* A certificate for which register has returned is stored at the portal or queued
\* at the client: however many retry threads overlap, whichever answers are lost,
\* also at the retry limit, when SQLite refuses, and across crashes.
THEOREM NothingLost == Spec => []NoCertificateLost
<1>1. IInv => NoCertificateLost
  BY DEF IInv
<1> QED
  BY <1>1, Invariant, PTL

\* What register reports as registered is committed at the portal.
THEOREM NothingReportedFalsely == Spec => []ReportedMeansStored
<1>1. IInv => ReportedMeansStored
  BY DEF IInv, Reported
<1> QED
  BY <1>1, Invariant, PTL

\* The portal stores a certificate at most once, for any number of concurrent
\* uploads of it.
THEOREM NothingStoredTwice == Spec => []StoredOnce
<1>1. IInv => StoredOnce
  BY DEF IInv, Transactions
<1> QED
  BY <1>1, Invariant, PTL

-----------------------------------------------------------------------------
(* The refinement of CertificateDelivery.                                   *)

\* What the abstract specification sees.
Custody == <<StoredCerts, QueuedCerts, returned, trusted>>

\* A step that leaves the rows of both tables and the results alone is a stutter.
LEMMA NothingMoves ==
  ASSUME UNCHANGED <<rows, queue, returned, trusted>>
  PROVE  UNCHANGED Custody
BY DEF Custody, StoredCerts, Stored, QueuedCerts

\* A commit stores a certificate that was not stored.
LEMMA CommitStores ==
  ASSUME IInv, NEW u \in Slots, CommitRow(u)
  PROVE  Delivery!Next
<1>1. PICK c : c = uploads[u].cert
  OBVIOUS
<1>2. c \in Certs /\ rows[c] = 0
  BY <1>1 DEF CommitRow, IInv, Typed, OpenHasCert, Transactions
<1>3. rows' = [rows EXCEPT ![c] = 1]
  BY <1>1, <1>2 DEF CommitRow, IInv, Typed, TypeOK
<1>4. c \notin StoredCerts /\ StoredCerts' = StoredCerts \cup {c}
  BY <1>2, <1>3 DEF IInv, Typed, TypeOK, StoredCerts, Stored
<1>5. QueuedCerts' = QueuedCerts /\ UNCHANGED <<returned, trusted>>
  BY DEF CommitRow, QueuedCerts, queueVars, resultVars
<1> QED
  BY <1>2, <1>4, <1>5 DEF Delivery!Next, Delivery!Store

\* An accepted upload is reported for a certificate that is stored.
LEMMA AcceptReports ==
  ASSUME IInv, NEW t \in Threads, ReceiveAccepted(t)
  PROVE  Delivery!Next
<1>1. PICK u \in Slots : Answered(t, u, "accepted")
  BY DEF ReceiveAccepted
<1>2. uploads[u].client = t /\ uploads[u].step = "accepted" /\ t # NoClient
  BY <1>1, ThreadAssumption DEF Answered
<1>3. PICK c : c = item[t].cert
  OBVIOUS
<1>4. c \in Certs /\ c = uploads[u].cert
  BY <1>1, <1>2, <1>3 DEF Answered, IInv, Typed, Working, Awaited
<1>5. c \in StoredCerts
  BY <1>2, <1>4 DEF IInv, Transactions, StoredCerts
<1>6. trusted' = trusted \cup {c} /\ returned' \in {returned, returned \cup {c}}
  BY <1>3 DEF ReceiveAccepted, Return
<1>7. StoredCerts' = StoredCerts /\ QueuedCerts' = QueuedCerts
  BY DEF ReceiveAccepted, StoredCerts, Stored, QueuedCerts, queueVars
<1> QED
  BY <1>4, <1>5, <1>6, <1>7 DEF Delivery!Next, Delivery!Report, Delivery!Answer

\* A failed upload is answered in the step that queues its certificate.
LEMMA QueueKeeps ==
  ASSUME IInv, NEW t \in Threads, QueueCert(t)
  PROVE  Delivery!Next
<1>1. PICK c : c = item[t].cert
  OBVIOUS
<1>2. c \in Certs
  BY <1>1 DEF QueueCert, IInv, Typed, Working
<1>3. PICK q : q.cert = c /\ queue' = queue \cup {q}
  BY <1>1 DEF QueueCert
<1>4. QueuedCerts' = QueuedCerts \cup {c}
  BY <1>3 DEF QueuedCerts
<1>5. returned' \in {returned, returned \cup {c}} /\ trusted' = trusted
  BY <1>1 DEF QueueCert, Return
<1>6. StoredCerts' = StoredCerts
  BY DEF QueueCert, StoredCerts, Stored, portalVars
<1> QED
  BY <1>2, <1>4, <1>5, <1>6 DEF Delivery!Next, Delivery!Keep, Delivery!Answer

\* A row that is removed belongs to a stored certificate, which may have others.
LEMMA RemovalReleases ==
  ASSUME IInv, NEW t \in Retriers, RemoveFromQueue(t)
  PROVE  Delivery!Next \/ UNCHANGED Custody
<1>1. PICK c : c = item[t].cert
  OBVIOUS
<1>2. t \in Threads /\ c \in Certs /\ c \in StoredCerts
  BY <1>1 DEF RemoveFromQueue, IInv, Typed, Working, Reported, RemovesStored, StoredCerts, Threads
<1>3. queue' \subseteq queue /\ \A r \in queue : r \in queue' \/ r.cert = c
  BY <1>1, <1>2 DEF RemoveFromQueue, IInv, IdsAgree
<1>4. StoredCerts' = StoredCerts /\ UNCHANGED <<returned, trusted>>
  BY DEF RemoveFromQueue, Settle, StoredCerts, Stored, portalVars, resultVars
<1>5. QueuedCerts' \subseteq QueuedCerts /\ QueuedCerts \subseteq QueuedCerts' \cup {c}
  BY <1>3 DEF QueuedCerts
<1>6. CASE QueuedCerts' = QueuedCerts
  BY <1>4, <1>6 DEF Custody
<1>7. CASE QueuedCerts' # QueuedCerts
  <2>1. c \in QueuedCerts /\ QueuedCerts' = QueuedCerts \ {c}
    BY <1>5, <1>7
  <2> QED
    BY <1>2, <1>4, <2>1 DEF Delivery!Next, Delivery!Release
<1> QED
  BY <1>6, <1>7

\* Counting an attempt keeps every certificate where it is.
LEMMA CountStutters ==
  ASSUME IInv, NEW t \in Retriers, IncrementAttempts(t)
  PROVE  UNCHANGED Custody
<1>1. queue \subseteq QueueRow /\ UNCHANGED <<rows, returned, trusted>>
  BY DEF IncrementAttempts, Settle, IInv, Typed, TypeOK, portalVars, resultVars
<1>2. PICK n : n = item[t].id
  OBVIOUS
<1>3. queue' = {IF r.id = n THEN [r EXCEPT !.attempts = @ + 1] ELSE r : r \in queue}
  BY <1>2 DEF IncrementAttempts
<1>4. \A r \in queue : (IF r.id = n THEN [r EXCEPT !.attempts = @ + 1] ELSE r).cert = r.cert
  BY <1>1 DEF QueueRow
<1>5. QueuedCerts' = QueuedCerts
  BY <1>3, <1>4 DEF QueuedCerts
<1> QED
  BY <1>1, <1>5 DEF Custody, StoredCerts, Stored

\* Registration implements CertificateDelivery: only a commit stores, and each
\* certificate once; a call returns in the step that reports a stored certificate
\* or queues one; a row leaves the queue only for a stored certificate; every
\* other step of client, portal and network, a crash too, moves nothing.
THEOREM DeliveryImplemented == Spec => DeliversCertificates
<1>1. Init => Delivery!Init
  BY DEF Init, Delivery!Init, StoredCerts, Stored, QueuedCerts
<1>2. IInv /\ [Next]_vars => [Delivery!Next]_Custody
  <2> SUFFICES ASSUME IInv, [Next]_vars
               PROVE  Delivery!Next \/ UNCHANGED Custody
    OBVIOUS
  <2> USE DEF portalVars, queueVars, threadVars, resultVars
  <2>1. ASSUME NEW u \in Slots, CheckExisting(u) \/ Flush(u) \/ Refuse(u) \/ DropRequest(u)
        PROVE  UNCHANGED <<rows, queue, returned, trusted>>
    BY <2>1 DEF CheckExisting, Flush, Refuse, DropRequest
  <2>2. ASSUME NEW c \in Certs, Register(c)
        PROVE  UNCHANGED <<rows, queue, returned, trusted>>
    BY <2>2 DEF Register
  <2>3. ASSUME NEW t \in Threads, \/ ReceiveOther(t) \/ RaiseProtocolError(t)
                                  \/ LoseAnswer(t) \/ QueueRaises(t)
        PROVE  UNCHANGED <<rows, queue, returned, trusted>>
    BY <2>3 DEF ReceiveOther, RaiseProtocolError, LoseAnswer, QueueRaises
  <2>4. ASSUME NEW t \in Retriers, \/ StartRetry(t) \/ SkipRow(t) \/ RetryRow(t)
                                   \/ EndRetry(t) \/ RemoveRaises(t) \/ IncrementRaises(t)
        PROVE  UNCHANGED <<rows, queue, returned, trusted>>
    BY <2>4 DEF StartRetry, SkipRow, RetryRow, EndRetry, RemoveRaises, IncrementRaises
  <2>5. ASSUME Crash \/ UNCHANGED vars
        PROVE  UNCHANGED <<rows, queue, returned, trusted>>
    BY <2>5 DEF Crash, vars
  <2>6. ASSUME UNCHANGED <<rows, queue, returned, trusted>>
        PROVE  UNCHANGED Custody
    BY <2>6, NothingMoves
  <2> QED
    BY <2>1, <2>2, <2>3, <2>4, <2>5, <2>6, CommitStores, AcceptReports, QueueKeeps,
       RemovalReleases, CountStutters
       DEF Next, PortalStep, CallStep, CallFault, RetryStep, RetryFault
<1> QED
  BY <1>1, <1>2, Invariant, PTL DEF Spec, DeliversCertificates, Delivery!Spec, Custody
=============================================================================
