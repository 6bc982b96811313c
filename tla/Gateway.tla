------------------------------ MODULE Gateway ------------------------------
(***************************************************************************)
(* How the portal admits a verification and waits for it: the sliding       *)
(* window of rate_limiter.py, which all uvicorn workers share through       *)
(* Redis, and the pool of processes that each worker verifies in            *)
(* (verification_engine.py), behind the handlers of api.py.                 *)
(*                                                                         *)
(* A lookup by ID runs in a thread.  An upload (async def) keeps its        *)
(* worker's event loop from the limiter to its answer, and the loop has to  *)
(* be free for any request to begin.  All requests come from one client.    *)
(*                                                                         *)
(* Members of the window are told apart by the nanosecond; here, by the     *)
(* request, that is, no two of them are equal.                              *)
(***************************************************************************)
EXTENDS Naturals, FiniteSets, Sequences

CONSTANTS
  Requests,
  Processes,   \* uvicorn workers
  ProcessOf,   \* which of them gets a request
  Uploads,     \* the requests that are uploads or QR codes; the others are lookups
  Limit,       \* RATE_ZONES: so many requests
  Window,      \*             within so many seconds
  PoolSize,    \* max_workers
  MaxDelay,    \* seconds that check_rate_limit takes at most
  MaxTime,     \* bound: seconds
  MaxFaults    \* bound: commands to Redis that fail, and processes that die

None == "none"

ASSUME RequestAssumption ==
  /\ IsFiniteSet(Requests) /\ None \notin Requests
  /\ ProcessOf \in [Requests -> Processes]
  /\ Uploads \subseteq Requests
ASSUME LimitAssumption ==
  Limit \in Nat \ {0} /\ Window \in Nat /\ MaxDelay \in Nat /\ MaxDelay < Window
ASSUME BoundsAssumption == PoolSize \in Nat \ {0} /\ MaxTime \in Nat /\ MaxFaults \in Nat

VARIABLES
  window,   \* the sorted set: entries with the request and its score
  expiry,   \* the second in which its key expires
  now,      \* the clock
  req,      \* the requests, with the time they read from the clock
  loop,     \* the upload that each worker's event loop is in, if any
  jobs,     \* per worker, the calls submitted to its pool; the first PoolSize run
  broken,   \* the workers whose pool has lost a process
  faults    \* commands that failed, and processes that died

vars == <<window, expiry, now, req, loop, jobs, broken, faults>>

Steps == {"new", "check", "reject", "admitted", "wait", "answered"}
Answers == {"none", "429", "refused", "verdict", "error"}
Entry == [by : Requests, score : 0..MaxTime]
Request == [step : Steps, clock : 0..MaxTime, counted : BOOLEAN, answer : Answers]

TypeOK ==
  /\ window \subseteq Entry /\ expiry \in Nat
  /\ now \in 0..MaxTime /\ faults \in 0..MaxFaults
  /\ req \in [Requests -> Request]
  /\ loop \in [Processes -> Uploads \cup {None}]
  /\ jobs \in [Processes -> Seq(Requests)]
  /\ broken \subseteq Processes
  /\ \A r \in Uploads : loop[ProcessOf[r]] = r <=> req[r].step \notin {"new", "answered"}

Init ==
  /\ window = {} /\ expiry = 0 /\ now = 0 /\ faults = 0
  /\ req = [r \in Requests |-> [step |-> "new", clock |-> 0, counted |-> FALSE, answer |-> "none"]]
  /\ loop = [p \in Processes |-> None]
  /\ jobs = [p \in Processes |-> << >>]
  /\ broken = {}

At(r, step) == req[r].step = step
Fault == faults < MaxFaults /\ faults' = faults + 1

\* The handler returns, and an upload gives the event loop back.
Answered(rs) == [p \in Processes |-> IF loop[p] \in rs THEN None ELSE loop[p]]

\* Mutant: the handler never returns to the event loop.
MutAnswer(r, answer) ==
  /\ req' = [req EXCEPT ![r] = [@ EXCEPT !.step = "answered", !.answer = answer]]
  /\ UNCHANGED loop

Answer(r, answer) ==
  /\ req' = [req EXCEPT ![r] = [@ EXCEPT !.step = "answered", !.answer = answer]]
  /\ loop' = Answered({r})

-----------------------------------------------------------------------------
(* check_rate_limit.                                                        *)

\* The handler begins, and reads the clock.
Begin(r) ==
  /\ At(r, "new") /\ loop[ProcessOf[r]] = None
  /\ req' = [req EXCEPT ![r] = [@ EXCEPT !.step = "check", !.clock = now]]
  /\ loop' = IF r \in Uploads THEN [loop EXCEPT ![ProcessOf[r]] = r] ELSE loop
  /\ UNCHANGED <<window, expiry, now, jobs, broken, faults>>

\* What the transaction leaves in the window before it adds the request.
Recent(time) == {e \in window : e.score + Window > time}

\* MULTI ... EXEC: expired entries go, the others are counted, the request is
\* added, and the key is kept for as long as the window.
Add(r) ==
  /\ window' = Recent(req[r].clock) \cup {[by |-> r, score |-> req[r].clock]}
  /\ expiry' = now + Window

\* Mutant: one too many.
MutCheck(r) ==
  /\ At(r, "check")
  /\ Add(r)
  /\ req' = IF Cardinality(Recent(req[r].clock)) > Limit
            THEN [req EXCEPT ![r].step = "reject"]
            ELSE [req EXCEPT ![r] = [@ EXCEPT !.step = "admitted", !.counted = TRUE]]
  /\ UNCHANGED <<now, loop, jobs, broken, faults>>

Check(r) ==
  /\ At(r, "check")
  /\ Add(r)
  /\ req' = IF Cardinality(Recent(req[r].clock)) >= Limit
            THEN [req EXCEPT ![r].step = "reject"]
            ELSE [req EXCEPT ![r] = [@ EXCEPT !.step = "admitted", !.counted = TRUE]]
  /\ UNCHANGED <<now, loop, jobs, broken, faults>>

\* Without an answer from Redis the request is admitted; the transaction may
\* have been executed all the same.
CheckFails(r) ==
  /\ At(r, "check") /\ Fault
  /\ Add(r) \/ UNCHANGED <<window, expiry>>
  /\ req' = [req EXCEPT ![r].step = "admitted"]
  /\ UNCHANGED <<now, loop, jobs, broken>>

Newest == {e \in window : \A f \in window : f.score <= e.score}

\* Mutant: what was rejected stays in the window.
MutReject(r) ==
  /\ At(r, "reject")
  /\ UNCHANGED window
  /\ Answer(r, "429")
  /\ UNCHANGED <<expiry, now, jobs, broken, faults>>

\* zpopmax removes a newest entry, which need not be the request's own.
Reject(r) ==
  /\ At(r, "reject")
  /\ IF window = {} THEN UNCHANGED window ELSE \E e \in Newest : window' = window \ {e}
  /\ Answer(r, "429")
  /\ UNCHANGED <<expiry, now, jobs, broken, faults>>

\* It is admitted after all when zrange or zpopmax fails.
RejectFails(r) ==
  /\ At(r, "reject") /\ Fault
  /\ window' \in {window} \cup {window \ {e} : e \in Newest}
  /\ req' = [req EXCEPT ![r].step = "admitted"]
  /\ UNCHANGED <<expiry, now, loop, jobs, broken>>

-----------------------------------------------------------------------------
(* verify_certificate and its pool.                                         *)

\* Not a certificate, not in the registry, no key for it: answered without the pool.
Refuse(r) ==
  /\ At(r, "admitted")
  /\ Answer(r, "refused")
  /\ UNCHANGED <<window, expiry, now, jobs, broken, faults>>

Submit(r) ==
  /\ At(r, "admitted")
  /\ IF ProcessOf[r] \in broken THEN Answer(r, "error") /\ UNCHANGED jobs
     ELSE /\ jobs' = [jobs EXCEPT ![ProcessOf[r]] = Append(@, r)]
          /\ req' = [req EXCEPT ![r].step = "wait"]
          /\ UNCHANGED loop
  /\ UNCHANGED <<window, expiry, now, broken, faults>>

Without(s, i) == SubSeq(s, 1, i - 1) \o SubSeq(s, i + 1, Len(s))

\* One of the calls that run ends; who asked for it may have gone.
Finish(p) ==
  /\ \E i \in 1..Len(jobs[p]) :
       /\ i <= PoolSize
       /\ jobs' = [jobs EXCEPT ![p] = Without(@, i)]
       /\ IF At(jobs[p][i], "wait") THEN Answer(jobs[p][i], "verdict") ELSE UNCHANGED <<req, loop>>
  /\ UNCHANGED <<window, expiry, now, broken, faults>>

\* Mutant: result() without a timeout.
MutTimeOut(r) == FALSE /\ UNCHANGED vars

\* result(timeout=10) gives up; the call stays in the pool.
TimeOut(r) ==
  /\ At(r, "wait")
  /\ Answer(r, "error")
  /\ UNCHANGED <<window, expiry, now, jobs, broken, faults>>

\* A process of the pool dies: the pool is broken for good, and whoever waits
\* for one of its calls is told so.
Die(p) ==
  /\ jobs[p] # << >> /\ Fault
  /\ broken' = broken \cup {p}
  /\ jobs' = [jobs EXCEPT ![p] = << >>]
  /\ LET waiting == {r \in Requests : ProcessOf[r] = p /\ At(r, "wait")} IN
     /\ req' = [r \in Requests |->
                  IF r \in waiting THEN [req[r] EXCEPT !.step = "answered", !.answer = "error"] ELSE req[r]]
     /\ loop' = Answered(waiting)
  /\ UNCHANGED <<window, expiry, now>>

\* Redis deletes the key, in the second in which it expires.
Expire ==
  /\ window # {} /\ now = expiry
  /\ window' = {}
  /\ UNCHANGED <<expiry, now, req, loop, jobs, broken, faults>>

\* check_rate_limit does not take longer than MaxDelay.
Tick ==
  /\ now < MaxTime /\ now' = now + 1
  /\ window # {} => now' <= expiry
  /\ \A r \in Requests : At(r, "check") \/ At(r, "reject") => now' <= req[r].clock + MaxDelay
  /\ UNCHANGED <<window, expiry, req, loop, jobs, broken, faults>>

-----------------------------------------------------------------------------
RequestStep(r) == Check(r) \/ Reject(r) \/ Refuse(r) \/ Submit(r) \/ TimeOut(r)

Next ==
  \/ \E r \in Requests : Begin(r) \/ RequestStep(r) \/ CheckFails(r) \/ RejectFails(r)
  \/ \E p \in Processes : Finish(p) \/ Die(p)
  \/ Expire \/ Tick

Spec == Init /\ [][Next]_vars

\* Handlers run on, a wait ends at the latest with its timeout, and an event loop
\* takes every request that waits for it; a verification need not end.
FairSpec ==
  /\ Spec
  /\ \A r \in Requests : SF_vars(Begin(r)) /\ WF_vars(RequestStep(r))

-----------------------------------------------------------------------------
(* Properties.                                                             *)

Counted == {r \in Requests : req[r].counted}

\* The requests that the limiter has answered and not counted: rejected ones, and
\* those let in for want of Redis.
Uncounted == {r \in Requests : req[r].step \notin {"new", "check", "reject"} /\ ~req[r].counted}

\* Each of them, from a window before r on, may have taken an entry newer than its
\* own, and left its own, older by MaxDelay, in its place.
Slack(r) ==
  MaxDelay * (1 + Cardinality({q \in Uncounted : req[r].clock < req[q].clock + MaxDelay + Window}))

\* The requests counted from r on, for a window less the slack.
Span(r) ==
  {q \in Counted : req[r].clock <= req[q].clock /\ req[q].clock + Slack(r) < req[r].clock + Window}

\* However requests overlap, also when they remove each other's entries, no more
\* than Limit are admitted within a window, less the time one check takes, and as
\* much again for every request that was rejected meanwhile; not counting those let
\* through for want of Redis.
LimitHolds == \A r \in Counted : Cardinality(Span(r)) <= Limit

\* What the module promises, Limit requests in a window, here less the time one
\* check takes.  False: a chain of overlapping rejections, each removing the entry
\* of the next, ends with one whose own entry has expired, and which then removes
\* that of a request that was admitted.
LimitPerWindow ==
  \A r \in Counted :
    Cardinality({q \in Counted : /\ req[r].clock <= req[q].clock
                                 /\ req[q].clock + MaxDelay < req[r].clock + Window}) <= Limit

\* Rejected requests leave no trace: a client that keeps trying is not kept out by
\* its own attempts, whatever order their commands come in.  What Redis did not
\* answer may stay.
RejectedLeaveNoTrace ==
  Cardinality(window) <= Limit + faults + Cardinality({r \in Requests : At(r, "reject")})

\* Every request is answered, also when all processes of the pool are taken by
\* verifications that never end, or are dead.
EveryoneAnswered == \A r \in Requests : <>At(r, "answered")
=============================================================================
